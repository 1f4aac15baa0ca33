---------------------------- MODULE AnswersProof ----------------------------
(***************************************************************************)
(* What a client is told, under every fault: one final message and nothing *)
(* after it (FinalIsLast), the output of its task completely and in order  *)
(* (OutputComplete), and a success only if it is recorded for the next     *)
(* build (SuccessRecorded).                                                *)
(***************************************************************************)
EXTENDS SprayCCProof

-----------------------------------------------------------------------------
(* How a connection ends.  Dropped has two origins: the relay appends it   *)
(* when the remote has hung up, and puts it in the place of a first        *)
(* message with a wrong code.  The server has not heard of the remote in   *)
(* the second case, and never will.                                        *)

HungUp == {"eof", "done"}

(* The server has taken in the remote's first message.                     *)
Known(x) ==
    \/ connType[x] \in {"Exec", "Client"}
    \/ pairedId[x] # None
    \/ x \in taskQueue
    \/ InQueue(x)

DroppedLast(x) ==
    \A i \in 1 .. Len(up[x]) : up[x][i].type = "Dropped" =>
        \/ conn[x] \in HungUp /\ i = Len(up[x])
        \/ i = 1 /\ ~Known(x)

(* A client's task is taken from a live connection, which the server gives *)
(* up only when the client is gone.                                        *)
ClientKept(c) ==
    pairedId[c] # None \/ c \in taskQueue => connType[c] = "Client" \/ proc[c] = "gone"

Ends ==
    /\ \A x \in Remotes : conn[x] \in HungUp => proc[x] = "gone"
    /\ \A x \in Remotes : conn[x] \in {"none", "backlog"} => connType[x] = "none"
    /\ \A x \in Remotes : DroppedLast(x)
    /\ \A c \in Clients : ClientKept(c)

(* A process that has ended stays so, and only its connection is closed.   *)
LEMMA GoneStays ==
    ASSUME TypeOK, [Next]_vars, NEW x \in Remotes
    PROVE  /\ proc[x] = "gone" => proc'[x] = "gone"
           /\ conn[x] \in HungUp => conn'[x] \in HungUp \/ proc[x] = "none"
           /\ conn'[x] \in HungUp => conn[x] \in HungUp \/ proc[x] = "gone"
           /\ conn'[x] \in {"none", "backlog"} => conn[x] \in {"none", "backlog"} \/ proc[x] = "none"
<1>0. proc \in [Remotes -> {"none", "waiting", "idle", "running", "gone"}]
      /\ conn \in [Remotes -> {"none", "backlog", "open", "eof", "done"}]
    BY DEF TypeOK, FabricTypeOK
<1>1. CASE UNCHANGED vars
    BY <1>1 DEF vars
<1>2. CASE ServerNext
  <2>1. ASSUME NEW c \in Remotes, Accept(c)
        PROVE  UNCHANGED proc /\ conn[c] = "backlog" /\ conn' = [conn EXCEPT ![c] = "open"]
      BY <2>1 DEF Accept
  <2>2. ASSUME \A c \in Remotes : ~Accept(c) PROVE UNCHANGED <<proc, conn>>
      BY <1>2, <2>2
         DEF ServerNext, HandleMsg, CheckQueues, RecvTask, RecvServant, RecvOutput, RecvDone,
           RecvFailed, RecvFinal, RecvDropped, Receive, Watchdog, Assign, CheckDone, Release,
           ReleaseDone, ReleaseDelayExpires, IdleDelayExpires
  <2> QED
      BY <1>0, <2>1, <2>2 DEF HungUp
<1>3. ASSUME NEW c \in Remotes, ConnEof(c) \/ ConnReturn(c) \/ ConnWriteError(c)
      PROVE  UNCHANGED proc /\ (conn' = [conn EXCEPT ![c] = "eof"] \/ conn' = [conn EXCEPT ![c] = "done"])
             /\ (proc[c] = "gone" \/ conn[c] = "eof") /\ conn[c] \in {"open", "eof"}
    BY <1>3 DEF ConnEof, ConnReturn, ConnWriteError
<1>4. ASSUME NEW q \in Queues, LoseJob(q) PROVE UNCHANGED <<proc, conn>>
    BY <1>4 DEF LoseJob
<1>5. ASSUME NEW c \in Remotes, NEW state, NEW m, Connect(c, state, m)
      PROVE  /\ proc[c] = "none" /\ proc' = [proc EXCEPT ![c] = state]
             /\ conn' = [conn EXCEPT ![c] = "backlog"]
    BY <1>5 DEF Connect
<1>6. ASSUME NEW c \in Clients, ClientStep(c) \/ KillClient(c)
      PROVE  UNCHANGED conn /\ (UNCHANGED proc \/ proc' = [proc EXCEPT ![c] = "gone"])
    BY <1>6 DEF ClientStep, ClientRefused, ClientOutput, ClientFailed, ClientDone, ClientEof,
                ClientRead, KillClient, Exit
<1>7. ASSUME NEW e \in Execs, ExecStep(e) \/ SendOutput(e) \/ KillExec(e)
      PROVE  /\ UNCHANGED conn
             /\ \/ UNCHANGED proc
                \/ proc[e] # "gone" /\ \E s : proc' = [proc EXCEPT ![e] = s]
    BY <1>7 DEF ExecStep, SendOutput, KillExec, StartTask, StartFails, SendDone, ExecPissOff,
                ExecEof, ExecRead, ExecLeaves, TaskEnds
<1>8. \A c \in Remotes : \A state, m : Connect(c, state, m) =>
          /\ proc[x] = "gone" => proc'[x] = "gone"
          /\ conn[x] \in HungUp => conn'[x] \in HungUp \/ proc[x] = "none"
          /\ conn'[x] \in HungUp => conn[x] \in HungUp
          /\ conn'[x] \in {"none", "backlog"} => conn[x] \in {"none", "backlog"} \/ proc[x] = "none"
    BY <1>0, <1>5 DEF HungUp
<1>9. ASSUME NEW c \in Clients, ClientConnect(c)
      PROVE  \E y \in Remotes : \E state, m : Connect(y, state, m)
    BY <1>9, RemoteFacts DEF ClientConnect
<1>10. ASSUME NEW e \in Execs, ExecConnect(e)
       PROVE  \E y \in Remotes : \E state, m : Connect(y, state, m)
    BY <1>10, RemoteFacts DEF ExecConnect
<1>11. ASSUME NEW c \in Remotes, ConnEof(c) \/ ConnReturn(c) \/ ConnWriteError(c)
       PROVE  /\ UNCHANGED proc
              /\ conn[x] \in HungUp => conn'[x] \in HungUp
              /\ conn'[x] \in HungUp => conn[x] \in HungUp \/ proc[x] = "gone"
              /\ conn'[x] \in {"none", "backlog"} => conn[x] \in {"none", "backlog"}
    BY <1>0, <1>3, <1>11 DEF HungUp
<1>12. ASSUME NEW c \in Clients, ClientNext(c)
       PROVE  /\ proc[x] = "gone" => proc'[x] = "gone"
              /\ conn[x] \in HungUp => conn'[x] \in HungUp \/ proc[x] = "none"
              /\ conn'[x] \in HungUp => conn[x] \in HungUp
              /\ conn'[x] \in {"none", "backlog"} => conn[x] \in {"none", "backlog"} \/ proc[x] = "none"
    BY <1>0, <1>6, <1>8, <1>9, <1>12, RemoteFacts DEF ClientNext
<1>13. ASSUME NEW e \in Execs, ExecNext(e)
       PROVE  /\ proc[x] = "gone" => proc'[x] = "gone"
              /\ conn[x] \in HungUp => conn'[x] \in HungUp \/ proc[x] = "none"
              /\ conn'[x] \in HungUp => conn[x] \in HungUp
              /\ conn'[x] \in {"none", "backlog"} => conn[x] \in {"none", "backlog"} \/ proc[x] = "none"
    BY <1>0, <1>7, <1>8, <1>10, <1>13, RemoteFacts DEF ExecNext
<1> QED
    BY <1>1, <1>2, <1>4, <1>11, <1>12, <1>13 DEF Next

(* A buffer without messages is the empty one.                             *)
LEMMA LenZero ==
    ASSUME NEW S, NEW s \in Seq(S), Len(s) = 0
    PROVE  s = <<>>
    OBVIOUS

(* A buffer that stays or loses a tail.                                    *)
LEMMA EndFrame ==
    ASSUME TypeOK, NEW x \in Remotes, DroppedLast(x), Known(x)' => Known(x),
           conn[x] \in HungUp => conn'[x] \in HungUp,
           \/ up'[x] = up[x]
           \/ \E k \in 0 .. Len(up[x]) : up'[x] = SubSeq(up[x], 1, k)
    PROVE  DroppedLast(x)'
<1>1. up[x] \in Seq(Messages) /\ Len(up[x]) \in Nat
    BY DEF TypeOK, FabricTypeOK
<1>2. CASE up'[x] = up[x]
    BY <1>2 DEF DroppedLast
<1>3. ASSUME NEW k \in 0 .. Len(up[x]), up'[x] = SubSeq(up[x], 1, k) PROVE DroppedLast(x)'
  <2>1. Len(up'[x]) = k /\ \A i \in 1 .. k : up'[x][i] = up[x][i]
      BY <1>1, <1>3, PrefixFacts
  <2>2. ASSUME NEW i \in 1 .. Len(up'[x]), up'[x][i].type = "Dropped"
        PROVE  (conn'[x] \in HungUp /\ i = Len(up'[x])) \/ (i = 1 /\ ~Known(x)')
    <3>1. i \in 1 .. Len(up[x]) /\ (i = Len(up[x]) => i = Len(up'[x])) /\ up[x][i].type = "Dropped"
        BY <1>1, <2>1, <2>2
    <3>2. (conn[x] \in HungUp /\ i = Len(up[x])) \/ (i = 1 /\ ~Known(x))
        BY <3>1 DEF DroppedLast
    <3> QED
        BY <3>1, <3>2
  <2> QED
      BY <2>2 DEF DroppedLast
<1> QED
    BY <1>2, <1>3

(* A message has been read.                                                *)
LEMMA EndRead ==
    ASSUME TypeOK, NEW x \in Remotes, DroppedLast(x), NEW type, Receive(x, type)
    PROVE  DroppedLast(x)'
<1>1. /\ Len(up[x]) \in Nat /\ up[x] \in Seq(Messages) /\ up[x] # <<>>
      /\ \A i \in 1 .. Len(up'[x]) : i + 1 \in 2 .. Len(up[x]) /\ up'[x][i] = up[x][i + 1]
      /\ UNCHANGED conn
    BY Received DEF TypeOK, FabricTypeOK
<1>2. Len(up'[x]) = Len(up[x]) - 1
    BY <1>1, TailFacts DEF Receive, TypeOK, FabricTypeOK
<1> SUFFICES ASSUME NEW i \in 1 .. Len(up'[x]), up'[x][i].type = "Dropped"
             PROVE  conn'[x] \in HungUp /\ i = Len(up'[x])
    BY DEF DroppedLast
<1>3. i + 1 \in 1 .. Len(up[x]) /\ i + 1 # 1 /\ up[x][i + 1].type = "Dropped"
    BY <1>1
<1>4. conn[x] \in HungUp /\ i + 1 = Len(up[x])
    BY <1>3 DEF DroppedLast
<1> QED
    BY <1>1, <1>2, <1>4

(* Nothing is dropped from a known remote that lives.                      *)
LEMMA AliveNotDropped ==
    ASSUME Ends, NEW x \in Remotes, Known(x), proc[x] # "gone"
    PROVE  \A i \in 1 .. Len(up[x]) : up[x][i].type # "Dropped"
<1>1. DroppedLast(x) /\ conn[x] \notin HungUp
    BY DEF Ends
<1> QED
    BY <1>1 DEF DroppedLast

(* If a known remote is dropped, it is gone and this was its last message. *)
LEMMA KnownDropped ==
    ASSUME TypeOK, Ends, NEW x \in Remotes, Known(x), Receive(x, "Dropped")
    PROVE  conn[x] \in HungUp /\ proc[x] = "gone" /\ Len(up[x]) = 1 /\ up'[x] = <<>>
<1>1. /\ Head(up[x]).type = "Dropped" /\ 1 \in 1 .. Len(up[x]) /\ up[x][1] = Head(up[x])
      /\ up[x] \in Seq(Messages) /\ up[x] # <<>>
    BY Received DEF TypeOK, FabricTypeOK
<1>2. conn[x] \in HungUp /\ 1 = Len(up[x]) /\ proc[x] = "gone"
    BY <1>1 DEF Ends, DroppedLast
<1>3. up'[x] = Tail(up[x])
    BY DEF Receive, TypeOK, FabricTypeOK
<1>4. Tail(up[x]) \in Seq(Messages) /\ Len(Tail(up[x])) = 0
    BY <1>1, <1>2, TailFacts
<1>5. Tail(up[x]) = <<>>
    BY <1>4, LenZero
<1> QED
    BY <1>2, <1>3, <1>5

(* Who is in exec_queue after a push or a pop.                             *)
LEMMA QueueMembers ==
    ASSUME TypeOK
    PROVE  /\ \A e \in Execs : execQueue' = Append(execQueue, e) =>
                  \A x : InQueue(x)' => InQueue(x) \/ x = e
           /\ execQueue # <<>> /\ execQueue' = Tail(execQueue) =>
                  \A x : InQueue(x)' => InQueue(x)
<1>1. execQueue \in Seq(Execs) /\ Len(execQueue) \in Nat
    BY DEF TypeOK, ServerTypeOK
<1>2. ASSUME NEW e \in Execs, execQueue' = Append(execQueue, e), NEW x, InQueue(x)'
      PROVE  InQueue(x) \/ x = e
  <2>1. /\ Len(execQueue') = Len(execQueue) + 1 /\ execQueue'[Len(execQueue) + 1] = e
        /\ \A i \in 1 .. Len(execQueue) : execQueue'[i] = execQueue[i]
      BY <1>1, <1>2, AppendFacts
  <2>2. PICK i \in 1 .. Len(execQueue') : execQueue'[i] = x
      BY <1>2 DEF InQueue
  <2>3. i \in 1 .. Len(execQueue) \/ i = Len(execQueue) + 1
      BY <1>1, <2>1
  <2> QED
      BY <2>1, <2>2, <2>3 DEF InQueue
<1>3. ASSUME execQueue # <<>>, execQueue' = Tail(execQueue), NEW x, InQueue(x)' PROVE InQueue(x)
  <2>1. /\ Len(execQueue') = Len(execQueue) - 1
        /\ \A i \in 1 .. Len(execQueue) - 1 : execQueue'[i] = execQueue[i + 1]
      BY <1>1, <1>3, TailFacts
  <2>2. PICK i \in 1 .. Len(execQueue') : execQueue'[i] = x
      BY <1>3 DEF InQueue
  <2>3. i + 1 \in 1 .. Len(execQueue) /\ execQueue[i + 1] = x
      BY <1>1, <2>1, <2>2
  <2> QED
      BY <2>3 DEF InQueue
<1> QED
    BY <1>2, <1>3

(* The server's steps that neither read a message nor make a remote known. *)
LEMMA DroppedLastQuiet ==
    ASSUME TypeOK, Ends, UNCHANGED up,
           \A x \in Remotes : conn[x] \in HungUp => conn'[x] \in HungUp,
           \A x \in Remotes : Known(x)' => Known(x)
    PROVE  \A x \in Remotes : DroppedLast(x)'
    BY EndFrame DEF Ends

(* A handler reads a message of x, and makes nobody else known.            *)
LEMMA DroppedLastRead ==
    ASSUME TypeOK, Ends, NEW x \in Remotes, NEW type, Receive(x, type),
           \A y \in Remotes \ {x} : Known(y)' => Known(y)
    PROVE  \A y \in Remotes : DroppedLast(y)'
<1>1. (\A y \in Remotes \ {x} : up'[y] = up[y]) /\ UNCHANGED conn
    BY Received
<1> QED
    BY <1>1, EndRead, EndFrame DEF Ends

(* send_to_paired_remote makes nobody known.                               *)
LEMMA SendKnows ==
    ASSUME TypeOK, NEW e \in Execs, NEW m, SendToPaired(e, m), NEW x \in Remotes
    PROVE  /\ connType'[x] # connType[x] => connType[x] = "Client" /\ connType'[x] = "Dead" /\ conn[x] = "done"
           /\ connType'[x] \in {"Exec", "Client"} => connType[x] = connType'[x]
    BY DEF SendToPaired, RxGone, TypeOK, ServerTypeOK

(* The server loop.                                                        *)
LEMMA DroppedLastServer ==
    ASSUME TypeOK, Turns, Ends, ServerNext
    PROVE  \A x \in Remotes : DroppedLast(x)'
<1>0. /\ pairedId \in [Remotes -> Remotes \cup {None}]
      /\ connType \in [Remotes -> {"none", "Pending", "Client", "Exec", "Dead"}]
      /\ conn \in [Remotes -> {"none", "backlog", "open", "eof", "done"}]
    BY DEF TypeOK, FabricTypeOK, ServerTypeOK
<1> DEFINE Goal == \A x \in Remotes : DroppedLast(x)'
<1>1. ASSUME NEW c \in Remotes, Accept(c) PROVE Goal
  <2>1. \A x \in Remotes : Known(x)' => Known(x)
      BY <1>0, <1>1 DEF Accept, Known, InQueue
  <2>2. \A x \in Remotes : conn[x] \in HungUp => conn'[x] \in HungUp
      BY <1>0, <1>1 DEF Accept, HungUp
  <2> QED
      BY <1>1, <2>1, <2>2, DroppedLastQuiet DEF Accept
<1>2. ASSUME Watchdog \/ CheckDone \/ ReleaseDone \/ ReleaseDelayExpires \/ IdleDelayExpires
      PROVE  Goal
  <2>1. UNCHANGED <<up, conn, connType, pairedId, taskQueue, execQueue>>
      BY <1>2 DEF Watchdog, CheckDone, ReleaseDone, ReleaseDelayExpires, IdleDelayExpires
  <2>2. \A x \in Remotes : Known(x)' => Known(x)
      BY <2>1 DEF Known, InQueue
  <2> QED
      BY <2>1, <2>2, DroppedLastQuiet
<1>3. ASSUME NEW c \in Clients, Assign(c) PROVE Goal
  <2> DEFINE e == Head(execQueue)
  <2>1. /\ UNCHANGED <<up, conn, connType>> /\ c \in taskQueue
        /\ taskQueue' = taskQueue \ {c} /\ execQueue # <<>> /\ execQueue' = Tail(execQueue)
        /\ pairedId' = [pairedId EXCEPT ![c] = e, ![e] = c] /\ InQueue(e)
      BY <1>3, AssignFacts DEF Assign, PopTask, PopExec
  <2> HIDE DEF e
  <2>2. \A x \in Remotes : pairedId'[x] # None => pairedId[x] # None \/ x = c \/ x = e
      BY <1>0, <2>1
  <2>3. \A x \in Remotes : InQueue(x)' => InQueue(x)
      BY <2>1, QueueMembers
  <2>4. \A x \in Remotes : Known(x)' => Known(x)
      BY <2>1, <2>2, <2>3 DEF Known
  <2> QED
      BY <2>1, <2>4, DroppedLastQuiet
<1>4. ASSUME Release PROVE Goal
  <2>1. /\ UNCHANGED <<up, conn, pairedId, taskQueue>>
        /\ connType' = [connType EXCEPT ![Head(execQueue)] = "Dead"]
        /\ execQueue # <<>> /\ execQueue' = Tail(execQueue)
      BY <1>4 DEF Release, PopExec
  <2>2. \A x \in Remotes : /\ InQueue(x)' => InQueue(x)
                           /\ connType'[x] \in {"Exec", "Client"} => connType[x] \in {"Exec", "Client"}
      BY <1>0, <2>1, QueueMembers
  <2>3. \A x \in Remotes : Known(x)' => Known(x)
      BY <2>1, <2>2 DEF Known
  <2> QED
      BY <2>1, <2>3, DroppedLastQuiet
<1>5. ASSUME NEW c \in Clients, RecvTask(c) PROVE Goal
  <2>1. /\ Receive(c, "Task") /\ connType' = [connType EXCEPT ![c] = "Client"]
        /\ taskQueue' = taskQueue \cup {c} /\ UNCHANGED <<pairedId, execQueue>>
      BY <1>5 DEF RecvTask
  <2>2. \A x \in Remotes \ {c} : Known(x)' => Known(x)
      BY <1>0, <2>1 DEF Known, InQueue
  <2> QED
      BY <2>1, <2>2, DroppedLastRead, RemoteFacts
<1>6. ASSUME NEW e \in Execs, RecvServant(e) PROVE Goal
  <2>1. /\ Receive(e, "YourObedientServant") /\ connType' = [connType EXCEPT ![e] = "Exec"]
        /\ pairedId' = [pairedId EXCEPT ![e] = None] /\ execQueue' = Append(execQueue, e)
        /\ UNCHANGED taskQueue
      BY <1>6 DEF RecvServant, ExecIsReady, Unpair
  <2>2. \A x : InQueue(x)' => InQueue(x) \/ x = e
      BY <2>1, QueueMembers
  <2>3. \A x \in Remotes \ {e} : Known(x)' => Known(x)
      BY <1>0, <2>1, <2>2 DEF Known
  <2> QED
      BY <2>1, <2>3, DroppedLastRead, RemoteFacts
<1>7. ASSUME NEW e \in Execs, RecvOutput(e) PROVE Goal
  <2>1. Receive(e, "TaskOutput") /\ UNCHANGED <<pairedId, taskQueue, execQueue>>
        /\ (UNCHANGED connType \/ SendToPaired(e, Head(up[e])))
      BY <1>7 DEF RecvOutput
  <2>2. \A x \in Remotes : connType'[x] \in {"Exec", "Client"} => connType[x] = connType'[x]
      BY <2>1, SendKnows
  <2>3. \A x \in Remotes : Known(x)' => Known(x)
      BY <2>1, <2>2 DEF Known, InQueue
  <2> QED
      BY <2>1, <2>3, DroppedLastRead, RemoteFacts
<1>8. ASSUME NEW e \in Execs, RecvDone(e) \/ RecvFailed(e) PROVE Goal
  <2>1. PICK type \in Final : RecvFinal(e, type)
      BY <1>8 DEF RecvDone, RecvFailed, Final
  <2>2. pairedId[e] # None
      BY <2>1, ResultFacts DEF RecvFinal, Results
  <2>3. /\ Receive(e, type) /\ SendToPaired(e, Head(up[e])) /\ UNCHANGED taskQueue
        /\ pairedId' = [pairedId EXCEPT ![e] = None] /\ execQueue' = Append(execQueue, e)
      BY <2>1, <2>2 DEF RecvFinal, ExecIsReady, Unpair
  <2>4. \A x \in Remotes : connType'[x] \in {"Exec", "Client"} => connType[x] = connType'[x]
      BY <2>3, SendKnows
  <2>5. \A x : InQueue(x)' => InQueue(x) \/ x = e
      BY <2>3, QueueMembers
  <2>6. \A x \in Remotes \ {e} : Known(x)' => Known(x)
      BY <1>0, <2>3, <2>4, <2>5 DEF Known
  <2> QED
      BY <2>3, <2>6, DroppedLastRead, RemoteFacts
<1>9. ASSUME NEW c \in Remotes, RecvDropped(c) PROVE Goal
  <2>1. Receive(c, "Dropped") /\ UNCHANGED <<pairedId, taskQueue, execQueue>>
        /\ (UNCHANGED connType \/ connType' = [connType EXCEPT ![c] = "Dead"])
      BY <1>9 DEF RecvDropped
  <2>2. \A x \in Remotes : Known(x)' => Known(x)
      BY <1>0, <2>1 DEF Known, InQueue
  <2> QED
      BY <2>1, <2>2, DroppedLastRead
<1> QED
    BY <1>1, <1>2, <1>3, <1>4, <1>5, <1>6, <1>7, <1>8, <1>9 DEF ServerNext, HandleMsg, CheckQueues

(* A known remote that lives writes; nothing of it has been dropped.       *)
LEMMA DroppedLastWrite ==
    ASSUME TypeOK, Ends, NEW x \in Remotes, NEW m \in Messages,
           up' = [up EXCEPT ![x] = Append(@, m)],
           UNCHANGED serverVars, UNCHANGED conn \/ conn' = [conn EXCEPT ![x] = "eof"],
           \/ Known(x) /\ proc[x] # "gone" /\ m.type # "Dropped"
           \/ conn[x] = "open" /\ conn'[x] = "eof"
    PROVE  \A y \in Remotes : DroppedLast(y)'
<1>1. \A y \in Remotes : Known(y)' <=> Known(y)
    BY DEF Known, InQueue, serverVars
<1>2. /\ \A y \in Remotes \ {x} : up'[y] = up[y]
      /\ Len(up[x]) \in Nat /\ Len(up'[x]) = Len(up[x]) + 1
      /\ up'[x][Len(up[x]) + 1] = m
      /\ \A i \in 1 .. Len(up[x]) : up'[x][i] = up[x][i]
    BY Appended
<1>3. \A y \in Remotes \ {x} : conn'[y] = conn[y]
    BY DEF TypeOK, FabricTypeOK
<1>4. ASSUME NEW y \in Remotes, y # x PROVE DroppedLast(y)'
    BY <1>1, <1>2, <1>3, <1>4, EndFrame DEF Ends
<1>5. DroppedLast(x)'
  <2>1. CASE Known(x) /\ proc[x] # "gone" /\ m.type # "Dropped"
    <3>1. \A i \in 1 .. Len(up[x]) : up[x][i].type # "Dropped"
        BY <2>1, AliveNotDropped
    <3>2. \A i \in 1 .. Len(up'[x]) : i \in 1 .. Len(up[x]) \/ i = Len(up[x]) + 1
        BY <1>2
    <3>3. \A i \in 1 .. Len(up'[x]) : up'[x][i].type # "Dropped"
        BY <1>2, <2>1, <3>1, <3>2
    <3> QED
        BY <3>3 DEF DroppedLast
  <2>2. CASE conn[x] = "open" /\ conn'[x] = "eof"
    <3>1. \A i \in 1 .. Len(up[x]) : up[x][i].type = "Dropped" => i = 1 /\ ~Known(x)
        BY <2>2 DEF Ends, DroppedLast, HungUp
    <3>2. ASSUME NEW i \in 1 .. Len(up'[x]), up'[x][i].type = "Dropped"
          PROVE  (conn'[x] \in HungUp /\ i = Len(up'[x])) \/ (i = 1 /\ ~Known(x)')
      <4>1. i \in 1 .. Len(up[x]) \/ i = Len(up'[x])
          BY <1>2
      <4> QED
          BY <1>1, <1>2, <2>2, <3>1, <3>2, <4>1 DEF HungUp
    <3> QED
        BY <3>2 DEF DroppedLast
  <2> QED
      BY <2>1, <2>2
<1> QED
    BY <1>4, <1>5

(* A first message of either kind.                                         *)
LEMMA DroppedLastConnect ==
    ASSUME TypeOK, Turns, Ends, NEW x \in Remotes, NEW state, NEW m \in Messages, m.type # "Dropped",
           Connect(x, state, m), UNCHANGED serverVars
    PROVE  \A y \in Remotes : DroppedLast(y)'
<1>1. \A y \in Remotes : Known(y)' <=> Known(y)
    BY DEF Known, InQueue, serverVars
<1>2. PICK first \in {m, Dropped} : up' = [up EXCEPT ![x] = <<first>>]
    BY DEF Connect
<1>3. /\ up'[x] = <<first>> /\ \A y \in Remotes \ {x} : up'[y] = up[y] /\ conn'[y] = conn[y]
    BY <1>2 DEF Connect, TypeOK, FabricTypeOK
<1>4. Len(<<first>>) = 1 /\ <<first>>[1] = first
    OBVIOUS
<1>5. ~Known(x)
  <2>1. conn[x] = "none" /\ connType[x] = "none"
      BY DEF Turns, Connect, Ends
  <2>2. pairedId[x] = None /\ x \notin taskQueue /\ ~InQueue(x)
    <3>1. CASE x \in Execs
        BY <2>1, <3>1, RemoteFacts DEF Turns, ExecPaired, TypeOK, ServerTypeOK
    <3>2. CASE x \in Clients
      <4>1. ~InQueue(x)
          BY <3>2, RemoteFacts DEF InQueue, TypeOK, ServerTypeOK
      <4> QED
          BY <2>1, <3>2, <4>1 DEF Turns, ClientTurn
    <3> QED
        BY <3>1, <3>2, RemoteFacts
  <2> QED
      BY <2>1, <2>2 DEF Known
<1>6. DroppedLast(x)'
    BY <1>1, <1>3, <1>4, <1>5 DEF DroppedLast
<1>7. ASSUME NEW y \in Remotes, y # x PROVE DroppedLast(y)'
    BY <1>1, <1>3, <1>7, EndFrame DEF Ends
<1> QED
    BY <1>6, <1>7

(* Everybody else: a buffer stays or loses a tail.                         *)
LEMMA DroppedLastLose ==
    ASSUME TypeOK, Ends, NEW x \in Remotes, up' = up \/ LoseTail(x), UNCHANGED serverVars,
           \A y \in Remotes : conn[y] \in HungUp => conn'[y] \in HungUp
    PROVE  \A y \in Remotes : DroppedLast(y)'
<1>1. \A y \in Remotes : Known(y)' <=> Known(y)
    BY DEF Known, InQueue, serverVars
<1>2. \A y \in Remotes : up'[y] = up[y] \/ \E k \in 0 .. Len(up[y]) : up'[y] = SubSeq(up[y], 1, k)
  <2>1. up \in [Remotes -> Seq(Messages)]
      BY DEF TypeOK, FabricTypeOK
  <2>2. CASE LoseTail(x)
    <3>1. PICK k \in 0 .. Len(up[x]) : up' = [up EXCEPT ![x] = SubSeq(@, 1, k)]
        BY <2>2 DEF LoseTail
    <3>2. up'[x] = SubSeq(up[x], 1, k) /\ \A y \in Remotes : y # x => up'[y] = up[y]
        BY <2>1, <3>1
    <3> QED
        BY <3>1, <3>2
  <2>3. CASE up' = up
      BY <2>3
  <2> QED
      BY <2>2, <2>3
<1> QED
    BY <1>1, <1>2, EndFrame DEF Ends

(* The task an exec has been given is its client's.                        *)
LEMMA GivenTask ==
    ASSUME TypeOK, Turns, NEW e \in Execs, ExecRead(e, "Task")
    PROVE  Head(down[e]).task \in Clients /\ Head(down[e]).task = pairedId[e]
<1>1. pairedId[e] # None /\ Head(down[e]).task = pairedId[e]
    BY ReadTask
<1> QED
    BY <1>1 DEF TypeOK, ServerTypeOK

(* The remotes and the relay.                                              *)
LEMMA DroppedLastRemotes ==
    ASSUME TypeOK, Turns, Ends, Next, UNCHANGED <<pc, serverVars>>, ~ServerNext
    PROVE  \A x \in Remotes : DroppedLast(x)'
<1> DEFINE Goal == \A x \in Remotes : DroppedLast(x)'
<1>0. UNCHANGED serverVars
    OBVIOUS
<1>1. ASSUME NEW c \in Remotes, ConnEof(c) PROVE Goal
  <2>1. conn[c] = "open" /\ conn'[c] = "eof" /\ Dropped \in Messages
      BY <1>1, MessageTypes DEF ConnEof, TypeOK, FabricTypeOK
  <2> QED
      BY <1>0, <1>1, <2>1, DroppedLastWrite DEF ConnEof
<1>2. ASSUME NEW c \in Remotes, ConnReturn(c) \/ ConnWriteError(c) PROVE Goal
  <2>1. \A y \in Remotes : conn[y] \in HungUp => conn'[y] \in HungUp
      BY <1>2 DEF ConnReturn, ConnWriteError, HungUp, TypeOK, FabricTypeOK
  <2> QED
      BY <1>0, <1>2, <2>1, DroppedLastLose DEF ConnReturn, ConnWriteError
<1>3. ASSUME NEW q \in Queues, LoseJob(q) PROVE Goal
  <2>1. \A y \in Remotes : Known(y)' => Known(y)
      BY <1>0 DEF Known, InQueue, serverVars
  <2> QED
      BY <1>3, <2>1, DroppedLastQuiet DEF LoseJob
<1>4. ASSUME NEW c \in Clients, ClientNext(c) PROVE Goal
  <2>1. CASE ClientConnect(c)
    <3>1. TaskMsg(c) \in Messages /\ TaskMsg(c).type # "Dropped"
        BY MessageTypes DEF TaskMsg, Message
    <3> QED
        BY <1>0, <2>1, <3>1, DroppedLastConnect, RemoteFacts DEF ClientConnect
  <2>2. CASE ~ClientConnect(c)
    <3>1. (up' = up \/ LoseTail(c)) /\ UNCHANGED conn
        BY <1>4, <2>2 DEF ClientNext, ClientStep, ClientRefused, ClientOutput, ClientFailed,
                          ClientDone, ClientEof, ClientRead, KillClient
    <3> QED
        BY <1>0, <3>1, DroppedLastLose, RemoteFacts
  <2> QED
      BY <2>1, <2>2
<1>5. ASSUME NEW e \in Execs, ExecNext(e) PROVE Goal
  <2>1. CASE ExecConnect(e)
    <3>1. PICK q \in Queues : Connect(e, "idle", YourObedientServant(q))
        BY <2>1 DEF ExecConnect
    <3>2. YourObedientServant(q) \in Messages /\ YourObedientServant(q).type # "Dropped"
        BY MessageTypes DEF YourObedientServant, Message
    <3> QED
        BY <1>0, <3>1, <3>2, DroppedLastConnect, RemoteFacts
  <2>2. CASE StartTask(e) \/ ExecPissOff(e) \/ ExecEof(e) \/ KillExec(e)
    <3>1. (up' = up \/ LoseTail(e)) /\ UNCHANGED conn
        BY <2>2 DEF StartTask, ExecPissOff, ExecEof, ExecRead, KillExec
    <3> QED
        BY <1>0, <3>1, DroppedLastLose, RemoteFacts
  <2>3. CASE StartFails(e)
    <3>1. pairedId[e] # None /\ Head(down[e]).task \in Clients
        BY <2>3, ReadTask, GivenTask DEF StartFails
    <3>2. /\ TaskFailed(Head(down[e]).task) \in Messages
          /\ TaskFailed(Head(down[e]).task).type # "Dropped"
        BY <3>1, MessageTypes DEF TaskFailed, Message
    <3> QED
        BY <1>0, <2>3, <3>1, <3>2, DroppedLastWrite, RemoteFacts DEF StartFails, ExecRead, Known
  <2>4. CASE SendOutput(e)
    <3>1. running[e] \in Clients /\ pairedId[e] # None /\ sent[running[e]] + 1 \in Int
        BY <2>4, UpRunning, ExecAssumption DEF SendOutput, TypeOK, ExecTypeOK
    <3>2. /\ TaskOutput(running[e], sent[running[e]] + 1) \in Messages
          /\ TaskOutput(running[e], sent[running[e]] + 1).type # "Dropped"
        BY <3>1, MessageTypes DEF TaskOutput, Message
    <3> QED
        BY <1>0, <2>4, <3>1, <3>2, DroppedLastWrite, RemoteFacts DEF SendOutput, Known
  <2>5. CASE SendDone(e)
    <3>1. PICK code \in ExitCodes : up' = [up EXCEPT ![e] = Append(@, TaskDone(running[e], code))]
        BY <2>5 DEF SendDone
    <3>2. running[e] \in Clients /\ pairedId[e] # None /\ code \in Int
        BY <2>5, UpRunning DEF SendDone, ExitCodes, NoCode
    <3>3. TaskDone(running[e], code) \in Messages /\ TaskDone(running[e], code).type # "Dropped"
        BY <3>2, MessageTypes DEF TaskDone, Message
    <3> QED
        BY <1>0, <2>5, <3>1, <3>2, <3>3, DroppedLastWrite, RemoteFacts DEF SendDone, Known
  <2> QED
      BY <1>5, <2>1, <2>2, <2>3, <2>4, <2>5 DEF ExecNext, ExecStep
<1> QED
    BY <1>1, <1>2, <1>3, <1>4, <1>5 DEF Next


(* When the server changes its mind about what a remote is, and when it    *)
(* takes in a client.                                                      *)
LEMMA TypeChanges ==
    ASSUME TypeOK, Turns, ServerNext, NEW x \in Remotes
    PROVE  /\ connType'[x] # connType[x] =>
                 \/ conn[x] = "backlog" /\ conn'[x] = "open" /\ connType'[x] = "Pending"
                 \/ conn'[x] = conn[x] /\ conn[x] \notin {"none", "backlog"}
                    /\ \/ x \in Clients /\ connType'[x] = "Client"
                       \/ x \in Execs
                       \/ conn[x] = "done"
                       \/ Receive(x, "Dropped")
           /\ x \in Clients /\ (pairedId'[x] # None \/ x \in taskQueue') =>
                 pairedId[x] # None \/ x \in taskQueue \/ connType'[x] = "Client"
<1>0. /\ pairedId \in [Remotes -> Remotes \cup {None}]
      /\ connType \in [Remotes -> {"none", "Pending", "Client", "Exec", "Dead"}]
      /\ conn \in [Remotes -> {"none", "backlog", "open", "eof", "done"}]
    BY DEF TypeOK, FabricTypeOK, ServerTypeOK
<1> DEFINE Changes == connType'[x] # connType[x] =>
                 \/ conn[x] = "backlog" /\ conn'[x] = "open" /\ connType'[x] = "Pending"
                 \/ conn'[x] = conn[x] /\ conn[x] \notin {"none", "backlog"}
                    /\ \/ x \in Clients /\ connType'[x] = "Client"
                       \/ x \in Execs
                       \/ conn[x] = "done"
                       \/ Receive(x, "Dropped")
           Taken == x \in Clients /\ (pairedId'[x] # None \/ x \in taskQueue') =>
                 pairedId[x] # None \/ x \in taskQueue \/ connType'[x] = "Client"
<1>1. ASSUME NEW c \in Remotes, Accept(c) PROVE Changes /\ Taken
    BY <1>0, <1>1 DEF Accept
<1>2. ASSUME Watchdog \/ CheckDone \/ ReleaseDone \/ ReleaseDelayExpires \/ IdleDelayExpires
      PROVE  Changes /\ Taken
    BY <1>2 DEF Watchdog, CheckDone, ReleaseDone, ReleaseDelayExpires, IdleDelayExpires
<1>3. ASSUME NEW c \in Clients, Assign(c) PROVE Changes /\ Taken
  <2>1. /\ UNCHANGED connType /\ c \in taskQueue /\ taskQueue' = taskQueue \ {c}
        /\ pairedId' = [pairedId EXCEPT ![c] = Head(execQueue), ![Head(execQueue)] = c]
        /\ Head(execQueue) \in Execs
      BY <1>3, AssignFacts DEF Assign, PopTask
  <2> QED
      BY <1>0, <2>1, RemoteFacts
<1>4. ASSUME Release PROVE Changes /\ Taken
  <2>1. /\ UNCHANGED <<conn, pairedId, taskQueue>>
        /\ connType' = [connType EXCEPT ![Head(execQueue)] = "Dead"]
        /\ execQueue # <<>> /\ execQueue' = Tail(execQueue)
      BY <1>4 DEF Release, PopExec
  <2>2. Head(execQueue) \in Execs /\ InQueue(Head(execQueue))
      BY <2>1, QueuePopped
  <2>3. conn[Head(execQueue)] \notin {"none", "backlog"}
      BY <2>2, QueuedExec
  <2> QED
      BY <1>0, <2>1, <2>2, <2>3
<1>5. ASSUME NEW c \in Clients, RecvTask(c) PROVE Changes /\ Taken
  <2>1. /\ Receive(c, "Task") /\ connType' = [connType EXCEPT ![c] = "Client"]
        /\ taskQueue' = taskQueue \cup {c} /\ UNCHANGED pairedId
      BY <1>5 DEF RecvTask
  <2>2. conn[c] \notin {"none", "backlog"} /\ UNCHANGED conn
      BY <2>1, Received, RemoteFacts
  <2> QED
      BY <1>0, <2>1, <2>2, RemoteFacts
<1>6. ASSUME NEW e \in Execs, RecvServant(e) PROVE Changes /\ Taken
  <2>1. /\ Receive(e, "YourObedientServant") /\ connType' = [connType EXCEPT ![e] = "Exec"]
        /\ pairedId' = [pairedId EXCEPT ![e] = None] /\ UNCHANGED taskQueue
      BY <1>6 DEF RecvServant, ExecIsReady, Unpair
  <2>2. conn[e] \notin {"none", "backlog"} /\ UNCHANGED conn
      BY <2>1, Received, RemoteFacts
  <2> QED
      BY <1>0, <2>1, <2>2, RemoteFacts
<1>7. ASSUME NEW e \in Execs, RecvOutput(e) \/ RecvDone(e) \/ RecvFailed(e) PROVE Changes /\ Taken
  <2>1. PICK type \in Results : Receive(e, type)
      BY <1>7 DEF RecvOutput, RecvDone, RecvFailed, RecvFinal, Results, Final
  <2>2. UNCHANGED taskQueue /\ (UNCHANGED connType \/ SendToPaired(e, Head(up[e])))
        /\ (UNCHANGED pairedId \/ pairedId' = [pairedId EXCEPT ![e] = None])
      BY <1>7 DEF RecvOutput, RecvDone, RecvFailed, RecvFinal, ExecIsReady, Unpair
  <2>3. connType'[x] # connType[x] => conn[x] = "done"
      BY <2>2, SendKnows
  <2>4. UNCHANGED conn
      BY <2>1 DEF Receive
  <2> QED
      BY <1>0, <2>2, <2>3, <2>4
<1>8. ASSUME NEW c \in Remotes, RecvDropped(c) PROVE Changes /\ Taken
  <2>1. Receive(c, "Dropped") /\ UNCHANGED <<pairedId, taskQueue>>
        /\ (UNCHANGED connType \/ connType' = [connType EXCEPT ![c] = "Dead"])
      BY <1>8 DEF RecvDropped
  <2>2. conn[c] \notin {"none", "backlog"} /\ UNCHANGED conn
      BY <2>1, Received
  <2> QED
      BY <1>0, <2>1, <2>2
<1> QED
    BY <1>1, <1>2, <1>3, <1>4, <1>5, <1>6, <1>7, <1>8 DEF ServerNext, HandleMsg, CheckQueues

LEMMA EndsStep == TypeOK /\ Turns /\ Ends /\ [Next]_vars => Ends'
<1> SUFFICES ASSUME TypeOK, Turns, Ends, [Next]_vars PROVE Ends'
    OBVIOUS
<1>0. UNCHANGED <<pc, serverVars>> \/ (ServerNext /\ UNCHANGED <<clientVars, execVars>>)
    BY ServerOwns
<1>1. \A x \in Remotes : conn'[x] \in HungUp => proc'[x] = "gone"
    BY GoneStays DEF Ends
<1>2. \A x \in Remotes : conn'[x] \in {"none", "backlog"} => conn[x] \in {"none", "backlog"}
    BY GoneStays DEF Turns
<1>3. \A x \in Remotes : conn'[x] \in {"none", "backlog"} => connType'[x] = "none"
  <2> SUFFICES ASSUME NEW x \in Remotes, conn'[x] \in {"none", "backlog"}
               PROVE  connType'[x] = "none"
      OBVIOUS
  <2>1. conn[x] \in {"none", "backlog"} /\ connType[x] = "none"
      BY <1>2 DEF Ends
  <2>2. CASE UNCHANGED serverVars
      BY <2>1, <2>2 DEF serverVars
  <2>3. CASE ServerNext
      BY <2>1, <2>3, TypeChanges
  <2> QED
      BY <1>0, <2>2, <2>3
<1>4. \A x \in Remotes : DroppedLast(x)'
  <2>1. CASE UNCHANGED vars
    <3>1. \A x \in Remotes : Known(x)' => Known(x)
        BY <2>1 DEF vars, serverVars, Known, InQueue
    <3> QED
        BY <2>1, <3>1, DroppedLastQuiet DEF vars
  <2>2. CASE ServerNext
      BY <2>2, DroppedLastServer
  <2>3. CASE Next /\ ~ServerNext
      BY <1>0, <2>3, DroppedLastRemotes
  <2> QED
      BY <2>1, <2>2, <2>3
<1>5. \A c \in Clients : ClientKept(c)'
  <2> SUFFICES ASSUME NEW c \in Clients, pairedId'[c] # None \/ c \in taskQueue'
               PROVE  connType'[c] = "Client" \/ proc'[c] = "gone"
      BY DEF ClientKept
  <2>0. c \in Remotes /\ c \notin Execs /\ (proc[c] = "gone" => proc'[c] = "gone")
      BY RemoteFacts, GoneStays
  <2>1. CASE UNCHANGED serverVars
    <3>1. connType[c] = "Client" \/ proc[c] = "gone"
        BY <2>1 DEF serverVars, Ends, ClientKept
    <3> QED
        BY <2>0, <2>1, <3>1 DEF serverVars
  <2>2. CASE ServerNext /\ connType'[c] # "Client"
    <3>1. pairedId[c] # None \/ c \in taskQueue
        BY <2>0, <2>2, TypeChanges
    <3>2. connType[c] = "Client" \/ proc[c] = "gone"
        BY <3>1 DEF Ends, ClientKept
    <3>3. conn[c] # "backlog"
        BY <3>1 DEF Turns, ClientTurn
    <3>4. Known(c)
        BY <3>1 DEF Known
    <3>5. conn[c] = "done" \/ Receive(c, "Dropped") => proc[c] = "gone"
        BY <2>0, <3>4, KnownDropped DEF Ends, HungUp
    <3>6. connType[c] = "Client" => conn[c] = "done" \/ Receive(c, "Dropped")
        BY <2>0, <2>2, <3>3, TypeChanges
    <3> QED
        BY <2>0, <3>2, <3>5, <3>6
  <2> QED
      BY <1>0, <2>1, <2>2
<1> QED
    BY <1>1, <1>3, <1>4, <1>5 DEF Ends

LEMMA EndsInit == Init => Ends
<1> SUFFICES ASSUME Init PROVE Ends
    OBVIOUS
<1>1. \A x \in Remotes : conn[x] = "none" /\ connType[x] = "none" /\ up[x] = <<>> /\ pairedId[x] = None
    BY DEF Init, FabricInit, ServerInit
<1>2. \A x \in Remotes : DroppedLast(x)
    BY <1>1 DEF DroppedLast
<1>3. \A c \in Clients : ClientKept(c)
    BY <1>1, RemoteFacts DEF ClientKept, Init, ServerInit
<1> QED
    BY <1>1, <1>2, <1>3 DEF Ends, HungUp

(* A dropped remote the server knows is gone: no client is told TaskFailed *)
(* while its exec lives.                                                   *)
LEMMA EndsCorrect == Spec => []Ends
<1>1. TypeOK /\ Turns /\ Ends /\ [Next]_vars => Ends'
    BY EndsStep
<1>2. Init => Ends
    BY EndsInit
<1> QED
    BY <1>1, <1>2, TypeCorrect, TurnsCorrect, PTL DEF Spec


-----------------------------------------------------------------------------
(* What reaches a client, and what it makes of it.                         *)

(* A step is the server loop's, or leaves the server's state alone.        *)
Elsewhere ==
    \/ UNCHANGED vars
    \/ (\E x \in Remotes : ConnEof(x) \/ ConnReturn(x) \/ ConnWriteError(x))
       /\ UNCHANGED <<clientVars, execVars>>
    \/ (\E q \in Queues : LoseJob(q)) /\ UNCHANGED <<clientVars, execVars>>
    \/ (\E c \in Clients : ClientNext(c)) /\ UNCHANGED execVars
    \/ (\E e \in Execs : ExecNext(e)) /\ UNCHANGED clientVars

LEMMA TwoSides ==
    ASSUME [Next]_vars
    PROVE  \/ ServerNext /\ UNCHANGED <<clientVars, execVars>>
           \/ Elsewhere /\ UNCHANGED <<pc, serverVars>>
<1>1. CASE UNCHANGED vars
    BY <1>1 DEF Elsewhere, vars
<1>2. CASE (\E e \in Execs : ExecNext(e)) /\ UNCHANGED <<serverVars, clientVars>>
  <2>1. UNCHANGED pc
      BY <1>2 DEF ExecNext, ExecConnect, ExecStep, StartTask, StartFails, ExecRead, SendOutput,
                  SendDone, ExecPissOff, ExecEof, KillExec
  <2> QED
      BY <1>2, <2>1 DEF Elsewhere
<1>3. CASE (\E c \in Clients : ClientNext(c)) /\ UNCHANGED <<serverVars, execVars>>
  <2>1. UNCHANGED pc
      BY <1>3 DEF ClientNext, ClientConnect, ClientStep, ClientRefused, ClientOutput, ClientFailed,
                  ClientDone, ClientEof, ClientRead, KillClient
  <2> QED
      BY <1>3, <2>1 DEF Elsewhere
<1>4. ASSUME NEW x \in Remotes, ConnEof(x) \/ ConnReturn(x) \/ ConnWriteError(x) PROVE UNCHANGED pc
    BY <1>4 DEF ConnEof, ConnReturn, ConnWriteError
<1>5. ASSUME NEW q \in Queues, LoseJob(q) PROVE UNCHANGED pc
    BY <1>5 DEF LoseJob
<1>6. CASE /\ \/ \E x \in Remotes : ConnEof(x) \/ ConnReturn(x) \/ ConnWriteError(x)
              \/ \E q \in Queues : LoseJob(q)
           /\ UNCHANGED <<serverVars, clientVars, execVars>>
    BY <1>4, <1>5, <1>6 DEF Elsewhere
<1> QED
    BY <1>1, <1>2, <1>3, <1>6 DEF Next

(* The server sends to a client what the exec paired with it has written,  *)
(* or TaskFailed when it reads that this exec is gone.                     *)
Forwarded(c, e, m) ==
    /\ pairedId[e] = c
    /\ conn[c] # "done"
    /\ down' = [down EXCEPT ![c] = Append(@, m)]
    /\ m \in Messages /\ m.type \in Results /\ m.task = c
    /\ \/ /\ m = Head(up[e]) /\ Receive(e, m.type)
          /\ m.type \in Final => pairedId'[e] = None
          /\ m.type = "TaskDone" /\ m.arg = 0 => inTheMaking' = inTheMaking \cup {c}
       \/ m = TaskFailed(c) /\ Receive(e, "Dropped") /\ connType[e] = "Exec"

LEMMA ClientHears ==
    ASSUME TypeOK, Turns, ServerNext, NEW c \in Clients
    PROVE  down'[c] = down[c] \/ \E e \in Execs, m \in Messages : Forwarded(c, e, m)
<1>0. down \in [Remotes -> Seq(Messages)] /\ c \in Remotes /\ c \notin Execs
    BY RemoteFacts DEF TypeOK, FabricTypeOK
<1> DEFINE Goal == down'[c] = down[c] \/ \E e \in Execs, m \in Messages : Forwarded(c, e, m)
<1>1. ASSUME NEW x \in Remotes, Accept(x) PROVE Goal
    BY <1>1 DEF Accept
<1>2. ASSUME Watchdog \/ CheckDone \/ ReleaseDone \/ ReleaseDelayExpires \/ IdleDelayExpires
      PROVE  Goal
    BY <1>2 DEF Watchdog, CheckDone, ReleaseDone, ReleaseDelayExpires, IdleDelayExpires
<1>3. ASSUME NEW d \in Clients, Assign(d) PROVE Goal
  <2>1. Head(execQueue) \in Execs
      BY <1>3, AssignFacts
  <2>2. UNCHANGED down \/ down' = [down EXCEPT ![Head(execQueue)] = Append(@, TaskMsg(d))]
      BY <1>3 DEF Assign
  <2> QED
      BY <1>0, <2>1, <2>2
<1>4. ASSUME Release PROVE Goal
  <2>1. execQueue # <<>> /\ execQueue' = Tail(execQueue)
        /\ (UNCHANGED down \/ down' = [down EXCEPT ![Head(execQueue)] = Append(@, PissOff)])
      BY <1>4 DEF Release, PopExec
  <2>2. Head(execQueue) \in Execs
      BY <2>1, QueuePopped
  <2> QED
      BY <1>0, <2>1, <2>2
<1>5. ASSUME NEW d \in Clients, RecvTask(d) PROVE Goal
    BY <1>5 DEF RecvTask
<1>6. ASSUME NEW e \in Execs, RecvServant(e) PROVE Goal
    BY <1>6 DEF RecvServant
<1>7. ASSUME NEW e \in Execs, RecvOutput(e) \/ RecvDone(e) \/ RecvFailed(e) PROVE Goal
  <2>1. PICK type \in Results : Receive(e, type)
      BY <1>7 DEF RecvOutput, RecvDone, RecvFailed, RecvFinal, Results, Final
  <2> DEFINE m == Head(up[e])
  <2>2. /\ pairedId[e] \in Clients /\ pairedId[e] # None /\ m \in Messages /\ m.type = type
        /\ m.task = pairedId[e] /\ m.type \in Results
      BY <2>1, ResultFacts
  <2>3. SendToPaired(e, m)
      BY <1>7, <2>2 DEF RecvOutput, RecvDone, RecvFailed, RecvFinal
  <2>4. m.type \in Final => pairedId' = [pairedId EXCEPT ![e] = None]
    <3>1. m.type \in Final => RecvDone(e) \/ RecvFailed(e)
        BY <1>7 DEF RecvOutput, Receive, Final
    <3> QED
        BY <2>2, <3>1 DEF RecvDone, RecvFailed, RecvFinal, ExecIsReady, Unpair
  <2>5. m.type = "TaskDone" /\ m.arg = 0 => inTheMaking' = inTheMaking \cup {pairedId[e]}
    <3>1. m.type = "TaskDone" => RecvDone(e)
        BY <1>7 DEF RecvOutput, RecvFailed, RecvFinal, Receive
    <3> QED
        BY <2>2, <3>1 DEF RecvDone
  <2>6. pairedId'[e] = None \/ ~(m.type \in Final)
      BY <2>4, RemoteFacts DEF TypeOK, ServerTypeOK
  <2>7. CASE down' = down
      BY <2>7
  <2>8. CASE pairedId[e] # c
      BY <1>0, <2>2, <2>3, <2>8, RemoteFacts DEF SendToPaired
  <2>9. CASE down' # down /\ pairedId[e] = c
    <3>1. conn[c] # "done" /\ down' = [down EXCEPT ![c] = Append(@, m)]
        BY <2>3, <2>9 DEF SendToPaired, RxGone
    <3>2. Receive(e, m.type)
        BY <2>1, <2>2
    <3>3. Forwarded(c, e, m)
        BY <2>2, <2>5, <2>6, <2>9, <3>1, <3>2 DEF Forwarded
    <3> QED
        BY <2>2, <3>3
  <2> QED
      BY <2>7, <2>8, <2>9
<1>8. ASSUME NEW x \in Remotes, RecvDropped(x) PROVE Goal
  <2>1. CASE ~(Orphans(x) /\ ~RxGone(pairedId[x]))
      BY <1>8, <2>1 DEF RecvDropped
  <2>2. CASE Orphans(x) /\ ~RxGone(pairedId[x])
    <3>1. x \in Execs /\ connType[x] = "Exec" /\ pairedId[x] \in Clients
        BY <2>2, RemoteFacts DEF Orphans, TypeOK, ServerTypeOK
    <3>2. /\ down' = [down EXCEPT ![pairedId[x]] = Append(@, TaskFailed(pairedId[x]))]
          /\ Receive(x, "Dropped") /\ conn[pairedId[x]] # "done"
        BY <1>8, <2>2 DEF RecvDropped, RxGone
    <3>3. CASE pairedId[x] # c
        BY <1>0, <3>1, <3>2, <3>3, RemoteFacts
    <3>4. CASE pairedId[x] = c
      <4>1. /\ TaskFailed(c) \in Messages /\ TaskFailed(c).type = "TaskFailed" /\ TaskFailed(c).task = c
          BY MessageTypes DEF TaskFailed, Message
      <4>2. Forwarded(c, x, TaskFailed(c))
          BY <3>1, <3>2, <3>4, <4>1 DEF Forwarded, Results, Final
      <4> QED
          BY <3>1, <4>1, <4>2
    <3> QED
        BY <3>3, <3>4
  <2> QED
      BY <2>1, <2>2
<1> QED
    BY <1>1, <1>2, <1>3, <1>4, <1>5, <1>6, <1>7, <1>8 DEF ServerNext, HandleMsg, CheckQueues

(* check_queues pairs, once per client; execs are unpaired, clients never. *)
LEMMA PairingChanges ==
    ASSUME TypeOK, Turns, ServerNext, NEW c \in Clients
    PROVE  /\ pairedId[c] # None => pairedId'[c] = pairedId[c]
           /\ \A e \in Execs : pairedId'[e] = c => pairedId[e] = c \/ (Assign(c) /\ e = Head(execQueue))
<1>0. /\ pairedId \in [Remotes -> Remotes \cup {None}] /\ c \in Remotes /\ c \notin Execs /\ c # None
      /\ \A e \in Execs : e \in Remotes
    BY RemoteFacts DEF TypeOK, ServerTypeOK
<1> DEFINE Goal == /\ pairedId[c] # None => pairedId'[c] = pairedId[c]
                   /\ \A e \in Execs : pairedId'[e] = c =>
                         pairedId[e] = c \/ (Assign(c) /\ e = Head(execQueue))
<1>1. ASSUME NEW x \in Remotes, Accept(x) PROVE Goal
  <2>1. pairedId' = [pairedId EXCEPT ![x] = None] /\ conn[x] = "backlog"
      BY <1>1 DEF Accept
  <2>2. x = c => pairedId[c] = None
      BY <2>1 DEF Turns, ClientTurn
  <2> QED
      BY <1>0, <2>1, <2>2
<1>2. ASSUME UNCHANGED pairedId PROVE Goal
    BY <1>2
<1>3. ASSUME NEW d \in Clients, Assign(d) PROVE Goal
  <2>1. /\ Head(execQueue) \in Execs /\ pairedId[d] = None /\ d \in Remotes
        /\ pairedId' = [pairedId EXCEPT ![d] = Head(execQueue), ![Head(execQueue)] = d]
      BY <1>3, AssignFacts, RemoteFacts DEF Assign
  <2> QED
      BY <1>0, <1>3, <2>1, RemoteFacts
<1>4. ASSUME NEW e \in Execs, pairedId' = [pairedId EXCEPT ![e] = None] PROVE Goal
    BY <1>0, <1>4
<1>5. ASSUME NEW e \in Execs, RecvDone(e) \/ RecvFailed(e) \/ RecvServant(e) PROVE Goal
  <2>1. UNCHANGED pairedId \/ pairedId' = [pairedId EXCEPT ![e] = None]
      BY <1>5 DEF RecvDone, RecvFailed, RecvFinal, RecvServant, ExecIsReady, Unpair
  <2> QED
      BY <1>2, <1>4, <2>1
<1>6. ASSUME \/ Watchdog \/ CheckDone \/ ReleaseDone \/ ReleaseDelayExpires \/ IdleDelayExpires \/ Release
             \/ (\E x \in Remotes : RecvDropped(x) \/ RecvTask(x) \/ RecvOutput(x))
      PROVE  UNCHANGED pairedId
    BY <1>6 DEF Watchdog, CheckDone, ReleaseDone, ReleaseDelayExpires, IdleDelayExpires, Release,
                RecvDropped, RecvTask, RecvOutput
<1> QED
    BY <1>1, <1>2, <1>3, <1>5, <1>6, RemoteFacts DEF ServerNext, HandleMsg, CheckQueues


(* What a client does: it reads, or it leaves without an answer; when it   *)
(* is gone, the relay throws away what is on its way to it.                *)
Unanswered == {"refused", "aborted", "killed"}

LEMMA ClientTakes ==
    ASSUME TypeOK, Ends, Elsewhere, NEW c \in Clients
    PROVE  \/ down'[c] = down[c] /\ status'[c] = status[c] /\ got'[c] = got[c]
           \/ proc[c] = "gone" /\ down'[c] = <<>> /\ status'[c] = status[c] /\ got'[c] = got[c]
           \/ /\ down'[c] = down[c] /\ got'[c] = got[c] /\ status'[c] \in Unanswered
              /\ proc'[c] = "gone" /\ proc[c] # "gone"
           \/ (ClientOutput(c) \/ ClientFailed(c) \/ ClientDone(c)) /\ UNCHANGED execVars
<1>0. /\ down \in [Remotes -> Seq(Messages)] /\ c \in Remotes /\ c \notin Execs
      /\ status \in [Clients -> Statuses] /\ got \in [Clients -> Seq(Int)]
      /\ proc \in [Remotes -> {"none", "waiting", "idle", "running", "gone"}]
    BY RemoteFacts DEF TypeOK, FabricTypeOK, ClientTypeOK
<1>1. CASE UNCHANGED vars
    BY <1>1 DEF vars, clientVars
<1>2. ASSUME NEW x \in Remotes, ConnEof(x), UNCHANGED clientVars PROVE UNCHANGED <<down, status, got>>
    BY <1>2 DEF ConnEof, clientVars
<1>3. ASSUME NEW x \in Remotes, ConnReturn(x) \/ ConnWriteError(x), UNCHANGED clientVars
      PROVE  down' = [down EXCEPT ![x] = <<>>] /\ proc[x] = "gone" /\ UNCHANGED <<status, got>>
    BY <1>3 DEF ConnReturn, ConnWriteError, clientVars, Ends, HungUp
<1>4. ASSUME NEW q \in Queues, LoseJob(q), UNCHANGED clientVars PROVE UNCHANGED <<down, status, got>>
    BY <1>4 DEF LoseJob, clientVars
<1>5. ASSUME NEW e \in Execs, ExecNext(e), UNCHANGED clientVars
      PROVE  down'[c] = down[c] /\ UNCHANGED <<status, got>>
    BY <1>0, <1>5 DEF ExecNext, ExecConnect, ExecStep, StartTask, StartFails, ExecRead, SendOutput,
                  SendDone, ExecPissOff, ExecEof, KillExec, clientVars
<1>6. ASSUME NEW d \in Clients, ClientConnect(d) PROVE UNCHANGED <<down, status, got>>
    BY <1>6 DEF ClientConnect, clientVars
<1>7. ASSUME NEW d \in Clients, ClientRefused(d) \/ ClientEof(d) \/ KillClient(d)
      PROVE  /\ UNCHANGED <<down, got>> /\ proc[d] # "gone" /\ proc' = [proc EXCEPT ![d] = "gone"]
             /\ \E s \in Unanswered : status' = [status EXCEPT ![d] = s]
    BY <1>7 DEF ClientRefused, ClientEof, KillClient, Exit, Unanswered
<1>8. ASSUME NEW d \in Clients, ClientOutput(d) \/ ClientFailed(d) \/ ClientDone(d), d # c
      PROVE  down'[c] = down[c] /\ status'[c] = status[c] /\ got'[c] = got[c]
    BY <1>0, <1>8 DEF ClientOutput, ClientFailed, ClientDone, ClientRead, Exit
<1>9. ASSUME NEW d \in Clients, ClientNext(d), UNCHANGED execVars
      PROVE  \/ down'[c] = down[c] /\ status'[c] = status[c] /\ got'[c] = got[c]
             \/ /\ down'[c] = down[c] /\ got'[c] = got[c] /\ status'[c] \in Unanswered
                /\ proc'[c] = "gone" /\ proc[c] # "gone"
             \/ (ClientOutput(c) \/ ClientFailed(c) \/ ClientDone(c)) /\ UNCHANGED execVars
  <2>1. CASE ClientConnect(d)
      BY <1>6, <2>1
  <2>2. CASE ClientRefused(d) \/ ClientEof(d) \/ KillClient(d)
      BY <1>0, <1>7, <2>2, RemoteFacts
  <2>3. CASE ClientOutput(d) \/ ClientFailed(d) \/ ClientDone(d)
      BY <1>8, <1>9, <2>3
  <2> QED
      BY <1>9, <2>1, <2>2, <2>3 DEF ClientNext, ClientStep
<1>10. ASSUME NEW x \in Remotes, ConnReturn(x) \/ ConnWriteError(x), UNCHANGED clientVars
       PROVE  \/ down'[c] = down[c] /\ status'[c] = status[c] /\ got'[c] = got[c]
              \/ proc[c] = "gone" /\ down'[c] = <<>> /\ status'[c] = status[c] /\ got'[c] = got[c]
    BY <1>0, <1>3, <1>10
<1> QED
    BY <1>1, <1>2, <1>4, <1>5, <1>9, <1>10 DEF Elsewhere

(* The server loop's ways of changing a buffer from a remote.              *)
LEMMA ServerReads ==
    ASSUME TypeOK, ServerNext, NEW x \in Remotes
    PROVE  up'[x] = up[x] \/ \E type : Receive(x, type)
<1>1. ASSUME NEW y \in Remotes, NEW type, Receive(y, type) PROVE x = y \/ up'[x] = up[x]
    BY <1>1, Received
<1>2. ASSUME NEW y \in Remotes, HandleMsg(y) PROVE \E type : Receive(y, type)
    BY <1>2 DEF HandleMsg, RecvTask, RecvServant, RecvOutput, RecvDone, RecvFailed, RecvFinal, RecvDropped
<1>3. ASSUME \/ Watchdog \/ CheckQueues \/ ReleaseDelayExpires \/ IdleDelayExpires
             \/ \E y \in Remotes : Accept(y)
      PROVE  UNCHANGED up
    BY <1>3 DEF Watchdog, CheckQueues, ReleaseDelayExpires, IdleDelayExpires, Accept, Assign, CheckDone,
                Release, ReleaseDone
<1> QED
    BY <1>1, <1>2, <1>3 DEF ServerNext

(* From an exec that is gone, and whose Dropped has been read, nothing     *)
(* more comes.                                                             *)
Silent(e) == up[e] = <<>> /\ conn[e] \in HungUp

LEMMA SilentStays ==
    ASSUME TypeOK, Ends, [Next]_vars, NEW e \in Execs, Silent(e)
    PROVE  Silent(e)'
<1>0. /\ e \in Remotes /\ e \notin Clients /\ proc[e] = "gone" /\ up[e] = <<>>
      /\ conn[e] \in HungUp /\ conn'[e] \in HungUp /\ up \in [Remotes -> Seq(Messages)]
    BY RemoteFacts, GoneStays DEF Ends, Silent, TypeOK, FabricTypeOK
<1>1. CASE ServerNext
    BY <1>0, <1>1, ServerReads DEF Silent, Receive
<1>2. CASE Elsewhere
  <2>1. ASSUME NEW x \in Remotes, ConnEof(x) \/ ConnReturn(x) \/ ConnWriteError(x) PROVE up'[e] = up[e]
      BY <1>0, <2>1 DEF ConnEof, ConnReturn, ConnWriteError, LoseTail, HungUp
  <2>2. ASSUME NEW q \in Queues, LoseJob(q) PROVE up'[e] = up[e]
      BY <2>2 DEF LoseJob
  <2>3. ASSUME NEW c \in Clients, ClientNext(c) PROVE up'[e] = up[e]
      BY <1>0, <2>3 DEF ClientNext, ClientConnect, Connect, ClientStep, ClientRefused, ClientOutput,
              ClientFailed, ClientDone, ClientEof, ClientRead, KillClient, LoseTail
  <2>4. ASSUME NEW f \in Execs, ExecNext(f) PROVE up'[e] = up[e]
      BY <1>0, <2>4 DEF ExecNext, ExecConnect, Connect, ExecStep, StartTask, StartFails, ExecRead,
              SendOutput, SendDone, ExecPissOff, ExecEof, KillExec, LoseTail
  <2> QED
      BY <1>0, <1>2, <2>1, <2>2, <2>3, <2>4 DEF Elsewhere, Silent, vars
<1> QED
    BY <1>1, <1>2, TwoSides


-----------------------------------------------------------------------------
(* Why a final message is the last.  Both of them, the exec's own and      *)
(* handle_dropped's TaskFailed, are sent when a message of the paired exec *)
(* is read: after the first the exec is unpaired, and after the second its *)
(* buffer stays empty.                                                     *)

Verdicts == {"ok", "err", "failed", "signal"}

Answered(c) ==
    \/ status[c] \in Verdicts
    \/ \E i \in 1 .. Len(down[c]) : down[c][i].type \in Final

LastWord ==
    \A c \in Clients : Answered(c) =>
        /\ pairedId[c] # None
        /\ \A e \in Execs : pairedId[e] = c => Silent(e)

(* The buffers to a client, as sequences.                                  *)
LEMMA Heard ==
    ASSUME TypeOK, NEW c \in Clients
    PROVE  /\ down[c] \in Seq(Messages) /\ Len(down[c]) \in Nat /\ c \in Remotes
           /\ \A m \in Messages : down' = [down EXCEPT ![c] = Append(@, m)] =>
                 /\ Len(down'[c]) = Len(down[c]) + 1
                 /\ down'[c][Len(down[c]) + 1] = m
                 /\ \A i \in 1 .. Len(down[c]) : down'[c][i] = down[c][i]
                 /\ \A i \in 1 .. Len(down'[c]) : i \in 1 .. Len(down[c]) \/ i = Len(down[c]) + 1
           /\ \A type : ClientRead(c, type) =>
                 /\ Len(down'[c]) = Len(down[c]) - 1 /\ 1 \in 1 .. Len(down[c])
                 /\ down[c][1] = Head(down[c]) /\ down[c][1].type = type /\ Head(down[c]) \in Messages
                 /\ \A i \in 1 .. Len(down'[c]) : i + 1 \in 1 .. Len(down[c]) /\ down'[c][i] = down[c][i + 1]
                 /\ Len(down[c]) = 1 => down'[c] = <<>>
<1>0. down \in [Remotes -> Seq(Messages)] /\ c \in Remotes /\ down[c] \in Seq(Messages) /\ Len(down[c]) \in Nat
    BY RemoteFacts DEF TypeOK, FabricTypeOK
<1>1. ASSUME NEW m \in Messages, down' = [down EXCEPT ![c] = Append(@, m)]
      PROVE  /\ Len(down'[c]) = Len(down[c]) + 1
             /\ down'[c][Len(down[c]) + 1] = m
             /\ \A i \in 1 .. Len(down[c]) : down'[c][i] = down[c][i]
             /\ \A i \in 1 .. Len(down'[c]) : i \in 1 .. Len(down[c]) \/ i = Len(down[c]) + 1
    BY <1>0, <1>1, Appended
<1>2. ASSUME NEW type, ClientRead(c, type)
      PROVE  /\ Len(down'[c]) = Len(down[c]) - 1 /\ 1 \in 1 .. Len(down[c])
             /\ down[c][1] = Head(down[c]) /\ down[c][1].type = type /\ Head(down[c]) \in Messages
             /\ \A i \in 1 .. Len(down'[c]) : i + 1 \in 1 .. Len(down[c]) /\ down'[c][i] = down[c][i + 1]
             /\ Len(down[c]) = 1 => down'[c] = <<>>
  <2>1. down[c] # <<>> /\ down'[c] = Tail(down[c]) /\ Head(down[c]).type = type
      BY <1>0, <1>2 DEF ClientRead
  <2>2. /\ Len(down[c]) > 0 /\ Head(down[c]) \in Messages /\ Head(down[c]) = down[c][1]
        /\ Tail(down[c]) \in Seq(Messages) /\ Len(Tail(down[c])) = Len(down[c]) - 1
        /\ \A i \in 1 .. Len(down[c]) - 1 : Tail(down[c])[i] = down[c][i + 1]
      BY <1>0, <2>1, TailFacts
  <2>3. ASSUME Len(down[c]) = 1 PROVE Tail(down[c]) = <<>>
    <3>1. Len(Tail(down[c])) = 0
        BY <2>2, <2>3
    <3> QED
        BY <2>2, <3>1, LenZero
  <2> QED
      BY <1>0, <2>1, <2>2, <2>3
<1> QED
    BY <1>0, <1>1, <1>2

(* Who answers.                                                            *)
LEMMA AnsweredWhen ==
    ASSUME TypeOK, Turns, Ends, [Next]_vars, NEW c \in Clients, Answered(c)', ~Answered(c)
    PROVE  ServerNext /\ \E e \in Execs, m \in Messages : Forwarded(c, e, m) /\ m.type \in Final
<1>1. CASE ServerNext /\ UNCHANGED clientVars
  <2>1. status'[c] = status[c] /\ status[c] \notin Verdicts
      BY <1>1 DEF clientVars, Answered
  <2>2. PICK i \in 1 .. Len(down'[c]) : down'[c][i].type \in Final
      BY <2>1 DEF Answered
  <2>3. down'[c] # down[c]
      BY <2>2 DEF Answered
  <2>4. PICK e \in Execs, m \in Messages : Forwarded(c, e, m)
      BY <1>1, <2>3, ClientHears
  <2>5. i = Len(down[c]) + 1 => down'[c][i] = m
      BY <2>4, Heard DEF Forwarded
  <2>6. i \in 1 .. Len(down[c]) => down'[c][i] = down[c][i]
      BY <2>4, Heard DEF Forwarded
  <2>7. i \notin 1 .. Len(down[c])
      BY <2>2, <2>6 DEF Answered
  <2>8. i = Len(down[c]) + 1
      BY <2>2, <2>4, <2>7, Heard DEF Forwarded
  <2> QED
      BY <1>1, <2>2, <2>4, <2>5, <2>8
<1>2. CASE Elsewhere
  <2>3. CASE ClientOutput(c)
    <3>1. ClientRead(c, "TaskOutput") /\ UNCHANGED status
        BY <2>3 DEF ClientOutput
    <3>2. PICK i \in 1 .. Len(down'[c]) : down'[c][i].type \in Final
        BY <3>1 DEF Answered
    <3>3. i + 1 \in 1 .. Len(down[c]) /\ down'[c][i] = down[c][i + 1]
        BY <3>1, <3>2, Heard
    <3> QED
        BY <3>2, <3>3 DEF Answered
  <2>4. CASE ClientFailed(c) \/ ClientDone(c)
    <3>1. PICK type \in Final : ClientRead(c, type)
        BY <2>4 DEF ClientFailed, ClientDone, Final
    <3>2. 1 \in 1 .. Len(down[c]) /\ down[c][1].type = type
        BY <3>1, Heard
    <3> QED
        BY <3>1, <3>2 DEF Answered
  <2>5. CASE proc[c] = "gone" /\ down'[c] = <<>> /\ status'[c] = status[c]
      BY <2>5 DEF Answered
  <2>6. CASE down'[c] = down[c] /\ status'[c] = status[c]
      BY <2>6 DEF Answered
  <2>7. CASE down'[c] = down[c] /\ status'[c] \in Unanswered
      BY <2>7 DEF Answered, Unanswered, Verdicts
  <2> QED
      BY <1>2, <2>3, <2>4, <2>5, <2>6, <2>7, ClientTakes
<1> QED
    BY <1>1, <1>2, TwoSides

(* The exec whose message is read is the one paired with the client.       *)
LEMMA ForwardedBy ==
    ASSUME TypeOK, Turns, Ends, NEW c \in Clients, NEW e \in Execs, NEW m, Forwarded(c, e, m)
    PROVE  /\ pairedId[c] = e /\ up[e] # <<>>
           /\ m.type \in Final => pairedId'[e] = None \/ Silent(e)'
<1>1. pairedId[c] = e
    BY RemoteFacts DEF Turns, ExecPaired, Forwarded
<1>2. up[e] # <<>>
    BY DEF Forwarded, Receive
<1>3. ASSUME Receive(e, "Dropped"), connType[e] = "Exec" PROVE Silent(e)'
    BY <1>3, KnownDropped, Received, RemoteFacts DEF Known, Silent
<1> QED
    BY <1>1, <1>2, <1>3 DEF Forwarded

LEMMA LastWordStep == TypeOK /\ Turns /\ Ends /\ LastWord /\ [Next]_vars => LastWord'
<1> SUFFICES ASSUME TypeOK, Turns, Ends, LastWord, [Next]_vars, NEW c \in Clients, Answered(c)'
             PROVE  pairedId'[c] # None /\ \A e \in Execs : pairedId'[e] = c => Silent(e)'
    BY DEF LastWord
<1>1. pairedId[c] # None
  <2>1. CASE Answered(c)
      BY <2>1 DEF LastWord
  <2>2. CASE ~Answered(c)
      BY <2>2, AnsweredWhen, ForwardedBy, RemoteFacts
  <2> QED
      BY <2>1, <2>2
<1>2. pairedId'[c] = pairedId[c] /\ \A e \in Execs : pairedId'[e] = c => pairedId[e] = c
  <2>1. CASE UNCHANGED serverVars
      BY <2>1 DEF serverVars
  <2>2. CASE ServerNext
      BY <1>1, <2>2, PairingChanges, AssignFacts
  <2> QED
      BY <2>1, <2>2, ServerOwns
<1>3. ASSUME NEW e \in Execs, pairedId'[e] = c PROVE Silent(e)'
  <2>1. CASE Answered(c)
      BY <1>2, <1>3, <2>1, SilentStays DEF LastWord
  <2>2. CASE ~Answered(c)
    <3>1. PICK f \in Execs, m \in Messages : Forwarded(c, f, m) /\ m.type \in Final
        BY <2>2, AnsweredWhen
    <3>2. pairedId[c] = f /\ (pairedId'[f] = None \/ Silent(f)')
        BY <3>1, ForwardedBy
    <3>3. pairedId[c] = e
        BY <1>2, <1>3, RemoteFacts DEF Turns, ExecPaired
    <3> QED
        BY <1>3, <3>2, <3>3, RemoteFacts
  <2> QED
      BY <2>1, <2>2
<1> QED
    BY <1>1, <1>2, <1>3

LEMMA FinalIsLastStep == TypeOK /\ Turns /\ Ends /\ LastWord /\ FinalIsLast /\ [Next]_vars => FinalIsLast'
<1> SUFFICES ASSUME TypeOK, Turns, Ends, LastWord, FinalIsLast, [Next]_vars, NEW c \in Clients
             PROVE  /\ \A i \in 1 .. Len(down'[c]) : down'[c][i].type \in Final => i = Len(down'[c])
                    /\ status'[c] \in Verdicts => down'[c] = <<>>
    BY DEF FinalIsLast, Verdicts
<1>0. /\ \A i \in 1 .. Len(down[c]) : down[c][i].type \in Final => i = Len(down[c])
      /\ status[c] \in Verdicts => down[c] = <<>>
    BY DEF FinalIsLast, Verdicts
<1>1. CASE ServerNext /\ UNCHANGED clientVars
  <2>1. status'[c] = status[c]
      BY <1>1 DEF clientVars
  <2>2. CASE down'[c] = down[c]
      BY <1>0, <2>1, <2>2
  <2>3. ASSUME NEW e \in Execs, NEW m \in Messages, Forwarded(c, e, m)
        PROVE  /\ \A i \in 1 .. Len(down'[c]) : down'[c][i].type \in Final => i = Len(down'[c])
               /\ status'[c] \in Verdicts => down'[c] = <<>>
    <3>1. ~Answered(c)
      <4>1. up[e] # <<>>
          BY <2>3, ForwardedBy
      <4>2. pairedId[e] = c
          BY <2>3 DEF Forwarded
      <4> QED
          BY <4>1, <4>2 DEF LastWord, Silent
    <3>2. \A i \in 1 .. Len(down'[c]) : (i \in 1 .. Len(down[c]) /\ down'[c][i] = down[c][i]) \/ i = Len(down'[c])
        BY <2>3, Heard DEF Forwarded
    <3> QED
        BY <2>1, <3>1, <3>2 DEF Answered
  <2> QED
      BY <1>1, <2>2, <2>3, ClientHears
<1>2. CASE Elsewhere
  <2>1. CASE ClientOutput(c)
    <3>1. ClientRead(c, "TaskOutput") /\ UNCHANGED status
        BY <2>1 DEF ClientOutput
    <3>2. status[c] \notin Verdicts
        BY <1>0, <3>1 DEF ClientRead
    <3>3. ASSUME NEW i \in 1 .. Len(down'[c]), down'[c][i].type \in Final PROVE i = Len(down'[c])
      <4>1. i + 1 \in 1 .. Len(down[c]) /\ down'[c][i] = down[c][i + 1] /\ Len(down'[c]) = Len(down[c]) - 1
          BY <3>1, Heard
      <4>2. i + 1 = Len(down[c])
          BY <1>0, <3>3, <4>1
      <4> QED
          BY <4>1, <4>2
    <3> QED
        BY <3>1, <3>2, <3>3
  <2>2. CASE ClientFailed(c) \/ ClientDone(c)
    <3>1. PICK type \in Final : ClientRead(c, type)
        BY <2>2 DEF ClientFailed, ClientDone, Final
    <3>2. down'[c] = <<>>
        BY <1>0, <3>1, Heard
    <3> QED
        BY <3>2
  <2>3. CASE down'[c] = down[c] /\ status'[c] = status[c]
      BY <1>0, <2>3
  <2>4. CASE down'[c] = <<>>
      BY <2>4
  <2>5. CASE down'[c] = down[c] /\ status'[c] \in Unanswered
      BY <1>0, <2>5 DEF Unanswered, Verdicts
  <2> QED
      BY <1>2, <2>1, <2>2, <2>3, <2>4, <2>5, ClientTakes
<1> QED
    BY <1>1, <1>2, TwoSides

LEMMA LastWordInit == Init => LastWord /\ FinalIsLast
<1> SUFFICES ASSUME Init PROVE LastWord /\ FinalIsLast
    OBVIOUS
<1>0. \A i \in 1 .. Len(<<>>) : FALSE
    OBVIOUS
<1>1. \A c \in Clients : down[c] = <<>> /\ status[c] = "none"
    BY RemoteFacts DEF Init, FabricInit, ClientInit
<1>2. \A c \in Clients : ~Answered(c)
    BY <1>0, <1>1 DEF Answered, Verdicts
<1>3. FinalIsLast
    BY <1>0, <1>1 DEF FinalIsLast
<1> QED
    BY <1>2, <1>3 DEF LastWord

(* An exec that answers is unpaired, one that is found dead is silent:     *)
(* whoever is still paired with an answered client has nothing to say.     *)
LEMMA LastWordCorrect == Spec => []LastWord
<1>1. TypeOK /\ Turns /\ Ends /\ LastWord /\ [Next]_vars => LastWord'
    BY LastWordStep
<1>2. Init => LastWord
    BY LastWordInit
<1> QED
    BY <1>1, <1>2, TypeCorrect, TurnsCorrect, EndsCorrect, PTL DEF Spec

(* One final message and nothing after it, for any number of clients and   *)
(* execs and under every fault: the exec's answer and handle_dropped's     *)
(* TaskFailed exclude each other.                                          *)
THEOREM OneAnswer == Spec => []FinalIsLast
<1>1. TypeOK /\ Turns /\ Ends /\ LastWord /\ FinalIsLast /\ [Next]_vars => FinalIsLast'
    BY FinalIsLastStep
<1>2. Init => FinalIsLast
    BY LastWordInit
<1> QED
    BY <1>1, <1>2, TypeCorrect, TurnsCorrect, EndsCorrect, LastWordCorrect, PTL DEF Spec


-----------------------------------------------------------------------------
(* A success is recorded before it is sent, and shutdown() writes what is  *)
(* recorded.                                                               *)

Record == IF pc = "shutdown" THEN historyFile ELSE inTheMaking

Success(c) ==
    \/ status[c] = "ok"
    \/ \E i \in 1 .. Len(down[c]) : down[c][i].type = "TaskDone" /\ down[c][i].arg = 0

Recorded == \A c \in Clients : Success(c) => c \in Record

LEMMA RecordKept ==
    ASSUME TypeOK, ServerNext
    PROVE  /\ pc # "shutdown"
           /\ pc' = "shutdown" => down' = down /\ inTheMaking \subseteq historyFile'
           /\ pc' # "shutdown" => inTheMaking \subseteq inTheMaking'
<1> DEFINE Goal == /\ pc # "shutdown"
                   /\ pc' = "shutdown" => down' = down /\ inTheMaking \subseteq historyFile'
                   /\ pc' # "shutdown" => inTheMaking \subseteq inTheMaking'
<1>1. ASSUME EndArm
      PROVE  /\ pc' = "shutdown" => inTheMaking \subseteq historyFile'
             /\ pc' # "shutdown" => inTheMaking \subseteq inTheMaking'
    BY <1>1 DEF EndArm, Shutdown
<1>2. ASSUME (\E x \in Remotes : Accept(x)) \/ CheckDone \/ ReleaseDone PROVE Goal
    BY <1>1, <1>2 DEF Accept, CheckDone, ReleaseDone
<1>3. ASSUME Watchdog \/ ReleaseDelayExpires \/ IdleDelayExpires PROVE Goal
    BY <1>3 DEF Watchdog, Update, ReleaseDelayExpires, IdleDelayExpires
<1>6. ASSUME Release PROVE Goal
    BY <1>6 DEF Release, DecrementRunning
<1>5. ASSUME NEW c \in Clients, Assign(c) PROVE Goal
    BY <1>5 DEF Assign
<1>4. ASSUME NEW x \in Remotes, HandleMsg(x) PROVE Goal
  <2>1. \E type : Receive(x, type)
      BY <1>4, Zenon DEF HandleMsg, RecvTask, RecvServant, RecvOutput, RecvDone, RecvFailed, RecvFinal, RecvDropped
  <2>2. pc # "shutdown"
      BY <2>1 DEF Receive
  <2>3. pc' # "shutdown"
      BY <1>4, <2>2 DEF HandleMsg, RecvTask, RecvServant, RecvOutput, RecvDone, RecvFailed, RecvFinal,
                        RecvDropped, Receive, ExecIsReady, Update
  <2>4. inTheMaking \subseteq inTheMaking'
      BY <1>4 DEF HandleMsg, RecvTask, RecvServant, RecvOutput, RecvDone, RecvFailed, RecvDropped
  <2> QED
      BY <2>2, <2>3, <2>4
<1> QED
    BY <1>2, <1>3, <1>4, <1>5, <1>6 DEF ServerNext, CheckQueues

LEMMA RecordedStep == TypeOK /\ Turns /\ Ends /\ Recorded /\ [Next]_vars => Recorded'
<1> SUFFICES ASSUME TypeOK, Turns, Ends, Recorded, [Next]_vars, NEW c \in Clients, Success(c)'
             PROVE  c \in Record'
    BY DEF Recorded
<1>1. CASE ServerNext /\ UNCHANGED clientVars
  <2>1. Record \subseteq Record'
      BY <1>1, RecordKept DEF Record
  <2>2. CASE Success(c)
      BY <2>1, <2>2 DEF Recorded
  <2>3. CASE ~Success(c)
    <3>1. status'[c] = status[c] /\ status[c] # "ok"
        BY <1>1, <2>3 DEF clientVars, Success
    <3>2. PICK i \in 1 .. Len(down'[c]) : down'[c][i].type = "TaskDone" /\ down'[c][i].arg = 0
        BY <3>1 DEF Success
    <3>3. PICK e \in Execs, m \in Messages : Forwarded(c, e, m)
        BY <1>1, <2>3, <3>2, ClientHears DEF Success
    <3>4. (i \in 1 .. Len(down[c]) /\ down'[c][i] = down[c][i]) \/ down'[c][i] = m
        BY <3>3, Heard DEF Forwarded
    <3>5. m.type = "TaskDone" /\ m.arg = 0
        BY <2>3, <3>2, <3>4 DEF Success
    <3>6. TaskFailed(c).type # "TaskDone"
        BY DEF TaskFailed, Message
    <3>7. c \in inTheMaking'
        BY <3>3, <3>5, <3>6 DEF Forwarded
    <3>8. down' # down
      <4>1. Len(down'[c]) = Len(down[c]) + 1 /\ Len(down[c]) \in Nat
          BY <3>3, Heard DEF Forwarded
      <4> QED
          BY <4>1
    <3> QED
        BY <1>1, <3>7, <3>8, RecordKept DEF Record
  <2> QED
      BY <2>2, <2>3
<1>2. CASE Elsewhere /\ UNCHANGED <<pc, serverVars>>
  <2>1. Record' = Record
      BY <1>2 DEF Record, serverVars
  <2> SUFFICES Success(c)
      BY <2>1 DEF Recorded
  <2>2. CASE ClientOutput(c) \/ ClientFailed(c) \/ ClientDone(c)
    <3>1. PICK type : ClientRead(c, type)
        BY <2>2 DEF ClientOutput, ClientFailed, ClientDone
    <3>2. 1 \in 1 .. Len(down[c]) /\ down[c][1] = Head(down[c]) /\ Head(down[c]).type = type
          /\ \A i \in 1 .. Len(down'[c]) : i + 1 \in 1 .. Len(down[c]) /\ down'[c][i] = down[c][i + 1]
        BY <3>1, Heard
    <3>3. ASSUME status'[c] = "ok", status[c] # "ok"
          PROVE  Head(down[c]).type = "TaskDone" /\ Head(down[c]).arg = 0
        BY <2>2, <3>3 DEF ClientOutput, ClientFailed, ClientDone, ClientRead, Exit, TypeOK, ClientTypeOK
    <3>4. CASE status'[c] = "ok"
        BY <3>2, <3>3, <3>4 DEF Success
    <3>5. ASSUME NEW i \in 1 .. Len(down'[c]), down'[c][i].type = "TaskDone" /\ down'[c][i].arg = 0
          PROVE  Success(c)
        BY <3>2, <3>5 DEF Success
    <3> QED
        BY <3>4, <3>5 DEF Success
  <2>3. CASE down'[c] = down[c] /\ status'[c] = status[c]
      BY <2>3 DEF Success
  <2>4. CASE down'[c] = <<>> /\ status'[c] = status[c]
      BY <2>4 DEF Success
  <2>5. CASE down'[c] = down[c] /\ status'[c] \in Unanswered
      BY <2>5 DEF Success, Unanswered
  <2> QED
      BY <1>2, <2>2, <2>3, <2>4, <2>5, ClientTakes
<1> QED
    BY <1>1, <1>2, TwoSides

(* A client that has seen exit code 0 finds its target's time recorded,    *)
(* and in the history file once the server has shut down.                  *)
THEOREM SuccessKept == Spec => []SuccessRecorded
<1>1. Init => Recorded
  <2>1. \A i \in 1 .. Len(<<>>) : FALSE
      OBVIOUS
  <2>2. ASSUME Init PROVE \A c \in Clients : down[c] = <<>> /\ status[c] = "none"
      BY <2>2, RemoteFacts DEF Init, FabricInit, ClientInit
  <2> QED
      BY <2>1, <2>2 DEF Recorded, Success
<1>2. TypeOK /\ Turns /\ Ends /\ Recorded /\ [Next]_vars => Recorded'
    BY RecordedStep
<1>3. Recorded => SuccessRecorded
    BY DEF Recorded, Success, Record, SuccessRecorded
<1> QED
    BY <1>1, <1>2, <1>3, TypeCorrect, TurnsCorrect, EndsCorrect, PTL DEF Spec


-----------------------------------------------------------------------------
(* The output of a task as a stream: the exec numbers the chunks, and the  *)
(* number of a chunk is its place behind the ones the client has written   *)
(* and the ones on their way.  Only a client that is still there counts:   *)
(* for one that is gone the server and the relay throw messages away.      *)

Sofar(c) == Len(got[c]) + Len(down[c])

DownInOrder(c) ==
    \A i \in 1 .. Len(down[c]) :
        /\ down[c][i].type = "TaskOutput" => down[c][i].arg = Len(got[c]) + i
        /\ down[c][i].type = "TaskDone" => sent[c] = Len(got[c]) + i - 1

UpInOrder(c, e) ==
    /\ \A i \in 1 .. Len(up[e]) :
          /\ up[e][i].type = "TaskOutput" => up[e][i].arg = Sofar(c) + i
          /\ up[e][i].type = "TaskDone" => sent[c] = Sofar(c) + i - 1
    /\ proc[e] = "running" => sent[c] = Sofar(c) + Len(up[e])
    /\ proc[e] = "idle" /\ down[e] # <<>> => sent[c] = 0 /\ Sofar(c) = 0

InOrder(c) == \A i \in 1 .. Len(got[c]) : got[c][i] = i
Complete(c) == status[c] \in {"ok", "err", "signal"} => Len(got[c]) = sent[c]
Fresh(c) == pairedId[c] = None => sent[c] = 0 /\ got[c] = <<>>

Streams ==
    \A c \in Clients :
        /\ InOrder(c) /\ Complete(c) /\ Fresh(c)
        /\ proc[c] = "waiting" =>
              DownInOrder(c) /\ \A e \in Execs : pairedId[e] = c => UpInOrder(c, e)

(* Reading a message is the work of the handler for its sender.            *)
LEMMA WhoReads ==
    ASSUME TypeOK, ServerNext, NEW x \in Remotes, NEW type, Receive(x, type)
    PROVE  HandleMsg(x)
<1>1. up'[x] # up[x]
  <2>1. up[x] \in Seq(Messages) /\ up[x] # <<>> /\ up'[x] = Tail(up[x])
      BY DEF Receive, TypeOK, FabricTypeOK
  <2>2. Len(up'[x]) = Len(up[x]) - 1 /\ Len(up[x]) \in Nat
      BY <2>1, TailFacts
  <2> QED
      BY <2>2
<1>2. ASSUME NEW y \in Remotes, HandleMsg(y) PROVE x = y
  <2>1. \E t : Receive(y, t)
      BY <1>2 DEF HandleMsg, RecvTask, RecvServant, RecvOutput, RecvDone, RecvFailed, RecvFinal, RecvDropped
  <2> QED
      BY <1>1, <2>1, Received
<1>3. ASSUME \/ Watchdog \/ CheckQueues \/ ReleaseDelayExpires \/ IdleDelayExpires
             \/ \E y \in Remotes : Accept(y)
      PROVE  UNCHANGED up
    BY <1>3 DEF Watchdog, CheckQueues, ReleaseDelayExpires, IdleDelayExpires, Accept, Assign, CheckDone,
                Release, ReleaseDone
<1> QED
    BY <1>1, <1>2, <1>3 DEF ServerNext

(* No result for a client that is there is thrown away.                    *)
LEMMA ResultForwarded ==
    ASSUME TypeOK, Turns, Ends, ServerNext, NEW e \in Execs, NEW type \in Results, Receive(e, type),
           proc[pairedId[e]] # "gone"
    PROVE  down' = [down EXCEPT ![pairedId[e]] = Append(@, Head(up[e]))]
<1>1. HandleMsg(e) /\ e \in Remotes /\ e \notin Clients
    BY WhoReads, RemoteFacts
<1>2. Head(up[e]).type = type /\ type \in {"TaskDone", "TaskFailed", "TaskOutput"}
    BY DEF Receive, Results, Final
<1>3. RecvOutput(e) \/ RecvDone(e) \/ RecvFailed(e)
    BY <1>1, <1>2 DEF HandleMsg, RecvServant, RecvDropped, Receive
<1>4. pairedId[e] \in Clients /\ pairedId[e] # None
    BY ResultFacts
<1>5. SendToPaired(e, Head(up[e]))
    BY <1>3, <1>4 DEF RecvOutput, RecvDone, RecvFailed, RecvFinal
<1>6. pairedId[pairedId[e]] # None
    BY <1>4, RemoteFacts DEF Turns, ExecPaired
<1>7. connType[pairedId[e]] = "Client" /\ conn[pairedId[e]] # "done"
    BY <1>4, <1>6, RemoteFacts DEF Ends, ClientKept, HungUp
<1> QED
    BY <1>5, <1>7 DEF SendToPaired, RxGone

(* The server writes only to execs that wait.                              *)
LEMMA ExecHears ==
    ASSUME TypeOK, Turns, ServerNext, NEW e \in Execs
    PROVE  down'[e] = down[e] \/ InQueue(e)
<1>0. down \in [Remotes -> Seq(Messages)] /\ e \in Remotes /\ e \notin Clients
    BY RemoteFacts DEF TypeOK, FabricTypeOK
<1> DEFINE Goal == down'[e] = down[e] \/ InQueue(e)
<1>1. ASSUME UNCHANGED down PROVE Goal
    BY <1>1
<1>2. ASSUME \/ Watchdog \/ CheckDone \/ ReleaseDone \/ ReleaseDelayExpires \/ IdleDelayExpires
             \/ \E x \in Remotes : Accept(x) \/ RecvTask(x) \/ RecvServant(x)
      PROVE  UNCHANGED down
    BY <1>2 DEF Watchdog, CheckDone, ReleaseDone, ReleaseDelayExpires, IdleDelayExpires, Accept,
                RecvTask, RecvServant
<1>3. ASSUME NEW d \in Clients, Assign(d) PROVE Goal
  <2>1. InQueue(Head(execQueue))
      BY <1>3, AssignFacts
  <2>2. UNCHANGED down \/ down' = [down EXCEPT ![Head(execQueue)] = Append(@, TaskMsg(d))]
      BY <1>3 DEF Assign
  <2> QED
      BY <1>0, <2>1, <2>2
<1>4. ASSUME Release PROVE Goal
  <2>1. execQueue # <<>> /\ execQueue' = Tail(execQueue)
        /\ (UNCHANGED down \/ down' = [down EXCEPT ![Head(execQueue)] = Append(@, PissOff)])
      BY <1>4 DEF Release, PopExec
  <2>2. InQueue(Head(execQueue))
      BY <2>1, QueuePopped
  <2> QED
      BY <1>0, <2>1, <2>2
<1>5. ASSUME NEW f \in Execs, RecvOutput(f) \/ RecvDone(f) \/ RecvFailed(f) PROVE Goal
  <2>1. PICK type \in Results : Receive(f, type)
      BY <1>5 DEF RecvOutput, RecvDone, RecvFailed, RecvFinal, Results, Final
  <2>2. pairedId[f] \in Clients /\ pairedId[f] # None
      BY <2>1, ResultFacts
  <2>3. SendToPaired(f, Head(up[f]))
      BY <1>5, <2>2 DEF RecvOutput, RecvDone, RecvFailed, RecvFinal
  <2> QED
      BY <1>0, <2>2, <2>3 DEF SendToPaired
<1>6. ASSUME NEW x \in Remotes, RecvDropped(x) PROVE Goal
  <2>1. UNCHANGED down \/ (Orphans(x) /\ down' = [down EXCEPT ![pairedId[x]] = Append(@, TaskFailed(pairedId[x]))])
      BY <1>6 DEF RecvDropped
  <2>2. Orphans(x) => pairedId[x] \in Clients
      BY RemoteFacts DEF Orphans, TypeOK, ServerTypeOK
  <2> QED
      BY <1>0, <2>1, <2>2
<1> QED
    BY <1>1, <1>2, <1>3, <1>4, <1>5, <1>6, RemoteFacts DEF ServerNext, HandleMsg, CheckQueues

(* Only the exec that runs a task counts a chunk, and its client waits.    *)
LEMMA SentChanges ==
    ASSUME TypeOK, Turns, Ends, LastWord, [Next]_vars, NEW c \in Clients, sent'[c] # sent[c]
    PROVE  \E e \in Execs : /\ SendOutput(e) /\ running[e] = c /\ pairedId[e] = c /\ pairedId[c] = e
                            /\ ~Answered(c) /\ sent'[c] = sent[c] + 1 /\ UNCHANGED <<serverVars, clientVars>>
<1>1. PICK e \in Execs : SendOutput(e) /\ UNCHANGED <<serverVars, clientVars>>
  <2>1. CASE UNCHANGED sent
      BY <2>1
  <2>2. ASSUME NEW e \in Execs, ExecNext(e), ~SendOutput(e) PROVE UNCHANGED sent
      BY <2>2 DEF ExecNext, ExecConnect, ExecStep, StartTask, StartFails, SendDone, ExecPissOff, ExecEof,
                  ExecLeaves, KillExec, execVars
  <2> QED
      BY <2>1, <2>2 DEF Next, execVars, vars
<1>2. running[e] \in Clients /\ pairedId[e] = running[e]
    BY <1>1, UpRunning DEF SendOutput
<1>3. running[e] = c /\ sent'[c] = sent[c] + 1
    BY <1>1, <1>2 DEF SendOutput, TypeOK, ExecTypeOK
<1>4. pairedId[c] = e
    BY <1>2, <1>3, RemoteFacts DEF Turns, ExecPaired
<1>5. ~Answered(c)
    BY <1>1, <1>2, <1>3, RemoteFacts DEF LastWord, Silent, Ends, SendOutput
<1> QED
    BY <1>1, <1>2, <1>3, <1>4, <1>5


(* A client begins to wait when it connects, before the server knows it.   *)
LEMMA WaitsSince ==
    ASSUME TypeOK, Turns, [Next]_vars, NEW c \in Clients, proc'[c] = "waiting", proc[c] # "waiting"
    PROVE  /\ pairedId[c] = None /\ down[c] = <<>> /\ down'[c] = <<>>
           /\ \A e \in Execs : pairedId[e] # c
           /\ UNCHANGED <<serverVars, got, sent>>
<1>0. c \in Remotes /\ c \notin Execs /\ proc \in [Remotes -> {"none", "waiting", "idle", "running", "gone"}]
    BY RemoteFacts DEF TypeOK, FabricTypeOK
<1>1. ClientConnect(c) /\ UNCHANGED <<serverVars, execVars>>
  <2>1. CASE ServerNext
    <3>1. UNCHANGED proc
        BY <2>1 DEF ServerNext, HandleMsg, CheckQueues, RecvTask, RecvServant, RecvOutput, RecvDone,
           RecvFailed, RecvFinal, RecvDropped, Receive, Watchdog, Assign, CheckDone, Release,
           ReleaseDone, ReleaseDelayExpires, IdleDelayExpires, Accept
    <3> QED
        BY <3>1
  <2>2. ASSUME \/ \E x \in Remotes : ConnEof(x) \/ ConnReturn(x) \/ ConnWriteError(x)
               \/ \E q \in Queues : LoseJob(q)
        PROVE  UNCHANGED proc
      BY <2>2 DEF ConnEof, ConnReturn, ConnWriteError, LoseJob
  <2>3. ASSUME NEW e \in Execs, ExecNext(e) PROVE proc'[c] = proc[c]
      BY <1>0, <2>3 DEF ExecNext, ExecConnect, Connect, ExecStep, StartTask, StartFails, ExecRead,
              SendOutput, SendDone, TaskEnds, ExecPissOff, ExecEof, KillExec, ExecLeaves
  <2>4. ASSUME NEW d \in Clients, ClientStep(d) \/ KillClient(d) PROVE proc'[c] # "waiting"
    <3>1. UNCHANGED proc \/ proc' = [proc EXCEPT ![d] = "gone"]
        BY <2>4 DEF ClientStep, ClientRefused, ClientOutput, ClientFailed, ClientDone, ClientEof,
                KillClient, Exit
    <3> QED
        BY <1>0, <3>1
  <2>5. ASSUME NEW d \in Clients, ClientConnect(d) PROVE c = d
    <3>1. proc' = [proc EXCEPT ![d] = "waiting"]
        BY <2>5 DEF ClientConnect, Connect
    <3> QED
        BY <1>0, <3>1
  <2>6. ~UNCHANGED vars
      BY DEF vars
  <2> QED
      BY <2>1, <2>2, <2>3, <2>4, <2>5, <2>6 DEF Next, ClientNext
<1>2. conn[c] = "none"
    BY <1>0, <1>1 DEF ClientConnect, Connect, Turns
<1>3. pairedId[c] = None /\ down[c] = <<>>
    BY <1>2 DEF Turns, ClientTurn
<1>4. \A e \in Execs : pairedId[e] # c
    BY <1>3, RemoteFacts DEF Turns, ExecPaired
<1> QED
    BY <1>1, <1>3, <1>4 DEF ClientConnect, clientVars, execVars

LEMMA GotStep ==
    ASSUME TypeOK, Turns, Ends, LastWord, FinalIsLast, Streams, [Next]_vars, NEW c \in Clients
    PROVE  InOrder(c)' /\ Complete(c)' /\ Fresh(c)'
<1>0. /\ InOrder(c) /\ Complete(c) /\ Fresh(c) /\ got[c] \in Seq(Int) /\ Len(got[c]) \in Nat
      /\ sent[c] \in Nat
    BY ExecAssumption DEF Streams, TypeOK, ClientTypeOK, ExecTypeOK
<1>1. CASE ServerNext /\ UNCHANGED <<clientVars, execVars>>
    BY <1>0, <1>1, PairingChanges DEF clientVars, execVars, InOrder, Complete, Fresh
<1>2. CASE Elsewhere /\ UNCHANGED serverVars
  <2>0. pairedId' = pairedId
      BY <1>2 DEF serverVars
  <2>1. CASE status'[c] = status[c] /\ got'[c] = got[c]
    <3>1. sent'[c] = sent[c] \/ (pairedId[c] # None /\ status[c] \notin Verdicts)
        BY SentChanges, RemoteFacts DEF Answered
    <3> QED
        BY <1>0, <2>0, <2>1, <3>1 DEF InOrder, Complete, Fresh, Verdicts
  <2>2. CASE status'[c] \in Unanswered /\ got'[c] = got[c]
    <3>1. sent'[c] = sent[c] \/ pairedId[c] # None
        BY SentChanges, RemoteFacts
    <3> QED
        BY <1>0, <2>0, <2>2, <3>1 DEF InOrder, Complete, Fresh, Unanswered
  <2>3. CASE ClientOutput(c) /\ UNCHANGED execVars
    <3>1. /\ ClientRead(c, "TaskOutput") /\ got' = [got EXCEPT ![c] = Append(@, Head(down[c]).arg)]
          /\ UNCHANGED <<status, sent>> /\ proc[c] = "waiting" /\ down[c] # <<>>
        BY <2>3 DEF ClientOutput, ClientRead, execVars
    <3>2. DownInOrder(c) /\ pairedId[c] # None /\ status[c] \notin Verdicts
        BY <3>1 DEF Streams, Turns, ClientTurn, FinalIsLast, Verdicts
    <3>3. 1 \in 1 .. Len(down[c]) /\ Head(down[c]) = down[c][1] /\ down[c][1].type = "TaskOutput"
        BY <3>1, Heard
    <3>4. Head(down[c]).arg = Len(got[c]) + 1
        BY <3>2, <3>3 DEF DownInOrder
    <3>5. got'[c] = Append(got[c], Len(got[c]) + 1)
        BY <3>1, <3>4 DEF TypeOK, ClientTypeOK
    <3>6. /\ Len(got'[c]) = Len(got[c]) + 1 /\ got'[c][Len(got[c]) + 1] = Len(got[c]) + 1
          /\ \A i \in 1 .. Len(got[c]) : got'[c][i] = got[c][i]
        BY <1>0, <3>5, AppendFacts
    <3>7. InOrder(c)'
      <4> SUFFICES ASSUME NEW i \in 1 .. Len(got'[c]) PROVE got'[c][i] = i
          BY DEF InOrder
      <4>1. i \in 1 .. Len(got[c]) \/ i = Len(got[c]) + 1
          BY <1>0, <3>6
      <4> QED
          BY <1>0, <3>6, <4>1 DEF InOrder
    <3> QED
        BY <2>0, <3>1, <3>2, <3>7 DEF Complete, Fresh, Verdicts
  <2>4. CASE ClientFailed(c) /\ UNCHANGED execVars
    <3>1. status'[c] = "failed" /\ UNCHANGED <<got, sent>>
        BY <2>4 DEF ClientFailed, Exit, execVars, TypeOK, ClientTypeOK
    <3> QED
        BY <1>0, <2>0, <3>1 DEF InOrder, Complete, Fresh
  <2>5. CASE ClientDone(c) /\ UNCHANGED execVars
    <3>1. UNCHANGED <<got, sent>> /\ ClientRead(c, "TaskDone") /\ proc[c] = "waiting"
        BY <2>5 DEF ClientDone, ClientRead, execVars
    <3>2. 1 \in 1 .. Len(down[c]) /\ down[c][1].type = "TaskDone" /\ DownInOrder(c)
        BY <3>1, Heard DEF Streams
    <3>3. sent[c] = Len(got[c]) + 1 - 1
        BY <3>2 DEF DownInOrder
    <3>4. sent[c] = Len(got[c])
        BY <1>0, <3>3
    <3> QED
        BY <1>0, <2>0, <3>1, <3>4 DEF InOrder, Complete, Fresh
  <2> QED
      BY <1>2, <2>1, <2>2, <2>3, <2>4, <2>5, ClientTakes
<1> QED
    BY <1>1, <1>2, TwoSides

(* Counting chunks.                                                        *)
LEMMA Places ==
    ASSUME NEW a \in Int, NEW b \in Int
    PROVE  /\ a + b \in Int
           /\ a + b + 1 = a + (b + 1) /\ a + b + 1 - 1 = a + (b + 1) - 1
           /\ a + (b + 1) = a + 1 + b /\ a + (b + 1) - 1 = a + 1 + b - 1
           /\ (a + 1) + (b - 1) = a + b
    OBVIOUS

LEMMA DownStep ==
    ASSUME TypeOK, Turns, Ends, LastWord, FinalIsLast, Streams, [Next]_vars, NEW c \in Clients,
           proc'[c] = "waiting"
    PROVE  DownInOrder(c)'
<1>0. got[c] \in Seq(Int) /\ Len(got[c]) \in Nat /\ Len(down[c]) \in Nat /\ sent[c] \in Nat /\ c \in Remotes
    BY ExecAssumption, Heard DEF TypeOK, ClientTypeOK, ExecTypeOK
<1>1. CASE proc[c] # "waiting"
  <2>1. \A i \in 1 .. Len(<<>>) : FALSE
      OBVIOUS
  <2> QED
      BY <1>1, <2>1, WaitsSince DEF DownInOrder
<1>2. CASE proc[c] = "waiting" /\ ServerNext /\ UNCHANGED <<clientVars, execVars>>
  <2>1. got' = got /\ sent' = sent /\ DownInOrder(c)
      BY <1>2 DEF clientVars, execVars, Streams
  <2>2. CASE down'[c] = down[c]
      BY <2>1, <2>2 DEF DownInOrder
  <2>3. ASSUME NEW e \in Execs, NEW m \in Messages, Forwarded(c, e, m) PROVE DownInOrder(c)'
    <3>1. UpInOrder(c, e)
        BY <1>2, <2>3 DEF Streams, Forwarded
    <3>2. m.type # "TaskFailed" => m = up[e][1] /\ 1 \in 1 .. Len(up[e])
      <4>1. TaskFailed(c).type = "TaskFailed"
          BY DEF TaskFailed, Message
      <4> QED
          BY <2>3, <4>1, Received, RemoteFacts DEF Forwarded
    <3>3. /\ m.type = "TaskOutput" => m.arg = Sofar(c) + 1
          /\ m.type = "TaskDone" => sent[c] = Sofar(c) + 1 - 1
        BY <3>1, <3>2 DEF UpInOrder
    <3> DEFINE n == Len(down[c]) + 1
    <3>4. /\ m.type = "TaskOutput" => m.arg = Len(got[c]) + n
          /\ m.type = "TaskDone" => sent[c] = Len(got[c]) + n - 1
      <4>1. Sofar(c) + 1 = Len(got[c]) + n /\ Sofar(c) + 1 - 1 = Len(got[c]) + n - 1
        <5>1. Len(got[c]) \in Int /\ Len(down[c]) \in Int
            BY <1>0
        <5> QED
            BY <5>1, Places DEF Sofar
      <4> HIDE DEF n
      <4> QED
          BY <3>3, <4>1
    <3>5. \A i \in 1 .. Len(down'[c]) :
             (i \in 1 .. Len(down[c]) /\ down'[c][i] = down[c][i]) \/ (i = n /\ down'[c][i] = m)
        BY <2>3, Heard DEF Forwarded
    <3> HIDE DEF n
    <3>6. ASSUME NEW i \in 1 .. Len(down'[c])
          PROVE  /\ down'[c][i].type = "TaskOutput" => down'[c][i].arg = Len(got'[c]) + i
                 /\ down'[c][i].type = "TaskDone" => sent'[c] = Len(got'[c]) + i - 1
        BY <2>1, <3>4, <3>5, Zenon DEF DownInOrder
    <3> QED
        BY <3>6 DEF DownInOrder
  <2> QED
      BY <1>2, <2>2, <2>3, ClientHears
<1>3. CASE proc[c] = "waiting" /\ Elsewhere
  <2>1. DownInOrder(c)
      BY <1>3 DEF Streams
  <2>2. CASE down'[c] = down[c] /\ got'[c] = got[c]
    <3>1. sent'[c] = sent[c] \/ \A i \in 1 .. Len(down[c]) : down[c][i].type # "TaskDone"
        BY SentChanges DEF Answered, Final
    <3> QED
        BY <2>1, <2>2, <3>1 DEF DownInOrder
  <2>3. CASE ClientOutput(c) /\ UNCHANGED execVars
    <3>1. /\ ClientRead(c, "TaskOutput") /\ got' = [got EXCEPT ![c] = Append(@, Head(down[c]).arg)]
          /\ UNCHANGED sent
        BY <2>3 DEF ClientOutput, execVars
    <3>2. Head(down[c]) \in Messages /\ Head(down[c]).type = "TaskOutput"
        BY <3>1, Heard
    <3>3. Head(down[c]).arg \in Int
        BY <3>2 DEF Messages, Results, Final
    <3>4. Len(got'[c]) = Len(got[c]) + 1
        BY <1>0, <3>1, <3>3, AppendFacts DEF TypeOK, ClientTypeOK
    <3>5. \A i \in 1 .. Len(down'[c]) : i + 1 \in 1 .. Len(down[c]) /\ down'[c][i] = down[c][i + 1]
        BY <3>1, Heard
    <3>6. ASSUME NEW i \in 1 .. Len(down'[c])
          PROVE  /\ down'[c][i].type = "TaskOutput" => down'[c][i].arg = Len(got'[c]) + i
                 /\ down'[c][i].type = "TaskDone" => sent'[c] = Len(got'[c]) + i - 1
      <4>1. /\ down[c][i + 1].type = "TaskOutput" => down[c][i + 1].arg = Len(got[c]) + (i + 1)
            /\ down[c][i + 1].type = "TaskDone" => sent[c] = Len(got[c]) + (i + 1) - 1
        <5>1. i + 1 \in 1 .. Len(down[c])
            BY <3>5
        <5> QED
            BY <2>1, <5>1 DEF DownInOrder
      <4>2. /\ Len(got[c]) + (i + 1) = Len(got'[c]) + i
            /\ Len(got[c]) + (i + 1) - 1 = Len(got'[c]) + i - 1
        <5>1. Len(down'[c]) \in Int
            BY <1>0, <3>1, Heard
        <5>2. i \in Int /\ Len(got[c]) \in Int
            BY <1>0, <5>1
        <5>3. /\ Len(got[c]) + (i + 1) = Len(got[c]) + 1 + i
              /\ Len(got[c]) + (i + 1) - 1 = Len(got[c]) + 1 + i - 1
            BY <5>2, Places
        <5> QED
            BY <3>4, <5>3, Zenon
      <4>3. down'[c][i] = down[c][i + 1] /\ sent' = sent
          BY <3>1, <3>5
      <4> QED
          BY <4>1, <4>2, <4>3
    <3> QED
        BY <3>6 DEF DownInOrder
  <2>4. CASE (ClientFailed(c) \/ ClientDone(c)) /\ UNCHANGED execVars
    <3>1. PICK type \in Final : ClientRead(c, type)
        BY <2>4 DEF ClientFailed, ClientDone, Final
    <3>2. down'[c] = <<>>
        BY <3>1, Heard DEF FinalIsLast
    <3>3. \A i \in 1 .. Len(<<>>) : FALSE
        OBVIOUS
    <3> QED
        BY <3>2, <3>3 DEF DownInOrder
  <2> QED
      BY <1>3, <2>2, <2>3, <2>4, ClientTakes
<1> QED
    BY <1>1, <1>2, <1>3, TwoSides


(* Nothing that counts has moved.                                          *)
LEMMA UpFrame ==
    ASSUME NEW c \in Clients, NEW e \in Execs, UpInOrder(c, e),
           Sofar(c)' = Sofar(c), sent'[c] = sent[c],
           proc'[e] = "running" => proc[e] = "running" /\ up'[e] = up[e],
           proc'[e] = "idle" /\ down'[e] # <<>> => proc[e] = "idle" /\ down[e] # <<>>,
           \A i \in 1 .. Len(up'[e]) : up'[e][i].type \in {"TaskOutput", "TaskDone"} =>
               i \in 1 .. Len(up[e]) /\ up'[e][i] = up[e][i]
    PROVE  UpInOrder(c, e)'
<1>1. ASSUME NEW i \in 1 .. Len(up'[e])
      PROVE  /\ up'[e][i].type = "TaskOutput" => up'[e][i].arg = Sofar(c)' + i
             /\ up'[e][i].type = "TaskDone" => sent'[c] = Sofar(c)' + i - 1
    BY <1>1 DEF UpInOrder
<1>2. proc'[e] = "running" => sent'[c] = Sofar(c)' + Len(up'[e])
    BY DEF UpInOrder
<1>3. proc'[e] = "idle" /\ down'[e] # <<>> => sent'[c] = 0 /\ Sofar(c)' = 0
    BY DEF UpInOrder
<1> QED
    BY <1>1, <1>2, <1>3 DEF UpInOrder

LEMMA UpSilent ==
    ASSUME NEW c \in Clients, NEW e \in Execs, Silent(e)', proc'[e] = "gone"
    PROVE  UpInOrder(c, e)'
<1>1. \A i \in 1 .. Len(<<>>) : FALSE
    OBVIOUS
<1> QED
    BY <1>1 DEF UpInOrder, Silent

LEMMA UpServer ==
    ASSUME TypeOK, Turns, Ends, LastWord, Streams, ServerNext, UNCHANGED <<clientVars, execVars>>,
           NEW c \in Clients, proc[c] = "waiting", NEW e \in Execs, pairedId'[e] = c
    PROVE  UpInOrder(c, e)'
<1>0. /\ UNCHANGED <<proc, got, sent>> /\ c \in Remotes /\ e \in Remotes /\ c # e /\ c # None
      /\ got[c] \in Seq(Int) /\ Len(got[c]) \in Int /\ Len(down[c]) \in Int
      /\ up[e] \in Seq(Messages) /\ Len(up[e]) \in Nat
  <2>1. UNCHANGED proc
      BY DEF ServerNext, HandleMsg, CheckQueues, RecvTask, RecvServant, RecvOutput, RecvDone,
           RecvFailed, RecvFinal, RecvDropped, Receive, Watchdog, Assign, CheckDone, Release,
           ReleaseDone, ReleaseDelayExpires, IdleDelayExpires, Accept
  <2>2. Len(down[c]) \in Nat
      BY Heard
  <2> QED
      BY <2>1, <2>2, RemoteFacts DEF clientVars, execVars, TypeOK, FabricTypeOK, ClientTypeOK
<1>1. CASE pairedId[e] # c
  <2>1. Assign(c) /\ e = Head(execQueue) /\ pairedId[c] = None /\ InQueue(e)
      BY <1>1, PairingChanges, AssignFacts
  <2>2. sent[c] = 0 /\ got[c] = <<>> /\ down[c] = <<>>
      BY <2>1 DEF Streams, Fresh, Turns, ClientTurn
  <2>3. down'[c] = down[c] /\ UNCHANGED up
      BY <1>0, <2>1 DEF Assign, TypeOK, FabricTypeOK
  <2>4. proc[e] # "running" /\ \A i \in 1 .. Len(up[e]) : up[e][i].type = "Dropped"
      BY <2>1, QueuedExec
  <2>5. Len(<<>>) + Len(<<>>) = 0
      OBVIOUS
  <2>6. Sofar(c)' = 0
      BY <1>0, <2>2, <2>3, <2>5 DEF Sofar
  <2> QED
      BY <1>0, <2>2, <2>3, <2>4, <2>6 DEF UpInOrder
<1>2. CASE pairedId[e] = c
  <2>0. UpInOrder(c, e) /\ pairedId[c] = e /\ ~InQueue(e) /\ down'[e] = down[e]
      BY <1>0, <1>2, ExecHears DEF Streams, Turns, ExecPaired
  <2>1. CASE \E type : Receive(e, type)
    <3>1. PICK type : Receive(e, type)
        BY <2>1
    <3>2. 1 \in 1 .. Len(up[e]) /\ up[e][1] = Head(up[e]) /\ Head(up[e]).type = type /\ Head(up[e]) \in Messages
        BY <1>0, <3>1, Received
    <3>3. type \in {"Dropped", "TaskOutput", "TaskDone", "TaskFailed"}
        BY <1>0, <1>2, <3>2 DEF Turns, ExecUp, Final
    <3>4. CASE type = "Dropped"
      <4>1. Silent(e)' /\ proc'[e] = "gone"
          BY <1>0, <1>2, <3>1, <3>4, KnownDropped DEF Known, Silent, Receive
      <4> QED
          BY <1>0, <4>1, UpSilent
    <3>5. CASE type \in Final
      <4>1. RecvDone(e) \/ RecvFailed(e)
          BY <1>0, <3>1, <3>2, <3>5, WhoReads, RemoteFacts
             DEF HandleMsg, RecvServant, RecvDropped, RecvOutput, Receive, Final
      <4>2. pairedId'[e] = None
          BY <1>0, <1>2, <4>1 DEF RecvDone, RecvFailed, RecvFinal, ExecIsReady, Unpair, TypeOK, ServerTypeOK
      <4> QED
          BY <1>0, <4>2
    <3>6. CASE type = "TaskOutput"
      <4>1. down' = [down EXCEPT ![c] = Append(@, Head(up[e]))]
          BY <1>2, <3>1, <3>6, ResultForwarded DEF Results
      <4>2. Len(down'[c]) = Len(down[c]) + 1
          BY <3>2, <4>1, Heard
      <4>3. Sofar(c)' = Sofar(c) + 1 /\ Sofar(c) \in Int
        <5>1. /\ Len(got[c]) + Len(down[c]) \in Int
              /\ Len(got[c]) + Len(down[c]) + 1 = Len(got[c]) + (Len(down[c]) + 1)
            BY <1>0, Places
        <5> QED
            BY <1>0, <4>2, <5>1, Zenon DEF Sofar
      <4>4. /\ \A i \in 1 .. Len(up'[e]) : i + 1 \in 1 .. Len(up[e]) /\ up'[e][i] = up[e][i + 1]
            /\ Len(up'[e]) = Len(up[e]) - 1
        <5>1. up[e] # <<>> /\ up'[e] = Tail(up[e])
            BY <1>0, <3>1 DEF Receive, TypeOK, FabricTypeOK
        <5> QED
            BY <1>0, <5>1, TailFacts
      <4>5. down'[e] = <<>>
          BY <1>2, <2>0, <3>2, <3>6 DEF Turns, ExecUp, Final
      <4>6. ASSUME NEW i \in 1 .. Len(up'[e])
            PROVE  /\ up'[e][i].type = "TaskOutput" => up'[e][i].arg = Sofar(c)' + i
                   /\ up'[e][i].type = "TaskDone" => sent'[c] = Sofar(c)' + i - 1
        <5>0. i \in Int
          <6>1. Len(up'[e]) \in Int
              BY <1>0, <4>4
          <6> QED
              BY <4>6, <6>1
        <5>1. i + 1 \in 1 .. Len(up[e]) /\ up'[e][i] = up[e][i + 1] /\ i \in Int
            BY <4>4, <4>6, <5>0, Zenon
        <5>2. /\ up[e][i + 1].type = "TaskOutput" => up[e][i + 1].arg = Sofar(c) + (i + 1)
              /\ up[e][i + 1].type = "TaskDone" => sent[c] = Sofar(c) + (i + 1) - 1
            BY <2>0, <5>1 DEF UpInOrder
        <5>3. /\ Sofar(c) + (i + 1) = Sofar(c) + 1 + i
              /\ Sofar(c) + (i + 1) - 1 = Sofar(c) + 1 + i - 1
            BY <4>3, <5>1, Places
        <5>4. /\ Sofar(c) + (i + 1) = Sofar(c)' + i
              /\ Sofar(c) + (i + 1) - 1 = Sofar(c)' + i - 1
            BY <4>3, <5>3, Zenon
        <5> QED
            BY <1>0, <5>1, <5>2, <5>4
      <4>7. proc'[e] = "running" => sent'[c] = Sofar(c)' + Len(up'[e])
        <5>0. Sofar(c) \in Int /\ Len(up[e]) \in Int
            BY <1>0, <4>3
        <5>1. (Sofar(c) + 1) + (Len(up[e]) - 1) = Sofar(c) + Len(up[e])
            BY <5>0, Places
        <5>2. Sofar(c)' + Len(up'[e]) = Sofar(c) + Len(up[e])
            BY <4>3, <4>4, <5>1, Zenon
        <5> QED
            BY <1>0, <2>0, <5>2 DEF UpInOrder
      <4> QED
          BY <4>5, <4>6, <4>7 DEF UpInOrder
    <3> QED
        BY <3>3, <3>4, <3>5, <3>6 DEF Final
  <2>2. CASE ~\E type : Receive(e, type)
    <3>1. up'[e] = up[e]
        BY <1>0, <2>2, ServerReads
    <3>2. down'[c] = down[c]
      <4>1. ASSUME NEW f \in Execs, NEW m \in Messages, Forwarded(c, f, m) PROVE FALSE
        <5>1. f = e
            BY <2>0, <4>1, ForwardedBy
        <5> QED
            BY <2>2, <4>1, <5>1 DEF Forwarded
      <4> QED
          BY <4>1, ClientHears
    <3>3. Sofar(c)' = Sofar(c)
        BY <1>0, <3>2 DEF Sofar
    <3> QED
        BY <1>0, <2>0, <3>1, <3>3, UpFrame
  <2> QED
      BY <2>1, <2>2
<1> QED
    BY <1>1, <1>2


(* While a client stays, reading does not change how many messages it has  *)
(* or is about to have; unless it reads the final one.                     *)
LEMMA SofarKept ==
    ASSUME TypeOK, Turns, Ends, LastWord, [Next]_vars, Elsewhere, NEW c \in Clients,
           proc[c] = "waiting", proc'[c] = "waiting", NEW e \in Execs, pairedId[e] = c
    PROVE  Sofar(c)' = Sofar(c) \/ Silent(e)
<1>0. /\ got[c] \in Seq(Int) /\ Len(got[c]) \in Int /\ Len(down[c]) \in Int
    BY Heard DEF TypeOK, ClientTypeOK
<1>1. CASE down'[c] = down[c] /\ got'[c] = got[c]
    BY <1>1 DEF Sofar
<1>2. CASE ClientOutput(c)
  <2>1. /\ ClientRead(c, "TaskOutput") /\ got' = [got EXCEPT ![c] = Append(@, Head(down[c]).arg)]
      BY <1>2 DEF ClientOutput
  <2>2. Head(down[c]) \in Messages /\ Head(down[c]).type = "TaskOutput" /\ Len(down'[c]) = Len(down[c]) - 1
      BY <2>1, Heard
  <2>3. Head(down[c]).arg \in Int
      BY <2>2 DEF Messages, Results, Final
  <2>4. Len(got'[c]) = Len(got[c]) + 1
      BY <1>0, <2>1, <2>3, AppendFacts DEF TypeOK, ClientTypeOK
  <2>5. (Len(got[c]) + 1) + (Len(down[c]) - 1) = Len(got[c]) + Len(down[c])
      BY <1>0, Places
  <2> QED
      BY <2>2, <2>4, <2>5, Zenon DEF Sofar
<1>3. CASE ClientFailed(c) \/ ClientDone(c)
  <2>1. PICK type \in Final : ClientRead(c, type)
      BY <1>3 DEF ClientFailed, ClientDone, Final
  <2>2. Answered(c)
      BY <2>1, Heard DEF Answered
  <2> QED
      BY <2>2 DEF LastWord
<1> QED
    BY <1>1, <1>2, <1>3, ClientTakes

(* A chunk is written, or the exit code after all of them.                 *)
LEMMA UpWritten ==
    ASSUME TypeOK, Turns, Ends, NEW c \in Clients, NEW e \in Execs, pairedId[e] = c, UpInOrder(c, e),
           proc[e] = "running", Sofar(c)' = Sofar(c), Sofar(c) \in Int,
           NEW m \in Messages, up' = [up EXCEPT ![e] = Append(@, m)], down'[e] = down[e],
           \/ /\ m.type = "TaskOutput" /\ m.arg = sent[c] + 1 /\ sent'[c] = sent[c] + 1
              /\ proc'[e] = "running"
           \/ m.type = "TaskDone" /\ sent'[c] = sent[c] /\ proc'[e] = "idle"
    PROVE  UpInOrder(c, e)'
<1> DEFINE n == Len(up[e]) + 1
<1>0. /\ down[e] = <<>> /\ sent[c] = Sofar(c) + Len(up[e])
      /\ \A i \in 1 .. Len(up[e]) : up[e][i].type # "TaskDone"
    BY UpRunning DEF UpInOrder
<1>1. /\ Len(up[e]) \in Nat /\ Len(up'[e]) = n /\ up'[e][n] = m
      /\ \A i \in 1 .. Len(up[e]) : up'[e][i] = up[e][i]
  <2>1. e \in Remotes
      BY RemoteFacts
  <2>2. /\ Len(up[e]) \in Nat /\ Len(up'[e]) = Len(up[e]) + 1 /\ up'[e][Len(up[e]) + 1] = m
        /\ \A i \in 1 .. Len(up[e]) : up'[e][i] = up[e][i]
      BY <2>1, Appended
  <2> QED
      BY <2>2
<1>2. \A i \in 1 .. Len(up'[e]) : i \in 1 .. Len(up[e]) \/ i = n
    BY <1>1
<1>3. Len(up[e]) \in Int
    BY <1>1
<1>4. /\ Sofar(c) + Len(up[e]) + 1 = Sofar(c) + n /\ Sofar(c) + Len(up[e]) = Sofar(c) + n - 1
    BY <1>3
<1> HIDE DEF n
<1>5. ASSUME NEW i \in 1 .. Len(up'[e])
      PROVE  /\ up'[e][i].type = "TaskOutput" => up'[e][i].arg = Sofar(c)' + i
             /\ up'[e][i].type = "TaskDone" => sent'[c] = Sofar(c)' + i - 1
  <2>1. CASE i \in 1 .. Len(up[e])
      BY <1>0, <1>1, <2>1 DEF UpInOrder
  <2>2. CASE i = n
      BY <1>0, <1>1, <1>4, <2>2
  <2> QED
      BY <1>2, <2>1, <2>2
<1>6. proc'[e] = "running" => sent'[c] = Sofar(c)' + Len(up'[e])
    BY <1>0, <1>1, <1>4
<1> QED
    BY <1>0, <1>5, <1>6 DEF UpInOrder

LEMMA UpElsewhere ==
    ASSUME TypeOK, Turns, Ends, LastWord, Streams, [Next]_vars, Elsewhere,
           NEW c \in Clients, proc[c] = "waiting", proc'[c] = "waiting",
           NEW e \in Execs, pairedId[e] = c
    PROVE  UpInOrder(c, e)'
<1>0. /\ c \in Remotes /\ e \in Remotes /\ c # e /\ c # None /\ e \notin Clients /\ UpInOrder(c, e)
      /\ pairedId[c] = e /\ up \in [Remotes -> Seq(Messages)] /\ down \in [Remotes -> Seq(Messages)]
      /\ proc \in [Remotes -> {"none", "waiting", "idle", "running", "gone"}] /\ Len(up[e]) \in Nat
    BY RemoteFacts DEF Streams, Turns, ExecPaired, TypeOK, FabricTypeOK
<1>1. CASE Silent(e)
    BY <1>0, <1>1, SilentStays, GoneStays, UpSilent DEF Silent, Ends
<1>2. CASE Sofar(c)' = Sofar(c)
  <2>0. Sofar(c) \in Int
    <3>1. Len(got[c]) \in Nat /\ Len(down[c]) \in Nat
        BY <1>0 DEF TypeOK, ClientTypeOK
    <3> QED
        BY <3>1, Places DEF Sofar
  <2>1. CASE SendOutput(e)
    <3>1. running[e] = c /\ proc[e] = "running"
        BY <1>0, <2>1, UpRunning DEF SendOutput
    <3> DEFINE m == TaskOutput(c, sent[c] + 1)
    <3>2. /\ up' = [up EXCEPT ![e] = Append(@, m)] /\ UNCHANGED <<proc, down>>
          /\ sent' = [sent EXCEPT ![c] = @ + 1]
        BY <2>1, <3>1 DEF SendOutput
    <3>3. sent[c] + 1 \in Int /\ sent'[c] = sent[c] + 1
        BY <3>2, ExecAssumption DEF TypeOK, ExecTypeOK
    <3>4. m \in Messages /\ m.type = "TaskOutput" /\ m.arg = sent[c] + 1
        BY <3>3, MessageTypes DEF TaskOutput, Message
    <3> QED
        BY <1>0, <1>2, <2>0, <3>1, <3>2, <3>3, <3>4, UpWritten
  <2>2. CASE ~SendOutput(e)
    <3>0. sent'[c] = sent[c]
        BY <1>0, <2>2, SentChanges
    <3>1. CASE SendDone(e)
      <4>1. running[e] = c /\ proc[e] = "running" /\ proc'[e] = "idle" /\ down' = down
          BY <1>0, <3>1, UpRunning DEF SendDone, TaskEnds
      <4>2. PICK code \in ExitCodes : up' = [up EXCEPT ![e] = Append(@, TaskDone(c, code))]
          BY <3>1, <4>1 DEF SendDone
      <4>3. TaskDone(c, code) \in Messages /\ TaskDone(c, code).type = "TaskDone"
          BY MessageTypes DEF TaskDone, Message, ExitCodes, NoCode
      <4> QED
          BY <1>0, <1>2, <2>0, <3>0, <4>1, <4>2, <4>3, UpWritten
    <3>2. CASE StartTask(e)
      <4>1. /\ ExecRead(e, "Task") /\ proc[e] = "idle" /\ down[e] # <<>> /\ UNCHANGED up
            /\ proc'[e] = "running"
          BY <1>0, <3>2 DEF StartTask, ExecRead
      <4>2. sent[c] = 0 /\ Sofar(c) = 0
          BY <1>0, <4>1 DEF UpInOrder
      <4>3. \A i \in 1 .. Len(up[e]) : up[e][i].type = "Dropped"
          BY <4>1, ReadTask
      <4>4. \A i \in 1 .. Len(up[e]) : up[e][i].type # "Dropped"
          BY <1>0, <4>1, AliveNotDropped DEF Known
      <4>5. ~(1 \in 1 .. Len(up[e]))
          BY <4>3, <4>4
      <4>6. Len(up[e]) = 0
          BY <1>0, <4>5
      <4>7. \A i \in 1 .. Len(up'[e]) : FALSE
          BY <4>1, <4>6
      <4>8. sent'[c] = Sofar(c)' + Len(up'[e])
          BY <1>2, <3>0, <4>1, <4>2, <4>6
      <4> QED
          BY <4>1, <4>7, <4>8 DEF UpInOrder
    <3>3. ASSUME /\ proc'[e] = "running" => proc[e] = "running" /\ up'[e] = up[e]
                 /\ proc'[e] = "idle" => proc[e] = "idle"
                 /\ down'[e] # <<>> => down[e] # <<>>
                 /\ \A i \in 1 .. Len(up'[e]) : up'[e][i].type \in {"TaskOutput", "TaskDone"} =>
                       i \in 1 .. Len(up[e]) /\ up'[e][i] = up[e][i]
          PROVE  UpInOrder(c, e)'
        BY <1>0, <1>2, <3>0, <3>3, UpFrame
    <3>4. ASSUME UNCHANGED proc \/ (\E d \in Remotes : \E s : d # e /\ proc' = [proc EXCEPT ![d] = s]),
                 up'[e] = up[e], down'[e] = down[e]
          PROVE  UpInOrder(c, e)'
        BY <1>0, <3>3, <3>4
    <3>5. ASSUME UNCHANGED proc \/ proc' = [proc EXCEPT ![e] = "gone"], proc'[e] = "gone",
                 up' = up \/ LoseTail(e), down'[e] = down[e] \/ down'[e] = <<>>
          PROVE  UpInOrder(c, e)'
      <4>1. \A i \in 1 .. Len(up'[e]) : i \in 1 .. Len(up[e]) /\ up'[e][i] = up[e][i]
        <5>1. CASE up' = up
            BY <5>1
        <5>2. CASE LoseTail(e)
          <6>1. PICK k \in 0 .. Len(up[e]) : up'[e] = SubSeq(up[e], 1, k)
              BY <1>0, <5>2 DEF LoseTail
          <6> QED
              BY <1>0, <6>1, PrefixFacts
        <5> QED
            BY <3>5, <5>1, <5>2
      <4> QED
          BY <3>3, <3>5, <4>1
    <3>6. ASSUME NEW m \in Messages, m.type \in {"Dropped", "TaskFailed"}, UNCHANGED proc,
                 proc[e] # "running", up' = [up EXCEPT ![e] = Append(@, m)],
                 down'[e] = down[e] \/ down'[e] = <<>>
          PROVE  UpInOrder(c, e)'
      <4>1. \A i \in 1 .. Len(up'[e]) :
               (i \in 1 .. Len(up[e]) /\ up'[e][i] = up[e][i]) \/ up'[e][i] = m
          BY <1>0, <3>6, Appended
      <4> QED
          BY <3>3, <3>6, <4>1
    <3>7. CASE UNCHANGED vars
        BY <3>4, <3>7 DEF vars
    <3>8. ASSUME NEW x \in Remotes, ConnEof(x) PROVE UpInOrder(c, e)'
      <4>1. CASE x = e
        <5>1. Dropped \in Messages /\ Dropped.type = "Dropped"
            BY MessageTypes DEF Dropped, Message
        <5> QED
            BY <3>6, <3>8, <4>1, <5>1 DEF ConnEof
      <4>2. CASE x # e
          BY <1>0, <3>4, <3>8, <4>2 DEF ConnEof
      <4> QED
          BY <4>1, <4>2
    <3>9. ASSUME NEW x \in Remotes, ConnReturn(x) \/ ConnWriteError(x) PROVE UpInOrder(c, e)'
      <4>1. /\ UNCHANGED proc /\ proc[x] = "gone" /\ down' = [down EXCEPT ![x] = <<>>]
            /\ (up' = up \/ LoseTail(x))
          BY <3>9 DEF ConnReturn, ConnWriteError, Ends, HungUp
      <4>2. CASE x = e
          BY <1>0, <3>5, <4>1, <4>2
      <4>3. CASE x # e
        <5>1. up'[e] = up[e] /\ down'[e] = down[e]
            BY <1>0, <4>1, <4>3 DEF LoseTail
        <5> QED
            BY <3>4, <4>1, <5>1
      <4> QED
          BY <4>2, <4>3
    <3>10. ASSUME NEW q \in Queues, LoseJob(q) PROVE UpInOrder(c, e)'
        BY <3>4, <3>10 DEF LoseJob
    <3>11. ASSUME NEW d \in Clients, ClientNext(d) PROVE UpInOrder(c, e)'
      <4>1. d # e /\ d \in Remotes
          BY RemoteFacts
      <4>2. UNCHANGED proc \/ \E s : proc' = [proc EXCEPT ![d] = s]
          BY <3>11 DEF ClientNext, ClientConnect, Connect, ClientStep, ClientRefused, ClientOutput,
                ClientFailed, ClientDone, ClientEof, KillClient, Exit
      <4>3. up'[e] = up[e] /\ down'[e] = down[e]
          BY <1>0, <3>11, <4>1 DEF ClientNext, ClientConnect, Connect, ClientStep, ClientRefused,
                ClientOutput, ClientFailed, ClientDone, ClientEof, ClientRead, KillClient, LoseTail
      <4> QED
          BY <3>4, <4>1, <4>2, <4>3
    <3>12. ASSUME NEW f \in Execs, ExecNext(f), f # e PROVE UpInOrder(c, e)'
      <4>1. UNCHANGED proc \/ \E s : proc' = [proc EXCEPT ![f] = s]
          BY <3>12 DEF ExecNext, ExecConnect, Connect, ExecStep, StartTask, StartFails, SendOutput,
                SendDone, TaskEnds, ExecPissOff, ExecEof, KillExec, ExecLeaves
      <4>2. up'[e] = up[e] /\ down'[e] = down[e]
          BY <1>0, <3>12 DEF ExecNext, ExecConnect, Connect, ExecStep, StartTask, StartFails, ExecRead,
                SendOutput, SendDone, ExecPissOff, ExecEof, KillExec, LoseTail
      <4> QED
          BY <3>4, <3>12, <4>1, <4>2, RemoteFacts
    <3>13. CASE ExecConnect(e)
      <4>1. conn[e] = "none"
          BY <1>0, <3>13 DEF ExecConnect, Connect, Turns
      <4> QED
          BY <1>0, <4>1 DEF Turns, ExecPaired
    <3>14. CASE StartFails(e)
      <4>1. /\ ExecRead(e, "Task") /\ proc[e] = "idle" /\ UNCHANGED proc
            /\ up' = [up EXCEPT ![e] = Append(@, TaskFailed(Head(down[e]).task))]
          BY <3>14 DEF StartFails, ExecRead
      <4>2. Head(down[e]).task = c /\ down'[e] = <<>>
          BY <4>1, ReadTask
      <4>3. TaskFailed(c) \in Messages /\ TaskFailed(c).type = "TaskFailed"
          BY MessageTypes DEF TaskFailed, Message
      <4> QED
          BY <3>6, <4>1, <4>2, <4>3
    <3>15. CASE ExecPissOff(e) \/ ExecEof(e) \/ KillExec(e)
      <4>1. proc' = [proc EXCEPT ![e] = "gone"] /\ (up' = up \/ LoseTail(e))
          BY <3>15 DEF ExecPissOff, ExecEof, KillExec, ExecLeaves
      <4>2. down'[e] = down[e] \/ down'[e] = <<>>
        <5>1. CASE ExecPissOff(e)
            BY <1>0, <5>1, OneDown DEF ExecPissOff, ExecRead
        <5>2. CASE ~ExecPissOff(e)
            BY <3>15, <5>2 DEF ExecEof, KillExec
        <5> QED
            BY <5>1, <5>2
      <4> QED
          BY <1>0, <3>5, <4>1, <4>2
    <3>16. ASSUME NEW f \in Execs, ExecNext(f) PROVE UpInOrder(c, e)'
        BY <2>2, <3>1, <3>2, <3>12, <3>13, <3>14, <3>15, <3>16 DEF ExecNext, ExecStep
    <3> QED
        BY <3>7, <3>8, <3>9, <3>10, <3>11, <3>16 DEF Elsewhere
  <2> QED
      BY <2>1, <2>2
<1> QED
    BY <1>1, <1>2, SofarKept

LEMMA StreamsStep ==
    TypeOK /\ Turns /\ Ends /\ LastWord /\ FinalIsLast /\ Streams /\ [Next]_vars => Streams'
<1> SUFFICES ASSUME TypeOK, Turns, Ends, LastWord, FinalIsLast, Streams, [Next]_vars, NEW c \in Clients
             PROVE  /\ InOrder(c)' /\ Complete(c)' /\ Fresh(c)'
                    /\ proc'[c] = "waiting" =>
                          DownInOrder(c)' /\ \A e \in Execs : pairedId'[e] = c => UpInOrder(c, e)'
    BY DEF Streams
<1>1. ASSUME proc'[c] = "waiting", NEW e \in Execs, pairedId'[e] = c PROVE UpInOrder(c, e)'
  <2>1. CASE proc[c] # "waiting"
      BY <1>1, <2>1, WaitsSince DEF serverVars
  <2>2. CASE proc[c] = "waiting" /\ ServerNext /\ UNCHANGED <<clientVars, execVars>>
      BY <1>1, <2>2, UpServer
  <2>3. CASE proc[c] = "waiting" /\ Elsewhere /\ UNCHANGED serverVars
      BY <1>1, <2>3, UpElsewhere DEF serverVars
  <2> QED
      BY <2>1, <2>2, <2>3, TwoSides
<1> QED
    BY <1>1, GotStep, DownStep

(* The client writes the chunks in the order in which the exec produced    *)
(* them and has them all when the exit code arrives, for any number of     *)
(* clients, execs and chunks and whatever dies.                            *)
THEOREM WholeOutput == Spec => []OutputComplete
<1>1. Init => Streams
  <2>1. \A i \in 1 .. Len(<<>>) : FALSE
      OBVIOUS
  <2> SUFFICES ASSUME Init PROVE Streams
      OBVIOUS
  <2>2. \A c \in Clients : status[c] = "none" /\ got[c] = <<>> /\ sent[c] = 0 /\ proc[c] = "none"
      BY RemoteFacts DEF Init, FabricInit, ClientInit, ExecInit
  <2> QED
      BY <2>1, <2>2 DEF Streams, InOrder, Complete, Fresh
<1>2. TypeOK /\ Turns /\ Ends /\ LastWord /\ FinalIsLast /\ Streams /\ [Next]_vars => Streams'
    BY StreamsStep
<1>3. Streams => OutputComplete
    BY DEF Streams, InOrder, Complete, OutputComplete
<1> QED
    BY <1>1, <1>2, <1>3, TypeCorrect, TurnsCorrect, EndsCorrect, LastWordCorrect, OneAnswer, PTL DEF Spec
=============================================================================
