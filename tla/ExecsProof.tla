----------------------------- MODULE ExecsProof -----------------------------
(***************************************************************************)
(* The execs the server asks for, counts and keeps waiting.  Under every   *)
(* fault: no exec waits while a task does (WorkConserving), the jobs asked *)
(* for stay within the configured limits (PendingBound, LaunchBound), and  *)
(* the subtraction of report_status does not underflow                     *)
(* (StatusNoUnderflow).                                                    *)
(*                                                                         *)
(* As long as no exec dies while it waits: running_exec_count is exact,    *)
(* exec_queue holds connected execs, and a shutdown strands no task.  If   *)
(* no client is killed either, the server ends in no other way than by its *)
(* idle timer.                                                             *)
(***************************************************************************)
EXTENDS AnswersProof

-----------------------------------------------------------------------------
(* A handler that adds to a queue does not return to the select! before    *)
(* check_queues has emptied one of them.                                   *)
LEMMA WorkConservingStep == WorkConserving /\ [Next]_vars => WorkConserving'
<1> SUFFICES ASSUME WorkConserving, [Next]_vars, pc' = "select"
             PROVE  taskQueue' = {} \/ execQueue' = <<>>
    BY DEF WorkConserving
<1>1. CASE UNCHANGED <<pc, serverVars>>
    BY <1>1 DEF WorkConserving, serverVars
<1>2. CASE ServerNext
  <2>1. ASSUME NEW c \in Remotes, Accept(c) PROVE UNCHANGED <<taskQueue, execQueue>> /\ pc = "select"
      BY <2>1 DEF Accept
  <2>2. ASSUME NEW c \in Remotes, HandleMsg(c)
        PROVE  UNCHANGED <<taskQueue, execQueue>> /\ pc = "select"
    <3>1. CASE c \in Clients /\ RecvTask(c)
        BY <3>1 DEF RecvTask, Update
    <3>2. CASE RecvServant(c)
        BY <3>2 DEF RecvServant, ExecIsReady, Update
    <3>3. CASE RecvOutput(c)
        BY <3>3 DEF RecvOutput, Receive
    <3>4. CASE RecvDone(c) \/ RecvFailed(c)
        BY <3>4 DEF RecvDone, RecvFailed, RecvFinal, ExecIsReady, Update
    <3>5. CASE RecvDropped(c)
        BY <3>5 DEF RecvDropped, Receive
    <3> QED
        BY <2>2, <3>1, <3>2, <3>3, <3>4, <3>5 DEF HandleMsg
  <2>3. ASSUME ReleaseDelayExpires \/ IdleDelayExpires
        PROVE  UNCHANGED <<taskQueue, execQueue>> /\ pc = "select"
      BY <2>3 DEF ReleaseDelayExpires, IdleDelayExpires
  <2>4. ~Watchdog
      BY DEF Watchdog, Update
  <2>5. ASSUME CheckDone \/ ReleaseDone PROVE taskQueue' = {} \/ execQueue' = <<>>
      BY <2>5 DEF CheckDone, ReleaseDone
  <2>6. ~Release /\ \A c \in Clients : ~Assign(c)
      BY DEF Release, DecrementRunning, Assign
  <2> QED
      BY <1>2, <2>1, <2>2, <2>3, <2>4, <2>5, <2>6
         DEF ServerNext, CheckQueues, WorkConserving
<1> QED
    BY <1>1, <1>2, ServerOwns

(* check_queues leaves no exec waiting while a task waits.                 *)
THEOREM NoIdleWait == Spec => []WorkConserving
<1>1. Init => WorkConserving
    BY DEF Init, ServerInit, WorkConserving
<1> QED
    BY <1>1, WorkConservingStep, PTL DEF Spec

-----------------------------------------------------------------------------
(* The pending counts after start_execs, for a queue that had p of them:   *)
(* at most p or its share of what is to be kept pending.                   *)
LEMMA StartedBounds ==
    ASSUME NEW tasks \in Nat, NEW run \in Nat, NEW p \in Nat, NEW o \in Nat, NEW keep \in Int
    PROVE  LET n == Started(tasks, run, p, o, keep)
           IN  /\ n \in Nat
               /\ p + n <= p \/ p + n <= keep
               /\ n = 0 \/ run + p + o + n <= MaxCount
    BY ServerAssumption DEF Started, Least, Greatest

(* The jobs that may be pending in a queue with these limits.              *)
Modest(pend) ==
    LET keep == Greatest(KeepPending, InitialCount)
    IN  \A q \in Queues :
            IF BothQueues THEN 2 * pend[q] <= keep + 1
            ELSE pend[q] <= IF q = 0 THEN keep ELSE 0

(* start_execs respects both limits.                                       *)
LEMMA StartExecsBounds ==
    ASSUME NEW tasks \in Nat, NEW run \in Nat, NEW pend \in [Queues -> Nat]
    PROVE  LET s == StartExecs(tasks, run, pend)
           IN  /\ Modest(pend) => Modest(s)
               /\ run + pend[0] + pend[1] <= MaxCount => run + s[0] + s[1] <= MaxCount
<1>1. /\ 0 \in Queues /\ 1 \in Queues
      /\ \A q \in Queues : q = 0 \/ q = 1
    BY DEF Queues
<1> DEFINE most == Greatest(KeepPending, InitialCount)
           keep == Greatest(KeepPending, Greatest(InitialCount, run) - run)
           share == Share(keep)
           first == pend[0] + Started(tasks, run, pend[0], pend[1], share)
           second == IF BothQueues
                     THEN pend[1] + Started(tasks, run, pend[1], first, share) ELSE pend[1]
           s == StartExecs(tasks, run, pend)
<1>2. most \in Nat /\ keep \in Nat /\ keep <= most
    BY ServerAssumption DEF Greatest
<1> HIDE DEF keep, most
<1>3. share \in Nat /\ share \in Int /\ IF BothQueues THEN 2 * share <= most + 1 ELSE share <= most
    BY <1>2, ServerAssumption DEF Share
<1> HIDE DEF share
<1>4. /\ first \in Nat
      /\ first <= pend[0] \/ first <= share
      /\ run + pend[0] + pend[1] <= MaxCount => run + first + pend[1] <= MaxCount
  <2>1. pend[0] \in Nat /\ pend[1] \in Nat /\ MaxCount \in Nat
      BY <1>1, ServerAssumption
  <2> DEFINE n == Started(tasks, run, pend[0], pend[1], share)
  <2>2. /\ n \in Nat
        /\ pend[0] + n <= pend[0] \/ pend[0] + n <= share
        /\ n = 0 \/ run + pend[0] + pend[1] + n <= MaxCount
      BY <1>3, <2>1, StartedBounds
  <2>3. first = pend[0] + n
      OBVIOUS
  <2> HIDE DEF n, first
  <2> QED
      BY <2>1, <2>2, <2>3
<1> HIDE DEF first
<1>5. /\ second \in Nat
      /\ second <= pend[1] \/ (BothQueues /\ second <= share)
      /\ run + first + pend[1] <= MaxCount => run + first + second <= MaxCount
  <2>1. CASE BothQueues
    <3>1. pend[1] \in Nat /\ MaxCount \in Nat
        BY <1>1, ServerAssumption
    <3> DEFINE n == Started(tasks, run, pend[1], first, share)
    <3>2. /\ n \in Nat
          /\ pend[1] + n <= pend[1] \/ pend[1] + n <= share
          /\ n = 0 \/ run + pend[1] + first + n <= MaxCount
        BY <1>3, <1>4, <3>1, StartedBounds
    <3>3. second = pend[1] + n
        BY <2>1
    <3> HIDE DEF n, second
    <3> QED
        BY <1>4, <2>1, <3>1, <3>2, <3>3
  <2>2. CASE ~BothQueues
      BY <1>1, <2>2
  <2> QED
      BY <2>1, <2>2
<1> HIDE DEF second
<1>6. s = IF tasks = 0 THEN pend ELSE [q \in Queues |-> IF q = 0 THEN first ELSE second]
  <2>1. pend[0] \in Nat /\ pend[1] \in Nat
      BY <1>1
  <2>2. PICK x \in Nat : x = pend[0]
      BY <2>1
  <2>3. PICK y \in Nat : y = pend[1]
      BY <2>1
  <2>4. PICK n \in Nat : n = share
      BY <1>3
  <2>5. PICK f \in Nat : f = first
      BY <1>4
  <2>6. /\ StartLoop(tasks, run, y, n)[x] = x + Started(tasks, run, x, y, n)
        /\ StartLoop(tasks, run, f, n)[y] = y + Started(tasks, run, y, f, n)
      BY LoopStops
  <2>7. /\ first = StartLoop(tasks, run, pend[1], share)[pend[0]]
        /\ second = IF BothQueues THEN StartLoop(tasks, run, first, share)[pend[1]] ELSE pend[1]
      BY <2>2, <2>3, <2>4, <2>5, <2>6, Zenon DEF first, second
  <2> HIDE DEF first, second
  <2> QED
      BY <2>7 DEF StartExecs, share, keep
<1> HIDE DEF s
<1>7. \/ s = pend
      \/ s[0] = first /\ s[1] = second
    BY <1>1, <1>6
<1>8. ASSUME Modest(pend) PROVE Modest(s)
  <2>1. CASE s = pend
      BY <1>8, <2>1
  <2>2. CASE s[0] = first /\ s[1] = second
    <3>1. CASE BothQueues
      <4>1. 2 * pend[0] <= most + 1 /\ 2 * pend[1] <= most + 1
          BY <1>1, <1>8, <3>1 DEF Modest, most
      <4>2. pend[0] \in Nat /\ pend[1] \in Nat /\ 2 * share <= most + 1
          BY <1>1, <1>3, <3>1
      <4>3. 2 * first <= most + 1 /\ 2 * second <= most + 1
          BY <1>2, <1>3, <1>4, <1>5, <4>1, <4>2
      <4> QED
          BY <1>1, <2>2, <3>1, <4>3 DEF Modest, most
    <3>2. CASE ~BothQueues
      <4>1. pend[0] <= most /\ pend[1] <= 0 /\ pend[0] \in Nat /\ pend[1] \in Nat /\ share <= most
          BY <1>1, <1>3, <1>8, <3>2 DEF Modest, most
      <4>2. first <= most /\ second <= 0
          BY <1>2, <1>3, <1>4, <1>5, <3>2, <4>1
      <4> QED
          BY <1>1, <2>2, <3>2, <4>2 DEF Modest, most
    <3> QED
        BY <3>1, <3>2
  <2> QED
      BY <1>7, <2>1, <2>2
<1>9. run + pend[0] + pend[1] <= MaxCount => run + s[0] + s[1] <= MaxCount
    BY <1>4, <1>5, <1>7
<1> QED
    BY <1>8, <1>9 DEF s

(* What the handlers do to the counters of execs: nothing or a decrement,  *)
(* or an update from the counts they had, or with the exec counted that    *)
(* introduced itself.                                                      *)
LEMMA CounterChanges ==
    ASSUME TypeOK, ServerNext
    PROVE  \/ UNCHANGED <<pending, jobs>> /\ runningCount' \in {runningCount, runningCount - 1}
           \/ /\ \E tasks \in Nat : Update(tasks, runningCount, pending)
              /\ UNCHANGED runningCount
           \/ \E e \in Execs : RecvServant(e)
<1>0. /\ Cardinality(taskQueue) \in Nat
      /\ \A c \in Clients : Cardinality(taskQueue \cup {c}) \in Nat
    BY QueueLen DEF TypeOK, ServerTypeOK
<1>1. ASSUME NEW c \in Remotes, Accept(c) PROVE UNCHANGED <<pending, jobs, runningCount>>
    BY <1>1 DEF Accept
<1>2. ASSUME Watchdog PROVE \E tasks \in Nat : Update(tasks, runningCount, pending) /\ UNCHANGED runningCount
    BY <1>0, <1>2 DEF Watchdog
<1>3. ASSUME CheckDone \/ ReleaseDone \/ ReleaseDelayExpires \/ IdleDelayExpires
      PROVE  UNCHANGED <<pending, jobs, runningCount>>
    BY <1>3 DEF CheckDone, ReleaseDone, ReleaseDelayExpires, IdleDelayExpires
<1>4. ASSUME NEW c \in Clients, Assign(c) PROVE UNCHANGED <<pending, jobs, runningCount>>
    BY <1>4 DEF Assign
<1>5. ASSUME Release
      PROVE  UNCHANGED <<pending, jobs>> /\ runningCount' \in {runningCount, runningCount - 1}
    BY <1>5 DEF Release, DecrementRunning
<1>6. ASSUME NEW c \in Remotes, RecvDropped(c)
      PROVE  UNCHANGED <<pending, jobs>> /\ runningCount' \in {runningCount, runningCount - 1}
    BY <1>6 DEF RecvDropped
<1>7. ASSUME NEW c \in Clients, RecvTask(c)
      PROVE  \E tasks \in Nat : Update(tasks, runningCount, pending) /\ UNCHANGED runningCount
    BY <1>0, <1>7 DEF RecvTask
<1>8. ASSUME NEW e \in Execs, RecvOutput(e) PROVE UNCHANGED <<pending, jobs, runningCount>>
    BY <1>8 DEF RecvOutput
<1>9. ASSUME NEW e \in Execs, RecvDone(e) \/ RecvFailed(e)
      PROVE  \/ UNCHANGED <<pending, jobs, runningCount>>
             \/ \E tasks \in Nat : Update(tasks, runningCount, pending) /\ UNCHANGED runningCount
    BY <1>0, <1>9 DEF RecvDone, RecvFailed, RecvFinal, ExecIsReady
<1> QED
    BY <1>1, <1>2, <1>3, <1>4, <1>5, <1>6, <1>7, <1>8, <1>9
       DEF ServerNext, HandleMsg, CheckQueues

(* remote_is_exec: the pending count goes down before start_execs runs.    *)
LEMMA ServantUpdate ==
    ASSUME TypeOK, NEW e \in Execs, RecvServant(e)
    PROVE  /\ Head(up[e]).arg \in Queues
           /\ PhonedHome(pending, Head(up[e]).arg) \in [Queues -> Nat]
           /\ Update(Cardinality(taskQueue), runningCount + 1, PhonedHome(pending, Head(up[e]).arg))
           /\ runningCount' = runningCount + 1
<1>1. Head(up[e]) \in Messages /\ Head(up[e]).type = "YourObedientServant"
    BY Received, RemoteFacts DEF RecvServant
<1>2. Head(up[e]).arg \in Queues
    BY <1>1 DEF Messages, Results, Final
<1>3. \A q \in Queues : PhonedHome(pending, q) \in [Queues -> Nat]
  <2> SUFFICES ASSUME NEW q \in Queues PROVE PhonedHome(pending, q) \in [Queues -> Nat]
      OBVIOUS
  <2>1. pending \in [Queues -> Nat]
      BY DEF TypeOK, ServerTypeOK
  <2>2. pending[q] \in Nat
      BY <2>1
  <2>3. (IF pending[q] > 0 THEN pending[q] - 1 ELSE pending[q]) \in Nat
      BY <2>2
  <2> QED
      BY <2>1, <2>3 DEF PhonedHome
<1>4. /\ Update(Cardinality(taskQueue), runningCount + 1, PhonedHome(pending, Head(up[e]).arg))
      /\ runningCount' = runningCount + 1
    BY DEF RecvServant, ExecIsReady
<1> QED
    BY <1>2, <1>3, <1>4

(* No step takes a pending count over its limit.                           *)
LEMMA PendingBoundStep == TypeOK /\ PendingBound /\ [Next]_vars => PendingBound'
<1> SUFFICES ASSUME TypeOK, PendingBound, [Next]_vars PROVE PendingBound'
    OBVIOUS
<1>1. PendingBound = Modest(pending) /\ PendingBound' = Modest(pending')
    BY DEF PendingBound, Modest
<1>2. runningCount \in Nat /\ pending \in [Queues -> Nat]
    BY DEF TypeOK, ServerTypeOK
<1>3. CASE UNCHANGED pending
    BY <1>1, <1>3
<1>4. ASSUME NEW tasks \in Nat, Update(tasks, runningCount, pending) PROVE PendingBound'
    BY <1>1, <1>2, <1>4, StartExecsBounds DEF Update
<1>5. ASSUME NEW e \in Execs, RecvServant(e) PROVE PendingBound'
  <2> DEFINE q == Head(up[e]).arg
  <2>1. /\ q \in Queues /\ PhonedHome(pending, q) \in [Queues -> Nat]
        /\ pending' = StartExecs(Cardinality(taskQueue), runningCount + 1, PhonedHome(pending, q))
      BY <1>5, ServantUpdate DEF Update
  <2> HIDE DEF q
  <2>2. \A r \in Queues : PhonedHome(pending, q)[r] <= pending[r]
    <3>1. \A r \in Queues : PhonedHome(pending, q)[r] =
              IF r = q /\ pending[r] > 0 THEN pending[r] - 1 ELSE pending[r]
        BY <1>2, <2>1 DEF PhonedHome
    <3>2. \A r \in Queues : pending[r] \in Nat
        BY <1>2
    <3> QED
        BY <3>1, <3>2
  <2>3. Modest(PhonedHome(pending, q))
    <3>1. \A r \in Queues : pending[r] \in Nat /\ PhonedHome(pending, q)[r] \in Nat
        BY <1>2, <2>1
    <3>2. Greatest(KeepPending, InitialCount) \in Nat
        BY ServerAssumption DEF Greatest
    <3>3. \A r \in Queues : IF BothQueues THEN 2 * pending[r] <= Greatest(KeepPending, InitialCount) + 1
              ELSE pending[r] <= IF r = 0 THEN Greatest(KeepPending, InitialCount) ELSE 0
        BY <1>1 DEF Modest
    <3>4. \A r \in Queues : IF BothQueues THEN 2 * PhonedHome(pending, q)[r] <= Greatest(KeepPending, InitialCount) + 1
              ELSE PhonedHome(pending, q)[r] <= IF r = 0 THEN Greatest(KeepPending, InitialCount) ELSE 0
        BY <2>2, <3>1, <3>2, <3>3
    <3> QED
        BY <3>4 DEF Modest
  <2>4. Cardinality(taskQueue) \in Nat /\ runningCount + 1 \in Nat
      BY <1>2, QueueLen DEF TypeOK, ServerTypeOK
  <2> QED
      BY <1>1, <2>1, <2>3, <2>4, StartExecsBounds
<1> QED
    BY <1>3, <1>4, <1>5, CounterChanges, ServerOwns DEF serverVars

(* start_execs keeps the jobs that have not phoned home within             *)
(* keep_pending (or what is missing to initial_count), shared between the  *)
(* queues, whatever happens to the jobs.                                   *)
THEOREM PendingLimited == Spec => []PendingBound
<1>1. Init => PendingBound
  <2> SUFFICES ASSUME Init PROVE PendingBound
      OBVIOUS
  <2>1. \A q \in Queues : pending[q] = 0
      BY DEF Init, ServerInit
  <2>2. Greatest(KeepPending, InitialCount) \in Nat
      BY ServerAssumption DEF Greatest
  <2> QED
      BY <2>1, <2>2 DEF PendingBound
<1> QED
    BY <1>1, TypeInit, TypeStep, PendingBoundStep, PTL DEF Spec

-----------------------------------------------------------------------------
(* LaunchBound is not inductive: remote_is_exec counts an exec although no *)
(* job may be pending.  It never has to, since whatever is in the cluster  *)
(* or on its way from there is still counted as pending.                   *)
JobsCounted ==
    \A q \in Queues : /\ IsFiniteSet(Introducing(q))
                      /\ jobs[q] + Cardinality(Introducing(q)) <= pending[q]

(* What is written after the introduction, read or lost, adds no servant.  *)
LEMMA ServantsKept ==
    ASSUME TypeOK, NEW e \in Execs, NEW q \in Queues,
           \/ Shrinks(up[e], up'[e])
           \/ \E m \in Messages : m.type # "YourObedientServant" /\ up'[e] = Append(up[e], m),
           Servants(e, q)'
    PROVE  Servants(e, q)
<1>1. up[e] \in Seq(Messages) /\ Len(up[e]) \in Nat
    BY RemoteFacts DEF TypeOK, FabricTypeOK
<1>2. PICK i \in 1 .. Len(up'[e]) : up'[e][i].type = "YourObedientServant" /\ up'[e][i].arg = q
    BY DEF Servants
<1>3. CASE Shrinks(up[e], up'[e])
  <2>1. PICK d \in {0, 1} : /\ Len(up'[e]) + d <= Len(up[e])
                            /\ \A j \in 1 .. Len(up'[e]) : up'[e][j] = up[e][j + d]
      BY <1>3 DEF Shrinks
  <2>2. i + d \in 1 .. Len(up[e]) /\ up'[e][i] = up[e][i + d]
      BY <1>1, <2>1
  <2> QED
      BY <1>2, <2>2 DEF Servants
<1>4. ASSUME NEW m \in Messages, m.type # "YourObedientServant", up'[e] = Append(up[e], m)
      PROVE  Servants(e, q)
  <2>1. /\ Len(up'[e]) = Len(up[e]) + 1 /\ up'[e][Len(up[e]) + 1] = m
        /\ \A j \in 1 .. Len(up[e]) : up'[e][j] = up[e][j]
      BY <1>1, <1>4, AppendFacts
  <2>2. i \in 1 .. Len(up[e]) \/ i = Len(up[e]) + 1
      BY <1>1, <2>1
  <2> QED
      BY <1>2, <1>4, <2>1, <2>2 DEF Servants
<1> QED
    BY <1>3, <1>4

(* Nobody but an exec that connects adds a servant.                        *)
LEMMA IntroducingShrinks ==
    ASSUME TypeOK, [Next]_vars, \A e \in Execs : ~ExecConnect(e), NEW q \in Queues
    PROVE  Introducing(q)' \subseteq Introducing(q)
<1> SUFFICES ASSUME NEW e \in Execs
             PROVE  \/ Shrinks(up[e], up'[e])
                    \/ \E m \in Messages : m.type # "YourObedientServant" /\ up'[e] = Append(up[e], m)
    BY ServantsKept DEF Introducing
<1>1. e \in Remotes /\ Shrinks(up[e], up[e]) /\ up \in [Remotes -> Seq(Messages)]
    BY SameBuffers, RemoteFacts DEF TypeOK, FabricTypeOK
<1>2. CASE UNCHANGED up
    BY <1>1, <1>2
<1>3. ASSUME NEW c \in Remotes, LoseTail(c) PROVE Shrinks(up[e], up'[e])
    BY <1>1, <1>3, LoseTailShrinks
<1>4. ASSUME NEW c \in Remotes, NEW type, Receive(c, type) PROVE Shrinks(up[e], up'[e])
    BY <1>1, <1>4, Received
<1>5. ASSUME NEW c \in Remotes, NEW m \in Messages, m.type # "YourObedientServant",
             up' = [up EXCEPT ![c] = Append(@, m)]
      PROVE  \/ Shrinks(up[e], up'[e])
             \/ up'[e] = Append(up[e], m)
    BY <1>1, <1>5
<1>6. CASE ServerNext
    BY <1>2, <1>4, <1>6, RemoteFacts
       DEF ServerNext, HandleMsg, CheckQueues, Accept, RecvTask, RecvServant, RecvOutput, RecvDone,
           RecvFailed, RecvFinal, RecvDropped, Watchdog, Assign, CheckDone, Release, ReleaseDone,
           ReleaseDelayExpires, IdleDelayExpires
<1>7. ASSUME NEW c \in Remotes, ConnEof(c) \/ ConnReturn(c) \/ ConnWriteError(c)
      PROVE  \/ Shrinks(up[e], up'[e])
             \/ \E m \in Messages : m.type # "YourObedientServant" /\ up'[e] = Append(up[e], m)
  <2>1. Dropped \in Messages /\ Dropped.type # "YourObedientServant"
      BY MessageTypes DEF Dropped, Message
  <2> QED
      BY <1>2, <1>3, <1>5, <1>7, <2>1 DEF ConnEof, ConnReturn, ConnWriteError
<1>8. ASSUME NEW c \in Clients, ClientNext(c) PROVE Shrinks(up[e], up'[e])
  <2>1. ASSUME ClientConnect(c) PROVE up'[e] = up[e]
      BY <1>1, <2>1, RemoteFacts DEF ClientConnect, Connect
  <2>2. ASSUME ~ClientConnect(c) PROVE UNCHANGED up \/ LoseTail(c)
      BY <1>8, <2>2 DEF ClientNext, ClientStep, ClientRefused, ClientOutput, ClientFailed,
                        ClientDone, ClientEof, ClientRead, KillClient
  <2> QED
      BY <1>1, <1>3, <2>1, <2>2, RemoteFacts
<1>9. ASSUME NEW f \in Execs, ExecNext(f)
      PROVE  \/ Shrinks(up[e], up'[e])
             \/ \E m \in Messages : m.type # "YourObedientServant" /\ up'[e] = Append(up[e], m)
  <2>1. CASE StartTask(f) \/ ExecPissOff(f) \/ ExecEof(f) \/ KillExec(f)
      BY <1>2, <1>3, <2>1, RemoteFacts DEF StartTask, ExecPissOff, ExecEof, KillExec
  <2>2. CASE StartFails(f)
    <3>1. down[f] \in Seq(Messages) /\ down[f] # <<>> /\ Head(down[f]).type = "Task"
        BY <2>2, RemoteFacts DEF StartFails, ExecRead, TypeOK, FabricTypeOK
    <3>2. Head(down[f]).task \in Clients
        BY <3>1, TailFacts, ResultType
    <3>3. /\ TaskFailed(Head(down[f]).task) \in Messages
          /\ TaskFailed(Head(down[f]).task).type # "YourObedientServant"
        BY <3>2, MessageTypes DEF TaskFailed, Message
    <3> QED
        BY <1>5, <2>2, <3>3, RemoteFacts DEF StartFails
  <2>3. CASE SendOutput(f)
    <3>1. running[f] \in Clients /\ sent[running[f]] + 1 \in Int
        BY <2>3, ExecAssumption DEF SendOutput, TypeOK, ExecTypeOK
    <3>2. /\ TaskOutput(running[f], sent[running[f]] + 1) \in Messages
          /\ TaskOutput(running[f], sent[running[f]] + 1).type # "YourObedientServant"
        BY <3>1, MessageTypes DEF TaskOutput, Message
    <3> QED
        BY <1>5, <2>3, <3>2, RemoteFacts DEF SendOutput
  <2>4. CASE SendDone(f)
    <3>1. PICK code \in ExitCodes : up' = [up EXCEPT ![f] = Append(@, TaskDone(running[f], code))]
        BY <2>4 DEF SendDone
    <3>2. running[f] \in Clients /\ code \in Int
        BY <2>4 DEF SendDone, TypeOK, ExecTypeOK, ExitCodes, NoCode
    <3>3. /\ TaskDone(running[f], code) \in Messages
          /\ TaskDone(running[f], code).type # "YourObedientServant"
        BY <3>2, MessageTypes DEF TaskDone, Message
    <3> QED
        BY <1>5, <3>1, <3>3, RemoteFacts
  <2> QED
      BY <1>9, <2>1, <2>2, <2>3, <2>4 DEF ExecNext, ExecStep
<1>10. ASSUME NEW r \in Queues, LoseJob(r) PROVE UNCHANGED up
    BY <1>10 DEF LoseJob
<1> QED
    BY <1>2, <1>6, <1>7, <1>8, <1>9, <1>10 DEF Next, vars

(* A smaller finite set has no more elements.                              *)
LEMMA Fewer ==
    ASSUME NEW S, IsFiniteSet(S), NEW T, T \subseteq S
    PROVE  /\ IsFiniteSet(T) /\ Cardinality(T) \in Nat /\ Cardinality(S) \in Nat
           /\ Cardinality(T) <= Cardinality(S)
    BY FS_Subset, FS_CardinalityType

(* One element more, at most.                                              *)
LEMMA OneMore ==
    ASSUME NEW S, IsFiniteSet(S), NEW x
    PROVE  /\ IsFiniteSet(S \cup {x}) /\ Cardinality(S) \in Nat /\ Cardinality(S \cup {x}) \in Nat
           /\ Cardinality(S \cup {x}) <= Cardinality(S) + 1
<1>1. IsFiniteSet(S \cup {x}) /\ Cardinality(S) \in Nat
    BY FS_AddElement, FS_CardinalityType
<1>2. Cardinality(S \cup {x}) = Cardinality(S) \/ Cardinality(S \cup {x}) = Cardinality(S) + 1
    BY FS_AddElement
<1> QED
    BY <1>1, <1>2

(* An introduction that is read was the only one of its exec.              *)
LEMMA ServantRead ==
    ASSUME TypeOK, Turns, NEW e \in Execs, RecvServant(e)
    PROVE  /\ e \in Introducing(Head(up[e]).arg)
           /\ \A q \in Queues : e \notin Introducing(q)'
<1>1. /\ 1 \in 1 .. Len(up[e]) /\ up[e][1] = Head(up[e]) /\ Len(up[e]) \in Nat
      /\ Head(up[e]).type = "YourObedientServant"
      /\ \A i \in 1 .. Len(up'[e]) : i + 1 \in 2 .. Len(up[e]) /\ up'[e][i] = up[e][i + 1]
    BY Received, RemoteFacts DEF RecvServant
<1>2. \A i \in 2 .. Len(up[e]) : up[e][i].type # "YourObedientServant"
  <2> SUFFICES ASSUME NEW i \in 2 .. Len(up[e]) PROVE up[e][i].type # "YourObedientServant"
      OBVIOUS
  <2>1. i \in 1 .. Len(up[e]) /\ i # 1
      BY <1>1
  <2> QED
      BY <2>1 DEF Turns, ExecUp, Final
<1> QED
    BY <1>1, <1>2 DEF Introducing, Servants

(* update submits as many jobs as it counts.                               *)
LEMMA UpdateCounts ==
    ASSUME NEW tasks \in Nat, NEW run \in Nat, NEW pend \in [Queues -> Nat],
           jobs \in [Queues -> Nat], Update(tasks, run, pend), NEW q \in Queues
    PROVE  jobs'[q] - jobs[q] = pending'[q] - pend[q] /\ pending'[q] >= pend[q]
<1>1. /\ StartExecs(tasks, run, pend)[q] \in Nat
      /\ StartExecs(tasks, run, pend)[q] >= pend[q]
    BY StartExecsAdds
<1>2. /\ pending'[q] = StartExecs(tasks, run, pend)[q]
      /\ jobs'[q] = jobs[q] + (StartExecs(tasks, run, pend)[q] - pend[q])
    BY DEF Update
<1> QED
    BY <1>1, <1>2

(* A job that nobody has heard of yet is counted as pending.               *)
LEMMA JobsCountedStep == TypeOK /\ Turns /\ JobsCounted /\ [Next]_vars => JobsCounted'
<1> SUFFICES ASSUME TypeOK, Turns, JobsCounted, [Next]_vars, NEW q \in Queues
             PROVE  /\ IsFiniteSet(Introducing(q)')
                    /\ jobs'[q] + Cardinality(Introducing(q)') <= pending'[q]
    BY DEF JobsCounted
<1>1. /\ IsFiniteSet(Introducing(q)) /\ jobs[q] + Cardinality(Introducing(q)) <= pending[q]
      /\ Cardinality(Introducing(q)) \in Nat
    BY FS_CardinalityType DEF JobsCounted
<1>2. /\ jobs \in [Queues -> Nat] /\ pending \in [Queues -> Nat] /\ runningCount \in Nat
      /\ jobs[q] \in Nat /\ pending[q] \in Nat
    BY DEF TypeOK, FabricTypeOK, ServerTypeOK
<1>3. jobs' \in [Queues -> Nat] /\ pending' \in [Queues -> Nat] /\ jobs'[q] \in Nat /\ pending'[q] \in Nat
    BY TypeStep DEF TypeOK, FabricTypeOK, ServerTypeOK
<1>4. ASSUME Introducing(q)' \subseteq Introducing(q), jobs'[q] - jobs[q] <= pending'[q] - pending[q]
      PROVE  /\ IsFiniteSet(Introducing(q)')
             /\ jobs'[q] + Cardinality(Introducing(q)') <= pending'[q]
  <2>1. /\ IsFiniteSet(Introducing(q)') /\ Cardinality(Introducing(q)') \in Nat
        /\ Cardinality(Introducing(q)') <= Cardinality(Introducing(q))
      BY <1>1, <1>4, Fewer
  <2> QED
      BY <1>1, <1>2, <1>3, <1>4, <2>1
<1>5. CASE \E e \in Execs : RecvServant(e)
  <2>1. PICK e \in Execs : RecvServant(e)
      BY <1>5
  <2> DEFINE r == Head(up[e]).arg
  <2>2. /\ r \in Queues /\ PhonedHome(pending, r) \in [Queues -> Nat]
        /\ Update(Cardinality(taskQueue), runningCount + 1, PhonedHome(pending, r))
      BY <2>1, ServantUpdate
  <2>3. e \in Introducing(r) /\ e \notin Introducing(q)'
      BY <2>1, ServantRead
  <2>4. \A f \in Execs : ~ExecConnect(f)
      BY <2>1 DEF RecvServant, Receive, ExecConnect, Connect, ExecIsReady, Update
  <2>5. Introducing(q)' \subseteq Introducing(q)
      BY <2>4, IntroducingShrinks
  <2>6. jobs'[q] - jobs[q] = pending'[q] - PhonedHome(pending, r)[q] /\ PhonedHome(pending, r)[q] \in Nat
    <3>1. Cardinality(taskQueue) \in Nat /\ runningCount + 1 \in Nat
        BY <1>2, QueueLen DEF TypeOK, ServerTypeOK
    <3> HIDE DEF r
    <3> QED
        BY <1>2, <2>2, <3>1, UpdateCounts
  <2> HIDE DEF r
  <2>7. CASE q # r
    <3>1. PhonedHome(pending, r)[q] = pending[q]
        BY <1>2, <2>2, <2>7 DEF PhonedHome
    <3> QED
        BY <1>2, <1>3, <1>4, <2>5, <2>6, <3>1
  <2>8. CASE q = r
    <3>1. Introducing(q)' \subseteq Introducing(q) \ {e}
        BY <2>3, <2>5
    <3>2. /\ IsFiniteSet(Introducing(q) \ {e})
          /\ Cardinality(Introducing(q) \ {e}) = Cardinality(Introducing(q)) - 1
        BY <1>1, <2>3, <2>8, FS_RemoveElement
    <3>3. /\ IsFiniteSet(Introducing(q)') /\ Cardinality(Introducing(q)') \in Nat
          /\ Cardinality(Introducing(q)') <= Cardinality(Introducing(q) \ {e})
          /\ Cardinality(Introducing(q) \ {e}) \in Nat
        BY <3>1, <3>2, Fewer
    <3>4. pending[q] > 0
        BY <1>1, <1>2, <3>2, <3>3
    <3>5. PhonedHome(pending, r)[q] = pending[q] - 1
        BY <1>2, <2>2, <2>8, <3>4 DEF PhonedHome
    <3> QED
        BY <1>1, <1>2, <1>3, <2>6, <3>2, <3>3, <3>5
  <2> QED
      BY <2>7, <2>8
<1>6. CASE \E e \in Execs : ExecConnect(e) /\ UNCHANGED serverVars
  <2>1. PICK e \in Execs : ExecConnect(e) /\ UNCHANGED pending
      BY <1>6 DEF serverVars
  <2>2. PICK r \in Queues : /\ jobs[r] > 0
                            /\ jobs' = [jobs EXCEPT ![r] = @ - 1]
                            /\ Connect(e, "idle", YourObedientServant(r))
      BY <2>1 DEF ExecConnect
  <2>3. PICK m \in {YourObedientServant(r), Dropped} : up' = [up EXCEPT ![e] = <<m>>]
      BY <2>2 DEF Connect
  <2>4. /\ \A f \in Execs \ {e} : up'[f] = up[f]
        /\ up'[e] = <<m>>
      BY <2>3, RemoteFacts DEF TypeOK, FabricTypeOK
  <2>5. Len(<<m>>) = 1 /\ <<m>>[1] = m
      OBVIOUS
  <2>6. \A s \in Queues : Servants(e, s)' => s = r
      BY <2>4, <2>5 DEF Servants, YourObedientServant, Dropped, Message
  <2>7. \A f \in Execs \ {e} : Servants(f, q)' => Servants(f, q)
      BY <2>4 DEF Servants
  <2>8. CASE q # r
    <3>1. Introducing(q)' \subseteq Introducing(q)
        BY <2>6, <2>7, <2>8 DEF Introducing
    <3>2. jobs'[q] = jobs[q]
        BY <1>2, <2>2, <2>8
    <3> QED
        BY <1>2, <1>4, <2>1, <3>1, <3>2
  <2>9. CASE q = r
    <3>1. Introducing(q)' \subseteq Introducing(q) \cup {e}
        BY <2>7 DEF Introducing
    <3>2. /\ IsFiniteSet(Introducing(q) \cup {e})
          /\ Cardinality(Introducing(q) \cup {e}) <= Cardinality(Introducing(q)) + 1
        BY <1>1, OneMore
    <3>3. /\ IsFiniteSet(Introducing(q)') /\ Cardinality(Introducing(q)') \in Nat
          /\ Cardinality(Introducing(q) \cup {e}) \in Nat
          /\ Cardinality(Introducing(q)') <= Cardinality(Introducing(q) \cup {e})
        BY <3>1, <3>2, Fewer
    <3>4. jobs'[q] = jobs[q] - 1
        BY <1>2, <2>2, <2>9
    <3> QED
        BY <1>1, <1>2, <1>3, <2>1, <3>2, <3>3, <3>4
  <2> QED
      BY <2>8, <2>9
<1>7. CASE \A e \in Execs : ~RecvServant(e) /\ ~ExecConnect(e)
  <2>1. Introducing(q)' \subseteq Introducing(q)
      BY <1>7, IntroducingShrinks
  <2>2. jobs'[q] - jobs[q] <= pending'[q] - pending[q]
    <3>1. ASSUME NEW tasks \in Nat, Update(tasks, runningCount, pending)
          PROVE  jobs'[q] - jobs[q] <= pending'[q] - pending[q]
        BY <1>2, <1>3, <3>1, UpdateCounts
    <3>2. CASE ServerNext
        BY <1>2, <1>3, <1>7, <3>1, <3>2, CounterChanges
    <3>3. CASE UNCHANGED <<pc, serverVars>> /\ ~ServerNext
      <4>1. UNCHANGED pending
          BY <3>3 DEF serverVars
      <4>2. UNCHANGED jobs \/ \E r \in Queues : jobs' = [jobs EXCEPT ![r] = @ - 1]
          BY <1>7, <3>3
             DEF Next, vars, ConnEof, ConnReturn, ConnWriteError, LoseJob, ClientNext, ClientStep,
               ClientConnect, ClientRefused, ClientOutput, ClientFailed, ClientDone, ClientEof,
               ClientRead, KillClient, ExecNext, ExecStep, StartTask, StartFails,
               SendOutput, SendDone, ExecPissOff, ExecEof, ExecRead, KillExec
      <4>3. jobs'[q] = jobs[q] \/ jobs'[q] = jobs[q] - 1
          BY <1>2, <4>2
      <4> QED
          BY <1>2, <4>1, <4>3
    <3> QED
        BY <3>2, <3>3, ServerOwns
  <2> QED
      BY <1>4, <2>1, <2>2
<1>8. ASSUME NEW e \in Execs, ExecConnect(e) PROVE UNCHANGED serverVars
  <2>1. UNCHANGED pc /\ proc' # proc
      BY <1>8, RemoteFacts DEF ExecConnect, Connect, TypeOK, FabricTypeOK
  <2>2. ~ServerNext
    <3>1. ASSUME ServerNext PROVE UNCHANGED proc
        BY <3>1
           DEF ServerNext, HandleMsg, CheckQueues, Accept, RecvTask, RecvServant, RecvOutput,
             RecvDone, RecvFailed, RecvFinal, RecvDropped, Receive, Watchdog, Assign, CheckDone,
             Release, ReleaseDone, ReleaseDelayExpires, IdleDelayExpires
    <3> QED
        BY <2>1, <3>1
  <2> QED
      BY <2>2, ServerOwns
<1> QED
    BY <1>5, <1>6, <1>7, <1>8

(* An exec that introduces itself was counted as pending.                  *)
LEMMA ServantPending ==
    ASSUME TypeOK, Turns, JobsCounted, NEW e \in Execs, RecvServant(e)
    PROVE  pending[Head(up[e]).arg] > 0
<1> DEFINE q == Head(up[e]).arg
<1>1. q \in Queues /\ e \in Introducing(q)
    BY ServantUpdate, ServantRead
<1> HIDE DEF q
<1>2. IsFiniteSet(Introducing(q)) /\ jobs[q] + Cardinality(Introducing(q)) <= pending[q]
    BY <1>1 DEF JobsCounted
<1>3. Cardinality(Introducing(q)) \in Nat /\ Cardinality(Introducing(q)) # 0
    BY <1>1, <1>2, FS_CardinalityType, FS_EmptySet
<1>4. jobs[q] \in Nat /\ pending[q] \in Nat
    BY <1>1 DEF TypeOK, FabricTypeOK, ServerTypeOK
<1>5. pending[q] > 0
    BY <1>2, <1>3, <1>4
<1> QED
    BY <1>5 DEF q

(* No step takes the execs connected and asked for over max_count.         *)
LEMMA LaunchBoundStep == TypeOK /\ Turns /\ JobsCounted /\ LaunchBound /\ [Next]_vars => LaunchBound'
<1> SUFFICES ASSUME TypeOK, Turns, JobsCounted, LaunchBound, [Next]_vars PROVE LaunchBound'
    OBVIOUS
<1>1. /\ pending \in [Queues -> Nat] /\ runningCount \in Nat /\ MaxCount \in Nat
      /\ 0 \in Queues /\ 1 \in Queues /\ \A q \in Queues : q = 0 \/ q = 1
      /\ pending[0] \in Nat /\ pending[1] \in Nat
    BY ServerAssumption DEF TypeOK, ServerTypeOK, Queues
<1>2. runningCount + pending[0] + pending[1] <= MaxCount
    BY DEF LaunchBound
<1>3. CASE UNCHANGED pending /\ runningCount' \in {runningCount, runningCount - 1}
    BY <1>1, <1>2, <1>3 DEF LaunchBound
<1>4. ASSUME NEW tasks \in Nat, Update(tasks, runningCount, pending), UNCHANGED runningCount
      PROVE  LaunchBound'
  <2>1. pending' = StartExecs(tasks, runningCount, pending)
      BY <1>4 DEF Update
  <2> QED
      BY <1>1, <1>2, <1>4, <2>1, StartExecsBounds DEF LaunchBound
<1>5. ASSUME NEW e \in Execs, RecvServant(e) PROVE LaunchBound'
  <2> DEFINE q == Head(up[e]).arg
  <2>1. /\ q \in Queues /\ PhonedHome(pending, q) \in [Queues -> Nat]
        /\ pending' = StartExecs(Cardinality(taskQueue), runningCount + 1, PhonedHome(pending, q))
        /\ runningCount' = runningCount + 1
        /\ pending[q] > 0
      BY <1>5, ServantUpdate, ServantPending DEF Update
  <2> HIDE DEF q
  <2>2. \A r \in Queues : PhonedHome(pending, q)[r] = IF r = q THEN pending[r] - 1 ELSE pending[r]
      BY <1>1, <2>1 DEF PhonedHome
  <2>3. (runningCount + 1) + PhonedHome(pending, q)[0] + PhonedHome(pending, q)[1] <= MaxCount
      BY <1>1, <1>2, <2>1, <2>2
  <2>4. Cardinality(taskQueue) \in Nat /\ runningCount + 1 \in Nat
      BY <1>1, QueueLen DEF TypeOK, ServerTypeOK
  <2> QED
      BY <2>1, <2>3, <2>4, StartExecsBounds DEF LaunchBound
<1> QED
    BY <1>3, <1>4, <1>5, CounterChanges, ServerOwns DEF serverVars

(* At first there are no jobs.                                             *)
LEMMA JobsCountedInit == Init => JobsCounted
<1> SUFFICES ASSUME Init PROVE JobsCounted
    OBVIOUS
<1>1. /\ \A e \in Execs : up[e] = <<>>
      /\ \A q \in Queues : pending[q] = 0 /\ jobs[q] = 0
    BY RemoteFacts DEF Init, FabricInit, ServerInit
<1>2. \A q \in Queues : Introducing(q) = {}
  <2>1. Len(<<>>) = 0 /\ \A i \in 1 .. 0 : FALSE
      OBVIOUS
  <2> QED
      BY <1>1, <2>1 DEF Introducing, Servants
<1>3. \A q \in Queues : IsFiniteSet(Introducing(q)) /\ Cardinality(Introducing(q)) = 0
    BY <1>2, FS_EmptySet
<1> QED
    BY <1>1, <1>3 DEF JobsCounted

(* pending_exec_count of each queue covers every job that may still phone  *)
(* home to remote_is_exec, under every fault.                              *)
THEOREM PendingCounted == Spec => []PendingCovers
<1>1. JobsCounted => PendingCovers
    BY DEF JobsCounted, PendingCovers
<1> QED
    BY <1>1, JobsCountedInit, TypeInit, TypeStep, TurnsInit, TurnsStep, JobsCountedStep, PTL DEF Spec

(* max_count bounds the execs the server has and has asked for: across     *)
(* both queues, however many jobs or execs get lost or are turned away.    *)
THEOREM LaunchesLimited == Spec => []LaunchBound
<1>1. ASSUME Init PROVE LaunchBound
  <2>1. /\ \A q \in Queues : pending[q] = 0
        /\ runningCount = 0 /\ 0 \in Queues /\ 1 \in Queues
      BY <1>1 DEF Init, ServerInit, Queues
  <2> QED
      BY <2>1, ServerAssumption DEF LaunchBound
<1> QED
    BY <1>1, JobsCountedInit, TypeInit, TypeStep, TurnsInit, TurnsStep, JobsCountedStep,
       LaunchBoundStep, PTL DEF Spec

-----------------------------------------------------------------------------
(* The other direction: what is counted as pending will phone home, if no  *)
(* job gets lost on the way and no exec is turned away or dies before the  *)
(* server has read its introduction.                                       *)
NoJobLoss == {"LoseJob", "BadKey", "KillIdleExec"} \cap Faults = {}

(* An exec introduces itself once it is there, and once only.              *)
Born == \A e \in Execs : proc[e] = "none" => \A q \in Queues : ~Servants(e, q)

LEMMA NeverUnborn ==
    ASSUME TypeOK, [Next]_vars, NEW e \in Execs, proc'[e] = "none"
    PROVE  proc[e] = "none" /\ ~ExecConnect(e)
<1>0. proc \in [Remotes -> {"none", "waiting", "idle", "running", "gone"}] /\ e \in Remotes /\ e \notin Clients
    BY RemoteFacts DEF TypeOK, FabricTypeOK
<1>1. CASE UNCHANGED vars
    BY <1>0, <1>1 DEF vars, ExecConnect, Connect
<1>2. ASSUME ServerNext PROVE UNCHANGED proc
    BY <1>2
       DEF ServerNext, HandleMsg, CheckQueues, Accept, RecvTask, RecvServant, RecvOutput,
         RecvDone, RecvFailed, RecvFinal, RecvDropped, Receive, Watchdog, Assign, CheckDone,
         Release, ReleaseDone, ReleaseDelayExpires, IdleDelayExpires
<1>3. ASSUME NEW c \in Remotes, ConnEof(c) \/ ConnReturn(c) \/ ConnWriteError(c) PROVE UNCHANGED proc
    BY <1>3 DEF ConnEof, ConnReturn, ConnWriteError
<1>4. ASSUME NEW q \in Queues, LoseJob(q) PROVE UNCHANGED proc
    BY <1>4 DEF LoseJob
<1>5. ASSUME NEW c \in Clients, ClientNext(c) PROVE proc'[e] = proc[e]
    BY <1>0, <1>5 DEF ClientNext, ClientConnect, Connect, ClientStep, ClientRefused, ClientOutput, ClientFailed,
                      ClientDone, ClientEof, ClientRead, KillClient, Exit
<1>6. ASSUME NEW f \in Execs, ExecStep(f) \/ SendOutput(f) \/ KillExec(f)
      PROVE  UNCHANGED proc \/ \E v \in {"running", "idle", "gone"} : proc' = [proc EXCEPT ![f] = v]
    BY <1>6 DEF ExecStep, SendOutput, KillExec, StartTask, StartFails, SendDone, ExecPissOff,
                ExecEof, ExecRead, ExecLeaves, TaskEnds
<1>7. ASSUME NEW f \in Execs, ExecConnect(f) PROVE proc' = [proc EXCEPT ![f] = "idle"]
    BY <1>7 DEF ExecConnect, Connect
<1>8. proc[e] = "none"
    BY <1>0, <1>1, <1>2, <1>3, <1>4, <1>5, <1>6, <1>7, RemoteFacts DEF Next, ExecNext, vars
<1>9. ~ExecConnect(e)
    BY <1>0, <1>7
<1> QED
    BY <1>8, <1>9

(* Only the server takes an introduction away, by reading it.              *)
LEMMA ServantStays ==
    ASSUME NoJobLoss, TypeOK, Turns, Born, [Next]_vars, NEW e \in Execs, NEW q \in Queues, Servants(e, q),
           ~RecvServant(e)
    PROVE  Servants(e, q)'
<1>0. /\ up \in [Remotes -> Seq(Messages)] /\ up[e] \in Seq(Messages) /\ Len(up[e]) \in Nat
      /\ e \in Remotes /\ e \notin Clients
    BY RemoteFacts DEF TypeOK, FabricTypeOK
<1>1. /\ 1 \in 1 .. Len(up[e]) /\ up[e][1].type = "YourObedientServant" /\ up[e][1].arg = q
      /\ pairedId[e] = None /\ down[e] = <<>> /\ proc[e] # "none"
  <2>1. PICK i \in 1 .. Len(up[e]) : up[e][i].type = "YourObedientServant" /\ up[e][i].arg = q
      BY DEF Servants
  <2>2. i = 1 /\ pairedId[e] = None /\ down[e] = <<>>
      BY <2>1 DEF Turns, ExecUp, Final
  <2> QED
      BY <2>1, <2>2 DEF Born
<1>2. up[e] # <<>> /\ Head(up[e]) = up[e][1]
    BY <1>0, <1>1
<1>3. ASSUME up'[e] = up[e] PROVE Servants(e, q)'
    BY <1>3 DEF Servants
<1>4. ASSUME NEW m, up'[e] = Append(up[e], m) PROVE Servants(e, q)'
  <2>1. Len(up'[e]) = Len(up[e]) + 1 /\ up'[e][1] = up[e][1]
      BY <1>0, <1>1, <1>4
  <2>2. 1 \in 1 .. Len(up'[e])
      BY <1>0, <2>1
  <2> QED
      BY <1>1, <2>1, <2>2 DEF Servants
<1>5. ASSUME NEW x \in Remotes, NEW m, up' = [up EXCEPT ![x] = Append(@, m)] PROVE Servants(e, q)'
  <2>1. up'[e] = up[e] \/ up'[e] = Append(up[e], m)
      BY <1>0, <1>5
  <2> QED
      BY <1>3, <1>4, <2>1
<1>6. ASSUME NEW x \in Remotes, x # e, LoseTail(x) \/ \E type : Receive(x, type) PROVE Servants(e, q)'
  <2>1. up'[e] = up[e]
      BY <1>0, <1>6 DEF LoseTail, Receive
  <2> QED
      BY <1>3, <2>1
<1>7. \A type : Receive(e, type) => type = "YourObedientServant"
    BY <1>1, <1>2 DEF Receive
<1>8. CASE ServerNext
  <2>1. ASSUME NEW x \in Remotes, HandleMsg(x) PROVE x # e /\ \E type : Receive(x, type)
      BY <1>0, <1>7, <2>1, RemoteFacts
         DEF HandleMsg, RecvTask, RecvServant, RecvOutput, RecvDone, RecvFailed, RecvFinal, RecvDropped
  <2>2. ASSUME \A x \in Remotes : ~HandleMsg(x) PROVE UNCHANGED up
      BY <1>8, <2>2
         DEF ServerNext, CheckQueues, Accept, Watchdog, Assign, CheckDone, Release, ReleaseDone,
           ReleaseDelayExpires, IdleDelayExpires
  <2> QED
      BY <1>3, <1>6, <2>1, <2>2
<1>9. ASSUME NEW x \in Remotes, ConnEof(x) \/ ConnReturn(x) \/ ConnWriteError(x) PROVE Servants(e, q)'
  <2>1. CASE ConnEof(x)
      BY <1>5, <2>1 DEF ConnEof
  <2>2. CASE ConnReturn(x)
      BY <1>3, <2>2 DEF ConnReturn
  <2>3. CASE ConnWriteError(x)
      BY <1>1, <1>6, <2>3 DEF ConnWriteError
  <2> QED
      BY <1>9, <2>1, <2>2, <2>3
<1>10. ASSUME NEW r \in Queues, LoseJob(r) PROVE Servants(e, q)'
    BY <1>3, <1>10 DEF LoseJob
<1>11. ASSUME NEW c \in Clients, ClientNext(c) PROVE Servants(e, q)'
  <2>1. ASSUME ClientConnect(c) PROVE up'[e] = up[e]
      BY <1>0, <2>1 DEF ClientConnect, Connect
  <2>2. ASSUME ~ClientConnect(c) PROVE UNCHANGED up \/ LoseTail(c)
      BY <1>11, <2>2 DEF ClientNext, ClientStep, ClientRefused, ClientOutput, ClientFailed,
                        ClientDone, ClientEof, ClientRead, KillClient
  <2> QED
      BY <1>0, <1>3, <1>6, <2>1, <2>2, RemoteFacts
<1>12. ASSUME NEW f \in Execs, ExecNext(f) PROVE Servants(e, q)'
  <2>1. CASE StartTask(f) \/ ExecPissOff(f) \/ ExecEof(f)
      BY <1>3, <2>1 DEF StartTask, ExecPissOff, ExecEof
  <2>2. CASE StartFails(f) \/ SendOutput(f) \/ SendDone(f)
      BY <1>5, <2>2, RemoteFacts DEF StartFails, SendOutput, SendDone
  <2>3. CASE KillExec(f)
    <3>1. proc[f] = "running"
        BY <2>3 DEF KillExec, NoJobLoss
    <3>2. running[f] = pairedId[f] /\ running[f] \in Clients
        BY <3>1 DEF Turns, ExecPaired, TypeOK, ExecTypeOK
    <3>3. f # e
        BY <1>1, <3>2, RemoteFacts, FabricAssumption DEF Remotes
    <3> QED
        BY <1>6, <2>3, <3>3, RemoteFacts DEF KillExec
  <2>4. CASE ExecConnect(f)
    <3>1. f # e
        BY <1>1, <2>4 DEF ExecConnect, Connect
    <3>2. up'[e] = up[e]
        BY <1>0, <2>4, <3>1 DEF ExecConnect, Connect
    <3> QED
        BY <1>3, <3>2
  <2> QED
      BY <1>12, <2>1, <2>2, <2>3, <2>4 DEF ExecNext, ExecStep
<1> QED
    BY <1>3, <1>8, <1>9, <1>10, <1>11, <1>12 DEF Next, vars

(* No introduction without an exec.                                        *)
LEMMA BornStep == TypeOK /\ Born /\ [Next]_vars => Born'
<1> SUFFICES ASSUME TypeOK, Born, [Next]_vars, NEW e \in Execs, proc'[e] = "none", NEW q \in Queues
             PROVE  ~Servants(e, q)'
    BY DEF Born
<1>1. proc[e] = "none" /\ ~ExecConnect(e) /\ ~Servants(e, q)
    BY NeverUnborn DEF Born
<1>2. CASE \A f \in Execs : ~ExecConnect(f)
    BY <1>1, <1>2, IntroducingShrinks DEF Introducing
<1>3. ASSUME NEW f \in Execs, ExecConnect(f) PROVE ~Servants(e, q)'
  <2>1. f # e
      BY <1>1, <1>3
  <2>2. up'[e] = up[e]
      BY <1>3, <2>1, RemoteFacts DEF ExecConnect, Connect, TypeOK, FabricTypeOK
  <2> QED
      BY <1>1, <2>2 DEF Servants
<1> QED
    BY <1>2, <1>3

(* Every step keeps the equation, for each of the two queues.              *)
LEMMA PendingExactStep ==
    ASSUME NoJobLoss
    PROVE  TypeOK /\ Turns /\ JobsCounted /\ Born /\ PendingExact /\ [Next]_vars => PendingExact'
<1> SUFFICES ASSUME TypeOK, Turns, JobsCounted, Born, PendingExact, [Next]_vars, NEW q \in Queues
             PROVE  pending'[q] = jobs'[q] + Cardinality(Introducing(q)')
    BY DEF PendingExact
<1>1. /\ IsFiniteSet(Introducing(q)) /\ pending[q] = jobs[q] + Cardinality(Introducing(q))
      /\ Cardinality(Introducing(q)) \in Nat
    BY FS_CardinalityType DEF JobsCounted, PendingExact
<1>2. /\ jobs \in [Queues -> Nat] /\ pending \in [Queues -> Nat] /\ runningCount \in Nat
      /\ jobs[q] \in Nat /\ pending[q] \in Nat
    BY DEF TypeOK, FabricTypeOK, ServerTypeOK
<1>3. jobs' \in [Queues -> Nat] /\ pending' \in [Queues -> Nat] /\ jobs'[q] \in Nat /\ pending'[q] \in Nat
    BY TypeStep DEF TypeOK, FabricTypeOK, ServerTypeOK
<1>4. ASSUME Introducing(q)' = Introducing(q), jobs'[q] - jobs[q] = pending'[q] - pending[q]
      PROVE  pending'[q] = jobs'[q] + Cardinality(Introducing(q)')
    BY <1>1, <1>2, <1>3, <1>4
<1>5. ASSUME NEW e \in Execs, RecvServant(e) PROVE pending'[q] = jobs'[q] + Cardinality(Introducing(q)')
  <2> DEFINE r == Head(up[e]).arg
  <2>1. /\ r \in Queues /\ PhonedHome(pending, r) \in [Queues -> Nat] /\ pending[r] > 0
        /\ Update(Cardinality(taskQueue), runningCount + 1, PhonedHome(pending, r))
      BY <1>5, ServantUpdate, ServantPending
  <2>2. e \in Introducing(r) /\ e \notin Introducing(q)'
      BY <1>5, ServantRead
  <2>3. q # r => e \notin Introducing(q)
    <3>1. \A i \in 1 .. Len(up[e]) : up[e][i].type = "YourObedientServant" => i = 1
        BY DEF Turns, ExecUp, Final
    <3>2. up[e][1] = Head(up[e])
        BY <1>5, Received, RemoteFacts DEF RecvServant
    <3> QED
        BY <3>1, <3>2 DEF Introducing, Servants
  <2>4. \A f \in Execs \ {e} : up'[f] = up[f]
      BY <1>5, Received, RemoteFacts DEF RecvServant
  <2>5. \A f \in Execs \ {e} : f \in Introducing(q)' <=> f \in Introducing(q)
      BY <2>4 DEF Introducing, Servants
  <2>6. Introducing(q)' = Introducing(q) \ {e}
      BY <2>2, <2>5 DEF Introducing
  <2>7. jobs'[q] - jobs[q] = pending'[q] - PhonedHome(pending, r)[q] /\ PhonedHome(pending, r)[q] \in Nat
    <3>1. Cardinality(taskQueue) \in Nat /\ runningCount + 1 \in Nat
        BY <1>2, QueueLen DEF TypeOK, ServerTypeOK
    <3> HIDE DEF r
    <3> QED
        BY <1>2, <2>1, <3>1, UpdateCounts
  <2> HIDE DEF r
  <2>8. CASE q # r
    <3>1. PhonedHome(pending, r)[q] = pending[q]
        BY <1>2, <2>1, <2>8 DEF PhonedHome
    <3>2. Introducing(q)' = Introducing(q)
        BY <2>3, <2>6, <2>8
    <3> QED
        BY <1>4, <2>7, <3>1, <3>2
  <2>9. CASE q = r
    <3>1. Cardinality(Introducing(q)') = Cardinality(Introducing(q)) - 1
        BY <1>1, <2>2, <2>6, <2>9, FS_RemoveElement
    <3>2. PhonedHome(pending, r)[q] = pending[q] - 1
        BY <1>2, <2>1, <2>9 DEF PhonedHome
    <3> QED
        BY <1>1, <1>2, <1>3, <2>7, <3>1, <3>2
  <2> QED
      BY <2>8, <2>9
<1>6. ASSUME NEW e \in Execs, ExecConnect(e), UNCHANGED pending
      PROVE  pending'[q] = jobs'[q] + Cardinality(Introducing(q)')
  <2>1. PICK r \in Queues : /\ jobs[r] > 0
                            /\ jobs' = [jobs EXCEPT ![r] = @ - 1]
                            /\ Connect(e, "idle", YourObedientServant(r))
      BY <1>6 DEF ExecConnect
  <2>2. up' = [up EXCEPT ![e] = <<YourObedientServant(r)>>] /\ proc[e] = "none"
      BY <2>1 DEF Connect, NoJobLoss
  <2>3. /\ \A f \in Execs \ {e} : up'[f] = up[f]
        /\ up'[e] = <<YourObedientServant(r)>>
      BY <2>2, RemoteFacts DEF TypeOK, FabricTypeOK
  <2>4. Servants(e, q)' <=> q = r
    <3>1. PICK m : m = YourObedientServant(r)
        OBVIOUS
    <3>2. m.type = "YourObedientServant" /\ m.arg = r
        BY <3>1 DEF YourObedientServant, Message
    <3>3. Len(<<m>>) = 1 /\ <<m>>[1] = m /\ 1 \in 1 .. 1
        OBVIOUS
    <3> QED
        BY <2>3, <3>1, <3>2, <3>3 DEF Servants
  <2>5. \A f \in Execs \ {e} : f \in Introducing(q)' <=> f \in Introducing(q)
      BY <2>3 DEF Introducing, Servants
  <2>6. e \notin Introducing(q)
      BY <2>2 DEF Born, Introducing
  <2>7. CASE q # r
    <3>1. Introducing(q)' = Introducing(q)
        BY <2>4, <2>5, <2>6, <2>7 DEF Introducing
    <3>2. jobs'[q] = jobs[q]
        BY <1>2, <2>1, <2>7
    <3> QED
        BY <1>1, <1>6, <3>1, <3>2
  <2>8. CASE q = r
    <3>1. Introducing(q)' = Introducing(q) \cup {e}
        BY <2>4, <2>5, <2>8 DEF Introducing
    <3>2. Cardinality(Introducing(q)') = Cardinality(Introducing(q)) + 1
        BY <1>1, <2>6, <3>1, FS_AddElement
    <3>3. jobs'[q] = jobs[q] - 1
        BY <1>2, <2>1, <2>8
    <3> QED
        BY <1>1, <1>2, <1>3, <1>6, <3>2, <3>3
  <2> QED
      BY <2>7, <2>8
<1>7. CASE \A e \in Execs : ~RecvServant(e) /\ ~ExecConnect(e)
  <2>1. Introducing(q)' = Introducing(q)
    <3>1. Introducing(q)' \subseteq Introducing(q)
        BY <1>7, IntroducingShrinks
    <3>2. Introducing(q) \subseteq Introducing(q)'
        BY <1>7, ServantStays DEF Introducing
    <3> QED
        BY <3>1, <3>2
  <2>2. jobs'[q] - jobs[q] = pending'[q] - pending[q]
    <3>1. ASSUME NEW tasks \in Nat, Update(tasks, runningCount, pending)
          PROVE  jobs'[q] - jobs[q] = pending'[q] - pending[q]
        BY <1>2, <1>3, <3>1, UpdateCounts
    <3>2. CASE ServerNext
        BY <1>2, <1>3, <1>7, <3>1, <3>2, CounterChanges
    <3>3. CASE UNCHANGED <<pc, serverVars>> /\ ~ServerNext
      <4>1. UNCHANGED pending
          BY <3>3 DEF serverVars
      <4>2. UNCHANGED jobs
          BY <1>7, <3>3
             DEF Next, vars, ConnEof, ConnReturn, ConnWriteError, LoseJob, ClientNext, ClientStep,
               ClientConnect, ClientRefused, ClientOutput, ClientFailed, ClientDone, ClientEof,
               ClientRead, KillClient, ExecNext, ExecStep, StartTask, StartFails,
               SendOutput, SendDone, ExecPissOff, ExecEof, ExecRead, KillExec, NoJobLoss
      <4> QED
          BY <1>2, <4>1, <4>2
    <3> QED
        BY <3>2, <3>3, ServerOwns
  <2> QED
      BY <1>4, <2>1, <2>2
<1>8. ASSUME NEW e \in Execs, ExecConnect(e) PROVE UNCHANGED pending
  <2>1. proc' # proc
      BY <1>8, RemoteFacts DEF ExecConnect, Connect, TypeOK, FabricTypeOK
  <2>2. ASSUME ServerNext PROVE UNCHANGED proc
      BY <2>2
         DEF ServerNext, HandleMsg, CheckQueues, Accept, RecvTask, RecvServant, RecvOutput,
           RecvDone, RecvFailed, RecvFinal, RecvDropped, Receive, Watchdog, Assign, CheckDone,
           Release, ReleaseDone, ReleaseDelayExpires, IdleDelayExpires
  <2> QED
      BY <2>1, <2>2, ServerOwns DEF serverVars
<1> QED
    BY <1>5, <1>6, <1>7, <1>8

(* pending_exec_count of each queue is the number of jobs that will phone  *)
(* home, for any number of execs, clients and limits: unless a job is lost *)
(* or turned away, start_execs never holds back an exec for a job that     *)
(* will not come.                                                          *)
THEOREM PendingCorrect ==
    ASSUME NoJobLoss
    PROVE  Spec => []PendingExact
<1>1. Init => Born /\ PendingExact
  <2> SUFFICES ASSUME Init PROVE Born /\ PendingExact
      OBVIOUS
  <2>1. /\ \A e \in Execs : up[e] = <<>>
        /\ \A q \in Queues : pending[q] = 0 /\ jobs[q] = 0
      BY RemoteFacts DEF Init, FabricInit, ServerInit
  <2>2. Len(<<>>) = 0 /\ \A i \in 1 .. 0 : FALSE
      OBVIOUS
  <2>3. \A e \in Execs : \A q \in Queues : ~Servants(e, q)
      BY <2>1, <2>2 DEF Servants
  <2>4. \A q \in Queues : Introducing(q) = {} /\ Cardinality(Introducing(q)) = 0
      BY <2>3, FS_EmptySet DEF Introducing
  <2> QED
      BY <2>1, <2>3, <2>4 DEF Born, PendingExact
<1>2. TypeOK /\ Turns /\ JobsCounted /\ Born /\ PendingExact /\ [Next]_vars => PendingExact'
    BY PendingExactStep
<1> QED
    BY <1>1, <1>2, JobsCountedInit, TypeInit, TypeStep, TurnsInit, TurnsStep, JobsCountedStep, BornStep,
       PTL DEF Spec

-----------------------------------------------------------------------------
(* Execs with a task, as the server sees it.                               *)
PairedExecs == {e \in Execs : pairedId[e] # None}

(* StatusNoUnderflow is not inductive: every final message adds to         *)
(* finish_count.  It comes from an exec with a task of its own, which is   *)
(* neither finished nor in the queue.                                      *)
TasksCounted ==
    /\ IsFiniteSet(PairedExecs)
    /\ finishCount + Cardinality(taskQueue) + Cardinality(PairedExecs) <= submitCount

(* A task is counted once, wherever it is.                                 *)
LEMMA TasksCountedStep == TypeOK /\ Turns /\ TasksCounted /\ [Next]_vars => TasksCounted'
<1> SUFFICES ASSUME TypeOK, Turns, TasksCounted, [Next]_vars PROVE TasksCounted'
    OBVIOUS
<1>1. /\ IsFiniteSet(PairedExecs) /\ Cardinality(PairedExecs) \in Nat
      /\ IsFiniteSet(taskQueue) /\ Cardinality(taskQueue) \in Nat
      /\ finishCount \in Nat /\ submitCount \in Nat
      /\ finishCount + Cardinality(taskQueue) + Cardinality(PairedExecs) <= submitCount
  <2>1. IsFiniteSet(taskQueue)
      BY FS_Subset, ServerAssumption DEF TypeOK, ServerTypeOK
  <2> QED
      BY <2>1, FS_CardinalityType DEF TasksCounted, TypeOK, ServerTypeOK
<1>2. CASE UNCHANGED <<pairedId, taskQueue, finishCount, submitCount>>
    BY <1>2 DEF TasksCounted, PairedExecs
<1>3. ASSUME NEW c \in Remotes, Accept(c) PROVE TasksCounted'
  <2>1. pairedId[c] = None
      BY <1>3, RemoteFacts DEF Accept, Turns, ExecPaired, ClientTurn
  <2>2. pairedId' = pairedId
      BY <1>3, <2>1 DEF Accept, TypeOK, ServerTypeOK
  <2> QED
      BY <1>2, <1>3, <2>2 DEF Accept
<1>4. ASSUME NEW c \in Clients, RecvTask(c) PROVE TasksCounted'
  <2>1. /\ taskQueue' = taskQueue \cup {c} /\ submitCount' = submitCount + 1
        /\ UNCHANGED <<pairedId, finishCount>>
      BY <1>4 DEF RecvTask
  <2>2. Cardinality(taskQueue') <= Cardinality(taskQueue) + 1 /\ Cardinality(taskQueue') \in Nat
      BY <1>1, <2>1, OneMore
  <2>3. PairedExecs' = PairedExecs
      BY <2>1 DEF PairedExecs
  <2> QED
      BY <1>1, <2>1, <2>2, <2>3 DEF TasksCounted
<1>5. ASSUME NEW e \in Execs, RecvServant(e) PROVE TasksCounted'
  <2>1. /\ pairedId' = [pairedId EXCEPT ![e] = None]
        /\ UNCHANGED <<taskQueue, finishCount, submitCount>>
      BY <1>5 DEF RecvServant, ExecIsReady, Unpair
  <2>2. PairedExecs' \subseteq PairedExecs
      BY <2>1, RemoteFacts DEF PairedExecs, TypeOK, ServerTypeOK
  <2>3. /\ IsFiniteSet(PairedExecs') /\ Cardinality(PairedExecs') \in Nat
        /\ Cardinality(PairedExecs') <= Cardinality(PairedExecs)
      BY <1>1, <2>2, Fewer
  <2> QED
      BY <1>1, <2>1, <2>3 DEF TasksCounted
<1>6. ASSUME NEW e \in Execs, RecvDone(e) \/ RecvFailed(e) PROVE TasksCounted'
  <2>1. PICK type \in Final : RecvFinal(e, type)
      BY <1>6 DEF RecvDone, RecvFailed, Final
  <2>2. e \in PairedExecs
      BY <2>1, ResultFacts DEF RecvFinal, Results, PairedExecs
  <2>3. /\ pairedId' = [pairedId EXCEPT ![e] = None] /\ finishCount' = finishCount + 1
        /\ UNCHANGED <<taskQueue, submitCount>>
      BY <2>1, <2>2 DEF RecvFinal, ExecIsReady, Unpair, PairedExecs
  <2>4. PairedExecs' = PairedExecs \ {e}
      BY <2>3, RemoteFacts DEF PairedExecs, TypeOK, ServerTypeOK
  <2>5. /\ IsFiniteSet(PairedExecs')
        /\ Cardinality(PairedExecs') = Cardinality(PairedExecs) - 1
      BY <1>1, <2>2, <2>4, FS_RemoveElement
  <2> QED
      BY <1>1, <2>3, <2>5 DEF TasksCounted
<1>7. ASSUME NEW c \in Clients, Assign(c) PROVE TasksCounted'
  <2> DEFINE e == Head(execQueue)
  <2>1. e \in Execs /\ pairedId' = [pairedId EXCEPT ![c] = e, ![e] = c]
      BY <1>7, AssignFacts DEF Assign
  <2>2. /\ c \in taskQueue /\ taskQueue' = taskQueue \ {c}
        /\ UNCHANGED <<finishCount, submitCount>>
      BY <1>7 DEF Assign, PopTask
  <2> HIDE DEF e
  <2>3. PairedExecs' \subseteq PairedExecs \cup {e}
      BY <2>1, RemoteFacts DEF PairedExecs, TypeOK, ServerTypeOK
  <2>4. /\ IsFiniteSet(PairedExecs \cup {e})
        /\ Cardinality(PairedExecs \cup {e}) <= Cardinality(PairedExecs) + 1
      BY <1>1, OneMore
  <2>5. /\ IsFiniteSet(PairedExecs') /\ Cardinality(PairedExecs') \in Nat
        /\ Cardinality(PairedExecs \cup {e}) \in Nat
        /\ Cardinality(PairedExecs') <= Cardinality(PairedExecs \cup {e})
      BY <2>3, <2>4, Fewer
  <2>6. Cardinality(taskQueue') = Cardinality(taskQueue) - 1
      BY <1>1, <2>2, FS_RemoveElement
  <2> QED
      BY <1>1, <2>2, <2>4, <2>5, <2>6 DEF TasksCounted
<1>8. ASSUME NEW c \in Remotes, RecvDropped(c) \/ (c \in Execs /\ RecvOutput(c)) PROVE TasksCounted'
    BY <1>2, <1>8 DEF RecvDropped, RecvOutput
<1>9. ASSUME Watchdog \/ CheckDone \/ Release \/ ReleaseDone \/ ReleaseDelayExpires \/ IdleDelayExpires
      PROVE  TasksCounted'
    BY <1>2, <1>9 DEF Watchdog, CheckDone, Release, ReleaseDone, ReleaseDelayExpires, IdleDelayExpires
<1>10. CASE ServerNext
    BY <1>3, <1>4, <1>5, <1>6, <1>7, <1>8, <1>9, <1>10 DEF ServerNext, HandleMsg, CheckQueues
<1>11. CASE UNCHANGED <<pc, serverVars>>
    BY <1>2, <1>11 DEF serverVars
<1> QED
    BY <1>10, <1>11, ServerOwns

(* report_status can subtract the finished and the queued tasks from the   *)
(* submitted ones, whatever dies or is answered in between.                *)
THEOREM StatusSafe == Spec => []StatusNoUnderflow
<1>1. ASSUME Init PROVE TasksCounted
  <2>1. /\ \A e \in Execs : pairedId[e] = None
        /\ taskQueue = {} /\ finishCount = 0 /\ submitCount = 0
      BY <1>1, RemoteFacts DEF Init, ServerInit
  <2>2. PairedExecs = {}
      BY <2>1 DEF PairedExecs
  <2> QED
      BY <2>1, <2>2, FS_EmptySet DEF TasksCounted
<1>2. ASSUME TypeOK, TasksCounted PROVE StatusNoUnderflow
  <2>1. /\ Cardinality(PairedExecs) \in Nat /\ Cardinality(taskQueue) \in Nat
        /\ finishCount \in Nat /\ submitCount \in Nat
      BY <1>2, QueueLen, FS_CardinalityType DEF TasksCounted, TypeOK, ServerTypeOK
  <2> QED
      BY <1>2, <2>1 DEF TasksCounted, StatusNoUnderflow
<1> QED
    BY <1>1, <1>2, TypeInit, TypeStep, TurnsInit, TurnsStep, TasksCountedStep, PTL DEF Spec

-----------------------------------------------------------------------------
(* Execs that do not die while they wait.                                  *)

NoIdleDeath == "KillIdleExec" \notin Faults

-----------------------------------------------------------------------------
(* An exec that owes nothing but its presence is present: whoever waits in *)
(* exec_queue, or will when its messages have been read, is idle; and it   *)
(* is the server that ends its connection, with PissOff.                   *)

Said(e, T) == \E i \in 1 .. Len(up[e]) : up[e][i].type \in T

Owes(e) == InQueue(e) \/ Said(e, Final \cup {"YourObedientServant"})

Waiting(e) ==
    /\ Owes(e) => proc[e] = "idle"
    /\ InQueue(e) => connType[e] = "Exec"
    /\ pairedId[e] # None /\ proc[e] # "gone" => connType[e] = "Exec"
    /\ Said(e, {"YourObedientServant"}) => connType[e] # "Exec"

Waits == ServerUp => \A e \in Execs : Waiting(e)

(* Reading and dying leave no new message.                                 *)
LEMMA SaidLess ==
    ASSUME TypeOK, NEW e \in Execs, NEW T,
           \/ Shrinks(up[e], up'[e])
           \/ \E m \in Messages : m.type \notin T /\ up'[e] = Append(up[e], m),
           Said(e, T)'
    PROVE  Said(e, T)
<1>1. up[e] \in Seq(Messages) /\ Len(up[e]) \in Nat
    BY RemoteFacts DEF TypeOK, FabricTypeOK
<1>2. PICK i \in 1 .. Len(up'[e]) : up'[e][i].type \in T
    BY DEF Said
<1>3. CASE Shrinks(up[e], up'[e])
  <2>1. PICK d \in {0, 1} : /\ Len(up'[e]) + d <= Len(up[e])
                            /\ \A j \in 1 .. Len(up'[e]) : up'[e][j] = up[e][j + d]
      BY <1>3 DEF Shrinks
  <2>2. i + d \in 1 .. Len(up[e]) /\ up'[e][i] = up[e][i + d]
      BY <1>1, <2>1
  <2> QED
      BY <1>2, <2>2 DEF Said
<1>4. ASSUME NEW m \in Messages, m.type \notin T, up'[e] = Append(up[e], m)
      PROVE  Said(e, T)
  <2>1. /\ Len(up'[e]) = Len(up[e]) + 1 /\ up'[e][Len(up[e]) + 1] = m
        /\ \A j \in 1 .. Len(up[e]) : up'[e][j] = up[e][j]
      BY <1>1, <1>4, AppendFacts
  <2>2. i \in 1 .. Len(up[e]) \/ i = Len(up[e]) + 1
      BY <1>1, <2>1
  <2> QED
      BY <1>2, <1>4, <2>1, <2>2 DEF Said
<1> QED
    BY <1>3, <1>4

(* Which handler does what to the server's view of an exec.                *)
LEMMA ExecChanges ==
    ASSUME TypeOK, Turns, ServerNext, NEW e \in Execs
    PROVE  /\ ServerUp /\ UNCHANGED proc
           /\ InQueue(e)' => InQueue(e) \/ RecvServant(e) \/ RecvDone(e) \/ RecvFailed(e)
           /\ pairedId'[e] # None => pairedId[e] # None \/ InQueue(e)
           /\ connType'[e] # connType[e] =>
                 \/ Accept(e) \/ RecvServant(e) \/ RecvDropped(e)
                 \/ Release /\ e = Head(execQueue)
<1>0. /\ pairedId \in [Remotes -> Remotes \cup {None}] /\ e \in Remotes /\ e \notin Clients /\ e # None
      /\ connType \in [Remotes -> {"none", "Pending", "Client", "Exec", "Dead"}]
    BY RemoteFacts DEF TypeOK, ServerTypeOK
<1>1. ServerUp /\ UNCHANGED proc
    BY DEF ServerNext, HandleMsg, CheckQueues, RecvTask, RecvServant, RecvOutput, RecvDone,
           RecvFailed, RecvFinal, RecvDropped, Receive, Watchdog, Assign, CheckDone, Release,
           ReleaseDone, ReleaseDelayExpires, IdleDelayExpires, Accept, ServerUp
<1> DEFINE Goal == /\ InQueue(e)' => InQueue(e) \/ RecvServant(e) \/ RecvDone(e) \/ RecvFailed(e)
                   /\ pairedId'[e] # None => pairedId[e] # None \/ InQueue(e)
                   /\ connType'[e] # connType[e] =>
                         \/ Accept(e) \/ RecvServant(e) \/ RecvDropped(e)
                         \/ Release /\ e = Head(execQueue)
<1>2. ASSUME NEW x \in Remotes, Accept(x) PROVE Goal
  <2>1. /\ pairedId' = [pairedId EXCEPT ![x] = None] /\ connType' = [connType EXCEPT ![x] = "Pending"]
        /\ UNCHANGED execQueue
      BY <1>2 DEF Accept
  <2> QED
      BY <1>0, <1>2, <2>1 DEF InQueue
<1>3. ASSUME Watchdog \/ CheckDone \/ ReleaseDone \/ ReleaseDelayExpires \/ IdleDelayExpires PROVE Goal
  <2>1. UNCHANGED <<pairedId, connType, execQueue>>
      BY <1>3 DEF Watchdog, CheckDone, ReleaseDone, ReleaseDelayExpires, IdleDelayExpires
  <2> QED
      BY <2>1 DEF InQueue
<1>4. ASSUME NEW c \in Clients, RecvTask(c) PROVE Goal
  <2>1. UNCHANGED <<pairedId, execQueue>> /\ connType' = [connType EXCEPT ![c] = "Client"]
      BY <1>4 DEF RecvTask
  <2> QED
      BY <1>0, <2>1 DEF InQueue
<1>5. ASSUME NEW c \in Clients, Assign(c) PROVE Goal
  <2>1. /\ UNCHANGED connType /\ execQueue # <<>> /\ execQueue' = Tail(execQueue)
        /\ pairedId' = [pairedId EXCEPT ![c] = Head(execQueue), ![Head(execQueue)] = c]
        /\ InQueue(Head(execQueue))
      BY <1>5, AssignFacts DEF Assign, PopExec
  <2>2. InQueue(e)' => InQueue(e)
      BY <2>1, QueueMembers
  <2> QED
      BY <1>0, <2>1, <2>2
<1>6. ASSUME Release PROVE Goal
  <2>1. /\ UNCHANGED pairedId /\ execQueue # <<>> /\ execQueue' = Tail(execQueue)
        /\ connType' = [connType EXCEPT ![Head(execQueue)] = "Dead"]
      BY <1>6 DEF Release, PopExec
  <2>2. InQueue(e)' => InQueue(e)
      BY <2>1, QueueMembers
  <2> QED
      BY <1>0, <1>6, <2>1, <2>2
<1>7. ASSUME NEW f \in Execs, RecvServant(f) PROVE Goal
  <2>1. /\ pairedId' = [pairedId EXCEPT ![f] = None] /\ connType' = [connType EXCEPT ![f] = "Exec"]
        /\ execQueue' = Append(execQueue, f)
      BY <1>7 DEF RecvServant, ExecIsReady, Unpair
  <2>2. InQueue(e)' => InQueue(e) \/ e = f
      BY <2>1, QueueMembers
  <2> QED
      BY <1>0, <1>7, <2>1, <2>2
<1>8. ASSUME NEW f \in Execs, RecvOutput(f) PROVE Goal
  <2>1. UNCHANGED <<pairedId, execQueue>> /\ (UNCHANGED connType \/ SendToPaired(f, Head(up[f])))
      BY <1>8 DEF RecvOutput
  <2>2. connType'[e] # connType[e] => connType[e] = "Client" /\ connType'[e] = "Dead" /\ pairedId[f] = e
      BY <1>0, <2>1 DEF SendToPaired
  <2>3. pairedId[f] # e
      BY <1>0 DEF TypeOK, ServerTypeOK
  <2> QED
      BY <2>1, <2>2, <2>3 DEF InQueue
<1>9. ASSUME NEW f \in Execs, RecvDone(f) \/ RecvFailed(f) PROVE Goal
  <2>1. /\ (UNCHANGED pairedId \/ pairedId' = [pairedId EXCEPT ![f] = None])
        /\ (UNCHANGED execQueue \/ execQueue' = Append(execQueue, f))
        /\ (UNCHANGED connType \/ SendToPaired(f, Head(up[f])))
      BY <1>9 DEF RecvDone, RecvFailed, RecvFinal, ExecIsReady, Unpair
  <2>2. connType'[e] # connType[e] => pairedId[f] = e
      BY <1>0, <2>1 DEF SendToPaired
  <2>3. pairedId[f] # e
      BY <1>0 DEF TypeOK, ServerTypeOK
  <2>4. InQueue(e)' => InQueue(e) \/ e = f
    <3>1. CASE UNCHANGED execQueue
        BY <3>1 DEF InQueue
    <3>2. CASE execQueue' = Append(execQueue, f)
        BY <3>2, QueueMembers
    <3> QED
        BY <2>1, <3>1, <3>2
  <2> QED
      BY <1>0, <1>9, <2>1, <2>2, <2>3, <2>4
<1>10. ASSUME NEW x \in Remotes, RecvDropped(x) PROVE Goal
  <2>1. UNCHANGED <<pairedId, execQueue>>
        /\ (UNCHANGED connType \/ connType' = [connType EXCEPT ![x] = "Dead"])
      BY <1>10 DEF RecvDropped
  <2> QED
      BY <1>0, <1>10, <2>1 DEF InQueue
<1> QED
    BY <1>1, <1>2, <1>3, <1>4, <1>5, <1>6, <1>7, <1>8, <1>9, <1>10 DEF ServerNext, HandleMsg, CheckQueues

LEMMA WaitsServer ==
    ASSUME TypeOK, Turns, Ends, Waits, ServerNext, NEW e \in Execs
    PROVE  Waiting(e)'
<1>0. /\ Waiting(e) /\ ServerUp /\ UNCHANGED proc /\ e \in Remotes /\ e # None /\ e \notin Clients
      /\ connType \in [Remotes -> {"none", "Pending", "Client", "Exec", "Dead"}]
      /\ up[e] \in Seq(Messages) /\ Len(up[e]) \in Nat
      /\ pairedId \in [Remotes -> Remotes \cup {None}]
    BY ExecChanges, RemoteFacts DEF Waits, TypeOK, ServerTypeOK, FabricTypeOK
<1>1. Shrinks(up[e], up'[e])
    BY <1>0, ServerReads, Received, SameBuffers
<1>2. ASSUME NEW T, Said(e, T)' PROVE Said(e, T)
    BY <1>1, <1>2, SaidLess
<1>3. ASSUME NEW type, Receive(e, type) PROVE Said(e, {type})
  <2>1. 1 \in 1 .. Len(up[e]) /\ up[e][1].type = type
      BY <1>0, <1>3, Received
  <2> QED
      BY <2>1 DEF Said
<1>4. ASSUME RecvServant(e) \/ RecvDone(e) \/ RecvFailed(e) PROVE proc[e] = "idle"
  <2>1. PICK type \in Final \cup {"YourObedientServant"} : Receive(e, type)
      BY <1>4 DEF RecvServant, RecvDone, RecvFailed, RecvFinal, Final
  <2> QED
      BY <1>0, <1>3, <2>1 DEF Waiting, Owes, Said
<1>5. Owes(e)' => proc'[e] = "idle"
  <2>1. Said(e, Final \cup {"YourObedientServant"})' => Said(e, Final \cup {"YourObedientServant"})
      BY <1>2
  <2> QED
      BY <1>0, <1>4, <2>1, ExecChanges DEF Waiting, Owes
<1>6. ASSUME RecvServant(e)
      PROVE  connType'[e] = "Exec" /\ ~Said(e, {"YourObedientServant"})'
  <2>1. connType'[e] = "Exec" /\ Receive(e, "YourObedientServant")
      BY <1>0, <1>6 DEF RecvServant
  <2>2. \A i \in 1 .. Len(up'[e]) : i + 1 \in 2 .. Len(up[e]) /\ up'[e][i] = up[e][i + 1]
      BY <1>0, <2>1, Received
  <2>3. \A i \in 2 .. Len(up[e]) : up[e][i].type # "YourObedientServant"
    <3>1. ASSUME NEW i \in 1 .. Len(up[e]), up[e][i].type = "YourObedientServant" PROVE i = 1
        BY <3>1 DEF Turns, ExecUp, Final
    <3> QED
        BY <1>0, <3>1
  <2> QED
      BY <2>1, <2>2, <2>3 DEF Said
<1>7. ASSUME RecvDone(e) \/ RecvFailed(e) PROVE connType[e] = "Exec"
  <2>1. PICK type \in Final : Receive(e, type)
      BY <1>7 DEF RecvDone, RecvFailed, RecvFinal, Final
  <2>2. pairedId[e] # None
      BY <2>1, ResultFacts DEF Results
  <2> QED
      BY <1>0, <1>4, <1>7, <2>2 DEF Waiting
<1>8. ASSUME RecvDropped(e)
      PROVE  /\ pairedId'[e] # None \/ InQueue(e)' => proc[e] = "gone"
             /\ connType'[e] = "Exec" => connType[e] = "Exec"
             /\ ~InQueue(e)'
  <2>1. Receive(e, "Dropped") /\ UNCHANGED <<pairedId, execQueue>>
        /\ (UNCHANGED connType \/ connType' = [connType EXCEPT ![e] = "Dead"])
      BY <1>8 DEF RecvDropped
  <2>2. pairedId[e] # None \/ InQueue(e) => proc[e] = "gone"
      BY <1>0, <2>1, KnownDropped DEF Known
  <2>3. ~InQueue(e)
      BY <1>0, <2>2 DEF Waiting, Owes
  <2> QED
      BY <1>0, <2>1, <2>2, <2>3 DEF InQueue
<1>9. ASSUME Accept(e) PROVE pairedId'[e] = None /\ ~InQueue(e)' /\ connType'[e] = "Pending"
  <2>1. conn[e] = "backlog" /\ UNCHANGED execQueue
      BY <1>9 DEF Accept
  <2>2. ~InQueue(e)
      BY <2>1 DEF Turns, ExecPaired
  <2> QED
      BY <1>0, <1>9, <2>1, <2>2 DEF Accept, InQueue
<1>10. ASSUME Release, e = Head(execQueue)
       PROVE  pairedId'[e] = None /\ ~InQueue(e)' /\ connType'[e] = "Dead"
  <2>1. execQueue # <<>> /\ execQueue' = Tail(execQueue) /\ UNCHANGED pairedId
        /\ connType' = [connType EXCEPT ![e] = "Dead"]
      BY <1>10 DEF Release, PopExec
  <2>2. InQueue(e) /\ ~InQueue(e)'
      BY <1>10, <2>1, QueuePopped
  <2> QED
      BY <1>0, <2>1, <2>2, QueuedExec
<1>11. InQueue(e)' => connType'[e] = "Exec"
    BY <1>0, <1>6, <1>7, <1>8, <1>9, <1>10, ExecChanges DEF Waiting
<1>12. pairedId'[e] # None /\ proc'[e] # "gone" => connType'[e] = "Exec"
    BY <1>0, <1>6, <1>8, <1>9, <1>10, ExecChanges DEF Waiting
<1>13. Said(e, {"YourObedientServant"})' => connType'[e] # "Exec"
  <2>1. Said(e, {"YourObedientServant"})' => Said(e, {"YourObedientServant"})
      BY <1>2
  <2> QED
      BY <1>0, <1>6, <1>8, <1>9, <1>10, <2>1, ExecChanges DEF Waiting
<1> QED
    BY <1>5, <1>11, <1>12, <1>13 DEF Waiting


LEMMA WaitsElsewhere ==
    ASSUME NoIdleDeath, TypeOK, Turns, Ends, Waits, [Next]_vars, Elsewhere, UNCHANGED <<pc, serverVars>>,
           ServerUp, NEW e \in Execs
    PROVE  Waiting(e)'
<1> DEFINE Owed == Final \cup {"YourObedientServant"}
<1>0. /\ Waiting(e) /\ e \in Remotes /\ e # None /\ e \notin Clients
      /\ up \in [Remotes -> Seq(Messages)] /\ Len(up[e]) \in Nat
      /\ proc \in [Remotes -> {"none", "waiting", "idle", "running", "gone"}]
      /\ UNCHANGED <<connType, pairedId>> /\ (InQueue(e)' <=> InQueue(e))
      /\ (proc[e] = "gone" => proc'[e] = "gone")
    BY RemoteFacts, GoneStays DEF Waits, TypeOK, FabricTypeOK, serverVars, InQueue
<1>1. SUFFICES /\ Owes(e)' => proc'[e] = "idle"
               /\ Said(e, {"YourObedientServant"})' => connType[e] # "Exec"
    BY <1>0 DEF Waiting
<1> DEFINE Goal == /\ Owes(e)' => proc'[e] = "idle"
                   /\ Said(e, {"YourObedientServant"})' => connType[e] # "Exec"
<1>2. ASSUME \/ Shrinks(up[e], up'[e])
             \/ \E m \in Messages : m.type \notin Owed /\ up'[e] = Append(up[e], m)
      PROVE  (Owes(e)' => Owes(e)) /\ (Said(e, {"YourObedientServant"})' => connType[e] # "Exec")
  <2>1. Said(e, Owed)' => Said(e, Owed)
      BY <1>2, SaidLess
  <2>2. \A m \in Messages : m.type \notin Owed => m.type \notin {"YourObedientServant"}
      OBVIOUS
  <2>3. Said(e, {"YourObedientServant"})' => Said(e, {"YourObedientServant"})
      BY <1>2, <2>2, SaidLess
  <2> QED
      BY <1>0, <2>1, <2>3 DEF Owes, Waiting
<1>3. ASSUME up'[e] = up[e], proc'[e] = proc[e] PROVE Goal
  <2>1. Shrinks(up[e], up'[e])
      BY <1>0, <1>3, SameBuffers
  <2> QED
      BY <1>0, <1>2, <1>3, <2>1 DEF Waiting
<1>4. CASE UNCHANGED vars
    BY <1>3, <1>4 DEF vars
<1>5. ASSUME NEW x \in Remotes, ConnEof(x) \/ ConnReturn(x) \/ ConnWriteError(x) PROVE Goal
  <2>1. UNCHANGED proc
      BY <1>5 DEF ConnEof, ConnReturn, ConnWriteError
  <2>2. CASE ConnEof(x) /\ x = e
    <3>1. Dropped \in Messages /\ Dropped.type \notin Owed /\ up'[e] = Append(up[e], Dropped)
        BY <1>0, <2>2, MessageTypes DEF ConnEof, Dropped, Message, Final
    <3> QED
        BY <1>0, <1>2, <2>1, <3>1 DEF Waiting
  <2>3. CASE ConnEof(x) /\ x # e
      BY <1>0, <1>3, <2>1, <2>3 DEF ConnEof
  <2>4. CASE ConnReturn(x) \/ ConnWriteError(x)
    <3>1. up' = up \/ LoseTail(x)
        BY <2>4 DEF ConnReturn, ConnWriteError
    <3>2. Shrinks(up[e], up'[e])
        BY <1>0, <3>1, LoseTailShrinks
    <3> QED
        BY <1>0, <1>2, <2>1, <3>2 DEF Waiting
  <2> QED
      BY <1>5, <2>2, <2>3, <2>4
<1>6. ASSUME NEW q \in Queues, LoseJob(q) PROVE Goal
    BY <1>3, <1>6 DEF LoseJob
<1>7. ASSUME NEW d \in Clients, ClientNext(d) PROVE Goal
  <2>1. d # e
      BY <1>0
  <2>2. up'[e] = up[e] /\ proc'[e] = proc[e]
      BY <1>0, <1>7, <2>1 DEF ClientNext, ClientConnect, Connect, ClientStep, ClientRefused,
                ClientOutput, ClientFailed, ClientDone, ClientEof, ClientRead, KillClient, LoseTail, Exit
  <2> QED
      BY <1>3, <2>2
<1>8. ASSUME NEW f \in Execs, ExecNext(f), f # e PROVE Goal
  <2>1. up'[e] = up[e] /\ proc'[e] = proc[e]
      BY <1>0, <1>8 DEF ExecNext, ExecConnect, Connect, ExecStep, StartTask, StartFails, ExecRead,
                SendOutput, SendDone, TaskEnds, ExecPissOff, ExecEof, KillExec, ExecLeaves, LoseTail
  <2> QED
      BY <1>3, <2>1
<1>9. CASE ExecConnect(e)
  <2>1. proc'[e] = "idle" /\ proc[e] = "none"
      BY <1>0, <1>9 DEF ExecConnect, Connect
  <2>2. connType[e] = "none"
      BY <1>0, <2>1 DEF Turns, Ends
  <2> QED
      BY <2>1, <2>2
<1>10. CASE StartTask(e) \/ ExecPissOff(e)
  <2>1. down[e] # <<>> /\ UNCHANGED up
      BY <1>10 DEF StartTask, ExecPissOff, ExecRead
  <2>2. \A i \in 1 .. Len(up[e]) : up[e][i].type = "Dropped"
      BY <2>1, UpQuiet
  <2>3. ~InQueue(e)
      BY <2>1 DEF Turns, ExecDown, ExecPaired
  <2>4. ~Said(e, Owed)' /\ ~Said(e, {"YourObedientServant"})'
      BY <2>1, <2>2 DEF Said, Final
  <2> QED
      BY <1>0, <2>3, <2>4 DEF Owes
<1>11. CASE StartFails(e) \/ SendDone(e)
  <2>1. proc'[e] = "idle"
      BY <1>0, <1>11 DEF StartFails, ExecRead, SendDone, TaskEnds
  <2>2. \E m \in Messages : m.type \notin {"YourObedientServant"} /\ up'[e] = Append(up[e], m)
    <3>1. CASE StartFails(e)
      <4>1. ExecRead(e, "Task") /\ up'[e] = Append(up[e], TaskFailed(Head(down[e]).task))
          BY <1>0, <3>1 DEF StartFails
      <4>2. Head(down[e]).task \in Clients
          BY <4>1, GivenTask
      <4> QED
          BY <4>1, <4>2, MessageTypes DEF TaskFailed, Message
    <3>2. CASE SendDone(e)
      <4>1. running[e] \in Clients
          BY <3>2, UpRunning DEF SendDone
      <4>2. PICK code \in ExitCodes : up'[e] = Append(up[e], TaskDone(running[e], code))
          BY <1>0, <3>2 DEF SendDone
      <4> QED
          BY <4>1, <4>2, MessageTypes DEF TaskDone, Message, ExitCodes, NoCode
    <3> QED
        BY <1>11, <3>1, <3>2
  <2>3. Said(e, {"YourObedientServant"})' => Said(e, {"YourObedientServant"})
      BY <2>2, SaidLess
  <2> QED
      BY <1>0, <2>1, <2>3 DEF Waiting
<1>12. CASE SendOutput(e)
  <2>1. running[e] \in Clients /\ proc'[e] = proc[e] /\ sent[running[e]] + 1 \in Int
      BY <1>12, UpRunning, ExecAssumption DEF SendOutput, TypeOK, ExecTypeOK
  <2>2. up'[e] = Append(up[e], TaskOutput(running[e], sent[running[e]] + 1))
      BY <1>0, <1>12 DEF SendOutput
  <2>3. \E m \in Messages : m.type \notin Owed /\ up'[e] = Append(up[e], m)
      BY <2>1, <2>2, MessageTypes DEF TaskOutput, Message, Final
  <2> QED
      BY <1>0, <1>2, <2>1, <2>3 DEF Waiting
<1>13. CASE KillExec(e)
  <2>1. proc[e] = "running" /\ LoseTail(e)
      BY <1>13 DEF KillExec, NoIdleDeath
  <2>2. Shrinks(up[e], up'[e])
      BY <1>0, <2>1, LoseTailShrinks
  <2> QED
      BY <1>0, <1>2, <2>1, <2>2 DEF Waiting
<1>14. ~ExecEof(e)
    BY DEF ExecEof
<1> QED
    BY <1>4, <1>5, <1>6, <1>7, <1>8, <1>9, <1>10, <1>11, <1>12, <1>13, <1>14
       DEF Elsewhere, ExecNext, ExecStep

LEMMA WaitsStep ==
    ASSUME NoIdleDeath
    PROVE  TypeOK /\ Turns /\ Ends /\ Waits /\ [Next]_vars => Waits'
<1> SUFFICES ASSUME TypeOK, Turns, Ends, Waits, [Next]_vars, ServerUp', NEW e \in Execs
             PROVE  Waiting(e)'
    BY DEF Waits
<1>1. CASE ServerNext
    BY <1>1, WaitsServer
<1>2. CASE Elsewhere /\ UNCHANGED <<pc, serverVars>>
    BY <1>2, WaitsElsewhere DEF ServerUp
<1> QED
    BY <1>1, <1>2, TwoSides

LEMMA WaitsCorrect ==
    ASSUME NoIdleDeath
    PROVE  Spec => []Waits
<1>1. Init => Waits
  <2>1. \A i \in 1 .. Len(<<>>) : FALSE
      OBVIOUS
  <2> SUFFICES ASSUME Init, NEW e \in Execs PROVE Waiting(e)
      BY DEF Waits
  <2>2. up[e] = <<>> /\ execQueue = <<>> /\ pairedId[e] = None
      BY RemoteFacts DEF Init, FabricInit, ServerInit
  <2> QED
      BY <2>1, <2>2 DEF Waiting, Owes, Said, InQueue
<1>2. TypeOK /\ Turns /\ Ends /\ Waits /\ [Next]_vars => Waits'
    BY WaitsStep
<1> QED
    BY <1>1, <1>2, TypeCorrect, TurnsCorrect, EndsCorrect, PTL DEF Spec

(* Every entry of exec_queue is a connected exec without a task, queued    *)
(* once, unless an exec dies while it waits.                               *)
THEOREM QueueOfWaiting ==
    ASSUME NoIdleDeath
    PROVE  Spec => []ExecQueueWaits
<1>1. TypeOK /\ Turns /\ Waits => ExecQueueWaits
  <2> SUFFICES ASSUME TypeOK, Turns, Waits, ServerUp, NEW i \in 1 .. Len(execQueue)
               PROVE  /\ connType[execQueue[i]] = "Exec" /\ pairedId[execQueue[i]] = None
                      /\ \A j \in 1 .. Len(execQueue) : execQueue[i] = execQueue[j] => i = j
      BY DEF ExecQueueWaits
  <2>1. execQueue[i] \in Execs /\ InQueue(execQueue[i])
      BY DEF InQueue, TypeOK, ServerTypeOK
  <2>2. connType[execQueue[i]] = "Exec"
      BY <2>1 DEF Waits, Waiting
  <2>3. pairedId[execQueue[i]] = None
      BY <2>1, QueuedExec
  <2> QED
      BY <2>2, <2>3 DEF Turns
<1> QED
    BY <1>1, TypeCorrect, TurnsCorrect, WaitsCorrect, PTL


-----------------------------------------------------------------------------
(* running_exec_count is kept beside conn_type, in three places of the     *)
(* code; it counts the connections of type Exec.                           *)

Connected == {e \in Execs : connType[e] = "Exec"}

CountExact == ServerUp => IsFiniteSet(Connected) /\ runningCount = Cardinality(Connected)

LEMMA ConnectedChanges ==
    ASSUME TypeOK, Turns, Ends, Waits, ServerNext, ServerUp'
    PROVE  \/ Connected' = Connected /\ runningCount' = runningCount
           \/ \E e \in Execs : /\ e \notin Connected /\ Connected' = Connected \cup {e}
                               /\ runningCount' = runningCount + 1
           \/ \E e \in Connected : Connected' = Connected \ {e} /\ runningCount' = runningCount - 1
<1>0. /\ connType \in [Remotes -> {"none", "Pending", "Client", "Exec", "Dead"}]
      /\ \A e \in Execs : e \in Remotes /\ e \notin Clients
    BY RemoteFacts DEF TypeOK, ServerTypeOK
<1> DEFINE Goal == \/ Connected' = Connected /\ runningCount' = runningCount
                   \/ \E e \in Execs : /\ e \notin Connected /\ Connected' = Connected \cup {e}
                                       /\ runningCount' = runningCount + 1
                   \/ \E e \in Connected : Connected' = Connected \ {e} /\ runningCount' = runningCount - 1
<1>1. ASSUME NEW x \in Remotes, Accept(x) PROVE Goal
  <2>1. connType[x] = "none" /\ connType' = [connType EXCEPT ![x] = "Pending"] /\ UNCHANGED runningCount
      BY <1>1 DEF Accept, Ends
  <2> QED
      BY <1>0, <2>1 DEF Connected
<1>2. ASSUME \/ Watchdog \/ CheckDone \/ ReleaseDone \/ ReleaseDelayExpires \/ IdleDelayExpires
             \/ \E c \in Clients : Assign(c)
      PROVE  Goal
  <2>1. UNCHANGED <<connType, runningCount>>
      BY <1>2 DEF Watchdog, CheckDone, ReleaseDone, ReleaseDelayExpires, IdleDelayExpires, Assign
  <2> QED
      BY <2>1 DEF Connected
<1>3. ASSUME NEW c \in Clients, RecvTask(c) PROVE Goal
  <2>1. connType' = [connType EXCEPT ![c] = "Client"] /\ UNCHANGED runningCount
      BY <1>3 DEF RecvTask
  <2> QED
      BY <1>0, <2>1 DEF Connected
<1>4. ASSUME NEW e \in Execs, RecvServant(e) PROVE Goal
  <2>1. /\ connType' = [connType EXCEPT ![e] = "Exec"] /\ runningCount' = runningCount + 1
        /\ Receive(e, "YourObedientServant")
      BY <1>4 DEF RecvServant
  <2>2. 1 \in 1 .. Len(up[e]) /\ up[e][1].type = "YourObedientServant"
      BY <1>0, <2>1, Received
  <2>3. connType[e] # "Exec"
      BY <2>2, ExecChanges DEF Waits, Waiting, Said
  <2>4. e \notin Connected /\ Connected' = Connected \cup {e}
      BY <1>0, <2>1, <2>3 DEF Connected
  <2> QED
      BY <2>1, <2>4
<1>5. ASSUME NEW e \in Execs, RecvOutput(e) \/ RecvDone(e) \/ RecvFailed(e) PROVE Goal
  <2>1. UNCHANGED runningCount /\ (UNCHANGED connType \/ SendToPaired(e, Head(up[e])))
      BY <1>5 DEF RecvOutput, RecvDone, RecvFailed, RecvFinal
  <2>2. \A x \in Remotes : connType'[x] # connType[x] => connType[x] = "Client" /\ connType'[x] = "Dead"
      BY <2>1, SendKnows
  <2> QED
      BY <1>0, <2>1, <2>2 DEF Connected
<1>6. ASSUME NEW x \in Remotes, RecvDropped(x) PROVE Goal
  <2>1. pc' \notin {"failed", "panic"}
      BY DEF ServerUp
  <2>2. /\ connType' = [connType EXCEPT ![x] = "Dead"]
        /\ runningCount' = IF connType[x] = "Exec" THEN runningCount - 1 ELSE runningCount
      BY <1>6, <2>1 DEF RecvDropped, LosesExec
  <2>3. CASE connType[x] = "Exec"
    <3>1. x \in Execs
        BY <2>3, RemoteFacts DEF TypeOK, ServerTypeOK
    <3>2. x \in Connected /\ Connected' = Connected \ {x}
        BY <1>0, <2>2, <2>3, <3>1 DEF Connected
    <3> QED
        BY <2>2, <2>3, <3>2
  <2>4. CASE connType[x] # "Exec"
      BY <1>0, <2>2, <2>4 DEF Connected
  <2> QED
      BY <2>3, <2>4
<1>7. ASSUME Release PROVE Goal
  <2> DEFINE e == Head(execQueue)
  <2>1. pc' \notin {"failed", "panic"}
      BY DEF ServerUp
  <2>2. /\ connType' = [connType EXCEPT ![e] = "Dead"] /\ runningCount' = runningCount - 1
        /\ execQueue # <<>> /\ execQueue' = Tail(execQueue)
      BY <1>7, <2>1 DEF Release, DecrementRunning, PopExec
  <2>3. e \in Execs /\ InQueue(e)
      BY <2>2, QueuePopped
  <2> HIDE DEF e
  <2>4. connType[e] = "Exec"
      BY <2>3, ExecChanges DEF Waits, Waiting
  <2>5. e \in Connected /\ Connected' = Connected \ {e}
      BY <1>0, <2>2, <2>3, <2>4 DEF Connected
  <2> QED
      BY <2>2, <2>5
<1> QED
    BY <1>1, <1>2, <1>3, <1>4, <1>5, <1>6, <1>7 DEF ServerNext, HandleMsg, CheckQueues

LEMMA CountExactStep == TypeOK /\ Turns /\ Ends /\ Waits /\ CountExact /\ [Next]_vars => CountExact'
<1> SUFFICES ASSUME TypeOK, Turns, Ends, Waits, CountExact, [Next]_vars, ServerUp'
             PROVE  IsFiniteSet(Connected') /\ runningCount' = Cardinality(Connected')
    BY DEF CountExact
<1>1. CASE UNCHANGED <<pc, serverVars>>
    BY <1>1 DEF CountExact, Connected, ServerUp, serverVars
<1>2. CASE ServerNext
  <2>1. ServerUp
      BY <1>2 DEF ServerNext, HandleMsg, CheckQueues, RecvTask, RecvServant, RecvOutput, RecvDone,
           RecvFailed, RecvFinal, RecvDropped, Receive, Watchdog, Assign, CheckDone, Release,
           ReleaseDone, ReleaseDelayExpires, IdleDelayExpires, Accept, ServerUp
  <2>2. IsFiniteSet(Connected) /\ runningCount = Cardinality(Connected)
      BY <2>1 DEF CountExact
  <2>3. CASE Connected' = Connected /\ runningCount' = runningCount
      BY <2>2, <2>3
  <2>4. ASSUME NEW e \in Execs, e \notin Connected, Connected' = Connected \cup {e},
               runningCount' = runningCount + 1
        PROVE  IsFiniteSet(Connected') /\ runningCount' = Cardinality(Connected')
      BY <2>2, <2>4, FS_AddElement
  <2>5. ASSUME NEW e \in Connected, Connected' = Connected \ {e}, runningCount' = runningCount - 1
        PROVE  IsFiniteSet(Connected') /\ runningCount' = Cardinality(Connected')
      BY <2>2, <2>5, FS_RemoveElement
  <2> QED
      BY <1>2, <2>3, <2>4, <2>5, ConnectedChanges
<1> QED
    BY <1>1, <1>2, ServerOwns

LEMMA CountExactCorrect ==
    ASSUME NoIdleDeath
    PROVE  Spec => []CountExact
<1>1. Init => CountExact
  <2> SUFFICES ASSUME Init PROVE IsFiniteSet(Connected) /\ runningCount = Cardinality(Connected)
      BY DEF CountExact
  <2>1. Connected = {} /\ runningCount = 0
      BY RemoteFacts DEF Connected, Init, ServerInit
  <2> QED
      BY <2>1, FS_EmptySet
<1>2. TypeOK /\ Turns /\ Ends /\ Waits /\ CountExact /\ [Next]_vars => CountExact'
    BY CountExactStep
<1> QED
    BY <1>1, <1>2, TypeCorrect, TurnsCorrect, EndsCorrect, WaitsCorrect, PTL DEF Spec

(* running_exec_count is the number of connected execs, unless an exec     *)
(* dies while it waits.                                                    *)
THEOREM CountCorrect ==
    ASSUME NoIdleDeath
    PROVE  Spec => []RunningCountExact
<1>1. CountExact => RunningCountExact
    BY DEF CountExact, RunningCountExact, Connected
<1> QED
    BY <1>1, CountExactCorrect, PTL


-----------------------------------------------------------------------------
(* A task the server has taken is in somebody's hands until it is          *)
(* answered: in the queue, or with a connected exec.  So when the queue is *)
(* empty and the count, being exact, is zero, every task has its answer.   *)

FinalSent(c) == \E i \in 1 .. Len(down[c]) : down[c][i].type \in Final

Settled(c) == status[c] # "none" \/ FinalSent(c)

InHand(c) ==
    \/ c \in taskQueue
    \/ \E e \in Execs : pairedId[e] = c /\ connType[e] = "Exec"

Tended ==
    \A c \in Clients :
        /\ proc[c] = "gone" => status[c] # "none"
        /\ connType[c] = "Client" /\ ServerUp => Settled(c) \/ InHand(c)

(* A client does not forget its answer, and leaves with one.               *)
LEMMA StatusKept ==
    ASSUME TypeOK, [Next]_vars, NEW c \in Clients
    PROVE  /\ status[c] # "none" => status'[c] # "none"
           /\ proc'[c] = "gone" => proc[c] = "gone" \/ status'[c] # "none"
<1>0. /\ c \in Remotes /\ c \notin Execs
      /\ status \in [Clients -> Statuses]
      /\ proc \in [Remotes -> {"none", "waiting", "idle", "running", "gone"}]
    BY RemoteFacts DEF TypeOK, FabricTypeOK, ClientTypeOK
<1>1. CASE UNCHANGED <<proc, status>>
    BY <1>1
<1>2. CASE ServerNext /\ UNCHANGED clientVars
  <2>1. UNCHANGED <<proc, status>>
      BY <1>2 DEF clientVars, ServerNext, HandleMsg, CheckQueues, RecvTask, RecvServant, RecvOutput, RecvDone,
           RecvFailed, RecvFinal, RecvDropped, Receive, Watchdog, Assign, CheckDone, Release,
           ReleaseDone, ReleaseDelayExpires, IdleDelayExpires, Accept
  <2> QED
      BY <1>1, <2>1
<1>3. ASSUME \/ \E x \in Remotes : ConnEof(x) \/ ConnReturn(x) \/ ConnWriteError(x)
             \/ \E q \in Queues : LoseJob(q)
      PROVE  UNCHANGED proc
    BY <1>3 DEF ConnEof, ConnReturn, ConnWriteError, LoseJob
<1>4. ASSUME NEW e \in Execs, ExecNext(e) PROVE proc'[c] = proc[c]
    BY <1>0, <1>4 DEF ExecNext, ExecConnect, Connect, ExecStep, StartTask, StartFails, ExecRead,
              SendOutput, SendDone, TaskEnds, ExecPissOff, ExecEof, KillExec, ExecLeaves
<1>5. ASSUME NEW d \in Clients, ClientConnect(d)
      PROVE  UNCHANGED status /\ proc' = [proc EXCEPT ![d] = "waiting"]
    BY <1>5 DEF ClientConnect, Connect, clientVars
<1>6. ASSUME NEW d \in Clients, ClientStep(d) \/ KillClient(d)
      PROVE  \/ UNCHANGED <<status, proc>>
             \/ \E s : /\ s # "none" /\ status' = [status EXCEPT ![d] = s]
                       /\ (UNCHANGED proc \/ proc' = [proc EXCEPT ![d] = "gone"])
    BY <1>6 DEF ClientStep, ClientRefused, ClientOutput, ClientFailed, ClientDone, ClientEof,
                KillClient, Exit
<1>7. ASSUME NEW d \in Clients, ClientNext(d)
      PROVE  /\ status[c] # "none" => status'[c] # "none"
             /\ proc'[c] = "gone" => proc[c] = "gone" \/ status'[c] # "none"
  <2>1. CASE ClientConnect(d)
      BY <1>0, <1>5, <2>1
  <2>2. CASE ClientStep(d) \/ KillClient(d)
      BY <1>0, <1>6, <2>2
  <2> QED
      BY <1>7, <2>1, <2>2 DEF ClientNext
<1> QED
    BY <1>1, <1>2, <1>3, <1>4, <1>7 DEF Next, vars, clientVars

(* An answer on its way arrives, unless its client is gone.                *)
LEMMA SettledKept ==
    ASSUME TypeOK, Turns, Ends, [Next]_vars, NEW c \in Clients, Settled(c),
           proc[c] = "gone" => status[c] # "none"
    PROVE  Settled(c)'
<1>1. CASE status[c] # "none"
    BY <1>1, StatusKept DEF Settled
<1>2. CASE FinalSent(c) /\ proc[c] # "gone"
  <2>1. PICK i \in 1 .. Len(down[c]) : down[c][i].type \in Final
      BY <1>2 DEF FinalSent
  <2>2. CASE down'[c] = down[c]
      BY <2>1, <2>2 DEF Settled, FinalSent
  <2>3. CASE ServerNext
    <3>1. ASSUME NEW e \in Execs, NEW m \in Messages, Forwarded(c, e, m) PROVE FinalSent(c)'
      <4>1. i \in 1 .. Len(down'[c]) /\ down'[c][i] = down[c][i]
          BY <2>1, <3>1, Heard DEF Forwarded
      <4> QED
          BY <2>1, <4>1 DEF FinalSent
    <3> QED
        BY <2>2, <2>3, <3>1, ClientHears DEF Settled
  <2>4. CASE Elsewhere
    <3>1. CASE ClientOutput(c)
      <4>1. ClientRead(c, "TaskOutput")
          BY <3>1 DEF ClientOutput
      <4>2. /\ down[c] \in Seq(Messages) /\ down[c] # <<>> /\ down'[c] = Tail(down[c])
            /\ down[c][1].type = "TaskOutput" /\ Len(down[c]) \in Nat
          BY <4>1, Heard DEF ClientRead, TypeOK, FabricTypeOK
      <4>3. i # 1
          BY <2>1, <4>2 DEF Final
      <4>4. i - 1 \in 1 .. Len(down[c]) - 1 /\ (i - 1) + 1 = i
          BY <2>1, <4>2, <4>3
      <4>5. Len(Tail(down[c])) = Len(down[c]) - 1 /\ Tail(down[c])[i - 1] = down[c][(i - 1) + 1]
          BY <4>2, <4>4, TailFacts
      <4>6. i - 1 \in 1 .. Len(down'[c]) /\ down'[c][i - 1].type \in Final
          BY <2>1, <4>2, <4>4, <4>5
      <4> QED
          BY <4>6 DEF Settled, FinalSent
    <3>2. CASE ClientFailed(c) \/ ClientDone(c)
      <4>1. status'[c] # "none"
          BY <3>2 DEF ClientFailed, ClientDone, Exit, TypeOK, ClientTypeOK
      <4> QED
          BY <4>1 DEF Settled
    <3>3. CASE status'[c] \in Unanswered
        BY <3>3 DEF Settled, Unanswered
    <3> QED
        BY <1>2, <2>2, <2>4, <3>1, <3>2, <3>3, ClientTakes
  <2> QED
      BY <2>3, <2>4, TwoSides
<1> QED
    BY <1>1, <1>2 DEF Settled

(* The server takes a task into its hands, and lets it go with an answer.  *)
LEMMA HandServer ==
    ASSUME TypeOK, Turns, Ends, Waits, Tended, ServerNext, ServerUp', NEW c \in Clients,
           connType'[c] = "Client", InHand(c) \/ connType[c] # "Client"
    PROVE  InHand(c)' \/ FinalSent(c)'
<1>0. /\ ServerUp /\ c \in Remotes /\ c \notin Execs /\ c # None
      /\ connType \in [Remotes -> {"none", "Pending", "Client", "Exec", "Dead"}]
      /\ pairedId \in [Remotes -> Remotes \cup {None}]
      /\ down \in [Remotes -> Seq(Messages)] /\ down[c] \in Seq(Messages) /\ Len(down[c]) \in Nat
      /\ \A e \in Execs : e \in Remotes /\ e \notin Clients
  <2>1. ServerUp
      BY DEF ServerNext, HandleMsg, CheckQueues, RecvTask, RecvServant, RecvOutput, RecvDone,
           RecvFailed, RecvFinal, RecvDropped, Receive, Watchdog, Assign, CheckDone, Release,
           ReleaseDone, ReleaseDelayExpires, IdleDelayExpires, Accept, ServerUp
  <2> QED
      BY <2>1, Heard, RemoteFacts DEF TypeOK, ServerTypeOK, FabricTypeOK
<1>1. ASSUME NEW m \in Messages, m.type \in Final, down' = [down EXCEPT ![c] = Append(@, m)]
      PROVE  FinalSent(c)'
  <2>1. Len(down[c]) + 1 \in 1 .. Len(down'[c]) /\ down'[c][Len(down[c]) + 1] = m
      BY <1>0, <1>1, Heard
  <2> QED
      BY <1>1, <2>1 DEF FinalSent
<1> DEFINE Goal == InHand(c)' \/ FinalSent(c)'
<1>2. ASSUME connType[c] = "Client" => connType'[c] = "Client",
             connType'[c] = "Client" => connType[c] = "Client" \/ c \in taskQueue',
             c \in taskQueue => c \in taskQueue',
             \A e \in Execs : pairedId[e] = c /\ connType[e] = "Exec" =>
                                  pairedId'[e] = c /\ connType'[e] = "Exec"
      PROVE  Goal
    BY <1>2 DEF InHand
<1>3. ASSUME NEW x \in Remotes, Accept(x) PROVE Goal
  <2>1. /\ conn[x] = "backlog" /\ connType' = [connType EXCEPT ![x] = "Pending"]
        /\ pairedId' = [pairedId EXCEPT ![x] = None] /\ UNCHANGED taskQueue
      BY <1>3 DEF Accept
  <2>2. connType[x] = "none"
      BY <2>1 DEF Ends
  <2> QED
      BY <1>0, <1>2, <2>1, <2>2
<1>4. ASSUME Watchdog \/ CheckDone \/ ReleaseDone \/ ReleaseDelayExpires \/ IdleDelayExpires PROVE Goal
  <2>1. UNCHANGED <<connType, pairedId, taskQueue>>
      BY <1>4 DEF Watchdog, CheckDone, ReleaseDone, ReleaseDelayExpires, IdleDelayExpires
  <2> QED
      BY <1>2, <2>1
<1>5. ASSUME NEW d \in Clients, RecvTask(d) PROVE Goal
  <2>1. /\ connType' = [connType EXCEPT ![d] = "Client"] /\ taskQueue' = taskQueue \cup {d}
        /\ UNCHANGED pairedId
      BY <1>5 DEF RecvTask
  <2> QED
      BY <1>0, <1>2, <2>1
<1>6. ASSUME NEW d \in Clients, Assign(d) PROVE Goal
  <2> DEFINE e == Head(execQueue)
  <2>1. /\ UNCHANGED connType /\ d \in taskQueue /\ taskQueue' = taskQueue \ {d}
        /\ pairedId' = [pairedId EXCEPT ![d] = e, ![e] = d] /\ e \in Execs /\ InQueue(e)
        /\ pairedId[e] = None
      BY <1>6, AssignFacts DEF Assign, PopTask
  <2> HIDE DEF e
  <2>2. connType[e] = "Exec"
      BY <1>0, <2>1 DEF Waits, Waiting
  <2>3. pairedId'[e] = d /\ \A f \in Execs \ {e} : pairedId'[f] = pairedId[f]
      BY <1>0, <2>1
  <2>4. CASE c = d
      BY <2>1, <2>2, <2>3, <2>4 DEF InHand
  <2>5. CASE c # d
      BY <1>0, <1>2, <2>1, <2>3, <2>5
  <2> QED
      BY <2>4, <2>5
<1>7. ASSUME Release PROVE Goal
  <2> DEFINE e == Head(execQueue)
  <2>1. /\ UNCHANGED <<pairedId, taskQueue>> /\ connType' = [connType EXCEPT ![e] = "Dead"]
        /\ execQueue # <<>> /\ execQueue' = Tail(execQueue)
      BY <1>7 DEF Release, PopExec
  <2>2. e \in Execs /\ InQueue(e)
      BY <2>1, QueuePopped
  <2>3. pairedId[e] = None
      BY <2>2, QueuedExec
  <2> HIDE DEF e
  <2> QED
      BY <1>0, <1>2, <2>1, <2>2, <2>3
<1>8. ASSUME NEW e \in Execs, RecvServant(e) PROVE Goal
  <2>1. /\ connType' = [connType EXCEPT ![e] = "Exec"] /\ pairedId' = [pairedId EXCEPT ![e] = None]
        /\ UNCHANGED taskQueue /\ Receive(e, "YourObedientServant")
      BY <1>8 DEF RecvServant, ExecIsReady, Unpair
  <2>2. 1 \in 1 .. Len(up[e]) /\ up[e][1].type = "YourObedientServant"
      BY <1>0, <2>1, Received
  <2>3. pairedId[e] = None
      BY <2>2 DEF Turns, ExecUp, Final
  <2> QED
      BY <1>0, <1>2, <2>1, <2>3
<1>9. ASSUME NEW e \in Execs, RecvOutput(e) \/ RecvDone(e) \/ RecvFailed(e) PROVE Goal
  <2>1. PICK type \in Results : Receive(e, type)
      BY <1>9 DEF RecvOutput, RecvDone, RecvFailed, RecvFinal, Results, Final
  <2>2. /\ pairedId[e] \in Clients /\ pairedId[e] # None /\ Head(up[e]) \in Messages
        /\ Head(up[e]).type = type
      BY <2>1, ResultFacts
  <2>3. SendToPaired(e, Head(up[e])) /\ UNCHANGED taskQueue
      BY <1>9, <2>2 DEF RecvOutput, RecvDone, RecvFailed, RecvFinal
  <2>4. \A x \in Remotes : /\ connType'[x] # connType[x] => connType[x] = "Client" /\ connType'[x] = "Dead"
                           /\ connType'[x] \in {"Exec", "Client"} => connType[x] = connType'[x]
      BY <2>3, SendKnows
  <2>5. connType[c] = "Client"
      BY <1>0, <2>4
  <2>6. \A f \in Execs : connType[f] = "Exec" => connType'[f] = "Exec"
      BY <1>0, <2>4
  <2>7. CASE type = "TaskOutput"
    <3>1. UNCHANGED pairedId
        BY <1>9, <2>2, <2>7 DEF RecvOutput, RecvDone, RecvFailed, RecvFinal, Receive
    <3> QED
        BY <1>2, <2>3, <2>5, <2>6, <3>1
  <2>8. CASE type \in Final
    <3>1. pairedId' = [pairedId EXCEPT ![e] = None]
        BY <1>9, <2>2, <2>8 DEF RecvOutput, RecvDone, RecvFailed, RecvFinal, Receive, ExecIsReady, Unpair, Final
    <3>2. CASE pairedId[e] = c
      <4>1. down' = [down EXCEPT ![c] = Append(@, Head(up[e]))]
          BY <1>0, <2>3, <2>5, <3>2 DEF SendToPaired
      <4> QED
          BY <1>1, <2>2, <2>8, <4>1
    <3>3. CASE pairedId[e] # c
        BY <1>0, <1>2, <2>3, <2>5, <2>6, <3>1, <3>3
    <3> QED
        BY <3>2, <3>3
  <2> QED
      BY <2>7, <2>8 DEF Results
<1>10. ASSUME NEW x \in Remotes, RecvDropped(x) PROVE Goal
  <2>1. pc' \notin {"failed", "panic"}
      BY DEF ServerUp
  <2>2. /\ connType' = [connType EXCEPT ![x] = "Dead"] /\ UNCHANGED <<pairedId, taskQueue>>
        /\ Orphans(x) => down' = [down EXCEPT ![pairedId[x]] = Append(@, TaskFailed(pairedId[x]))]
      BY <1>10, <2>1 DEF RecvDropped
  <2>3. x # c /\ connType'[c] = connType[c]
      BY <1>0, <2>2
  <2>4. CASE pairedId[x] = c /\ connType[x] = "Exec"
    <3>1. TaskFailed(c) \in Messages /\ TaskFailed(c).type \in Final
        BY MessageTypes DEF TaskFailed, Message, Final
    <3> QED
        BY <1>0, <1>1, <2>2, <2>4, <3>1 DEF Orphans
  <2>5. CASE ~(pairedId[x] = c /\ connType[x] = "Exec")
      BY <1>0, <1>2, <2>2, <2>3, <2>5
  <2> QED
      BY <2>4, <2>5
<1> QED
    BY <1>3, <1>4, <1>5, <1>6, <1>7, <1>8, <1>9, <1>10 DEF ServerNext, HandleMsg, CheckQueues

LEMMA TendedStep == TypeOK /\ Turns /\ Ends /\ Waits /\ Tended /\ [Next]_vars => Tended'
<1> SUFFICES ASSUME TypeOK, Turns, Ends, Waits, Tended, [Next]_vars, NEW c \in Clients
             PROVE  /\ proc'[c] = "gone" => status'[c] # "none"
                    /\ connType'[c] = "Client" /\ ServerUp' => Settled(c)' \/ InHand(c)'
    BY DEF Tended
<1>1. proc[c] = "gone" => status[c] # "none"
    BY DEF Tended
<1>2. proc'[c] = "gone" => status'[c] # "none"
    BY <1>1, StatusKept
<1>3. Settled(c) => Settled(c)'
    BY <1>1, SettledKept
<1>4. ASSUME connType'[c] = "Client", ServerUp' PROVE Settled(c)' \/ InHand(c)'
  <2>1. CASE ServerNext
    <3>1. ServerUp
        BY <2>1 DEF ServerNext, HandleMsg, CheckQueues, RecvTask, RecvServant, RecvOutput, RecvDone,
           RecvFailed, RecvFinal, RecvDropped, Receive, Watchdog, Assign, CheckDone, Release,
           ReleaseDone, ReleaseDelayExpires, IdleDelayExpires, Accept, ServerUp
    <3>2. Settled(c) \/ InHand(c) \/ connType[c] # "Client"
        BY <3>1 DEF Tended
    <3>3. CASE InHand(c) \/ connType[c] # "Client"
        BY <1>4, <2>1, <3>3, HandServer DEF Settled
    <3> QED
        BY <1>3, <3>2, <3>3
  <2>2. CASE UNCHANGED <<pc, serverVars>>
    <3>1. connType[c] = "Client" /\ ServerUp /\ (InHand(c) => InHand(c)')
        BY <1>4, <2>2 DEF ServerUp, InHand, serverVars
    <3> QED
        BY <1>3, <3>1 DEF Tended
  <2> QED
      BY <2>1, <2>2, TwoSides
<1> QED
    BY <1>2, <1>4

(* The server stops with an empty queue and a count of zero.               *)
LEMMA ShutsDown ==
    ASSUME TypeOK, ServerNext, pc' = "shutdown"
    PROVE  /\ ServerUp /\ taskQueue = {} /\ runningCount = 0
           /\ \A c \in Remotes : connType'[c] = "Client" => connType[c] = "Client"
<1>1. ServerUp
    BY DEF ServerNext, HandleMsg, CheckQueues, RecvTask, RecvServant, RecvOutput, RecvDone,
           RecvFailed, RecvFinal, RecvDropped, Receive, Watchdog, Assign, CheckDone, Release,
           ReleaseDone, ReleaseDelayExpires, IdleDelayExpires, Accept, ServerUp
<1>2. ASSUME NEW x \in Remotes, HandleMsg(x) PROVE pc' # "shutdown"
    BY <1>2 DEF HandleMsg, RecvTask, RecvServant, RecvOutput, RecvDone, RecvFailed, RecvFinal,
                RecvDropped, Receive, ExecIsReady, Update
<1>3. ASSUME \/ Watchdog \/ Release \/ ReleaseDelayExpires \/ IdleDelayExpires
             \/ \E c \in Clients : Assign(c)
      PROVE  pc' # "shutdown"
    BY <1>3 DEF Watchdog, Release, DecrementRunning, ReleaseDelayExpires, IdleDelayExpires, Assign, Update
<1>4. (\E x \in Remotes : Accept(x)) \/ CheckDone \/ ReleaseDone
    BY <1>2, <1>3 DEF ServerNext, CheckQueues
<1>5. EndArm /\ (UNCHANGED connType \/ \E x \in Remotes : connType' = [connType EXCEPT ![x] = "Pending"])
    BY <1>4 DEF Accept, CheckDone, ReleaseDone
<1>6. taskQueue = {} /\ runningCount = 0
    BY <1>5 DEF EndArm, OkToShutdown
<1> QED
    BY <1>1, <1>5, <1>6 DEF TypeOK, ServerTypeOK

LEMMA StrandsStep ==
    TypeOK /\ Turns /\ Ends /\ Waits /\ CountExact /\ Tended /\ ShutdownStrandsNoTask /\ [Next]_vars
        => ShutdownStrandsNoTask'
<1> SUFFICES ASSUME TypeOK, Turns, Ends, Waits, CountExact, Tended, ShutdownStrandsNoTask, [Next]_vars,
                    NEW c \in Clients, pc' = "shutdown", connType'[c] = "Client"
             PROVE  Settled(c)'
    BY DEF ShutdownStrandsNoTask, Settled, FinalSent
<1>1. Settled(c) => Settled(c)'
    BY SettledKept DEF Tended
<1>2. CASE ServerNext
  <2>1. ServerUp /\ taskQueue = {} /\ runningCount = 0 /\ connType[c] = "Client"
      BY <1>2, ShutsDown, RemoteFacts
  <2>2. IsFiniteSet(Connected) /\ Cardinality(Connected) = 0
      BY <2>1 DEF CountExact
  <2>3. Connected = {}
      BY <2>2, FS_EmptySet
  <2>4. ~InHand(c)
      BY <2>1, <2>3 DEF InHand, Connected
  <2> QED
      BY <1>1, <2>1, <2>4 DEF Tended
<1>3. CASE UNCHANGED <<pc, serverVars>>
    BY <1>1, <1>3 DEF ShutdownStrandsNoTask, Settled, FinalSent, serverVars
<1> QED
    BY <1>2, <1>3, TwoSides

LEMMA TendedInit == Init => Tended /\ ShutdownStrandsNoTask
<1> SUFFICES ASSUME Init, NEW c \in Clients
             PROVE  proc[c] # "gone" /\ connType[c] # "Client"
    BY DEF Tended, ShutdownStrandsNoTask
<1> QED
    BY RemoteFacts DEF Init, FabricInit, ServerInit

LEMMA TendedCorrect ==
    ASSUME NoIdleDeath
    PROVE  Spec => []Tended
<1>1. TypeOK /\ Turns /\ Ends /\ Waits /\ Tended /\ [Next]_vars => Tended'
    BY TendedStep
<1>2. Init => Tended
    BY TendedInit
<1> QED
    BY <1>1, <1>2, TypeCorrect, TurnsCorrect, EndsCorrect, WaitsCorrect, PTL DEF Spec

(* When ok_to_shutdown lets the server go, every client whose task it took *)
(* has its answer or will find it in its connection, unless an exec dies   *)
(* while it waits.                                                         *)
THEOREM NoTaskStranded ==
    ASSUME NoIdleDeath
    PROVE  Spec => []ShutdownStrandsNoTask
<1>1. TypeOK /\ Turns /\ Ends /\ Waits /\ CountExact /\ Tended /\ ShutdownStrandsNoTask /\ [Next]_vars
          => ShutdownStrandsNoTask'
    BY StrandsStep
<1>2. Init => ShutdownStrandsNoTask
    BY TendedInit
<1> QED
    BY <1>1, <1>2, TypeCorrect, TurnsCorrect, EndsCorrect, WaitsCorrect, CountExactCorrect, TendedCorrect,
       PTL DEF Spec

-----------------------------------------------------------------------------
(* The server's other ends.  Each needs a send to a connection that is     *)
(* done, or a count of zero with an exec to take off it: an exec in the    *)
(* queue is there, and the client of a busy exec that dies is still there  *)
(* as well, unless it was killed.                                          *)

NoClientDeath == "KillClient" \notin Faults

LeaveAnswered == ServerUp => \A c \in Clients : proc[c] = "gone" => status[c] \in Verdicts

LEMMA LeaveAnsweredStep ==
    ASSUME NoClientDeath, TypeOK, LeaveAnswered, [Next]_vars
    PROVE  LeaveAnswered'
<1> SUFFICES ASSUME ServerUp', NEW c \in Clients, proc'[c] = "gone" PROVE status'[c] \in Verdicts
    BY DEF LeaveAnswered
<1>0. /\ c \in Remotes /\ c \notin Execs /\ status \in [Clients -> Statuses]
      /\ proc \in [Remotes -> {"none", "waiting", "idle", "running", "gone"}]
    BY RemoteFacts DEF TypeOK, FabricTypeOK, ClientTypeOK
<1>1. ServerUp
  <2>1. ServerNext => ServerUp
      BY DEF ServerNext, HandleMsg, CheckQueues, RecvTask, RecvServant, RecvOutput, RecvDone,
           RecvFailed, RecvFinal, RecvDropped, Receive, Watchdog, Assign, CheckDone, Release,
           ReleaseDone, ReleaseDelayExpires, IdleDelayExpires, Accept, ServerUp
  <2>2. UNCHANGED <<pc, serverVars>> => ServerUp
      BY DEF ServerUp
  <2> QED
      BY <2>1, <2>2, TwoSides
<1>2. CASE proc'[c] = proc[c] /\ status'[c] = status[c]
    BY <1>1, <1>2 DEF LeaveAnswered
<1>3. CASE ServerNext /\ UNCHANGED clientVars
  <2>1. UNCHANGED <<proc, status>>
      BY <1>3 DEF clientVars, ServerNext, HandleMsg, CheckQueues, RecvTask, RecvServant, RecvOutput, RecvDone,
           RecvFailed, RecvFinal, RecvDropped, Receive, Watchdog, Assign, CheckDone, Release,
           ReleaseDone, ReleaseDelayExpires, IdleDelayExpires, Accept
  <2> QED
      BY <1>2, <2>1
<1>4. ASSUME \/ \E x \in Remotes : ConnEof(x) \/ ConnReturn(x) \/ ConnWriteError(x)
             \/ \E q \in Queues : LoseJob(q)
      PROVE  UNCHANGED proc
    BY <1>4 DEF ConnEof, ConnReturn, ConnWriteError, LoseJob
<1>5. ASSUME NEW e \in Execs, ExecNext(e) PROVE proc'[c] = proc[c]
    BY <1>0, <1>5 DEF ExecNext, ExecConnect, Connect, ExecStep, StartTask, StartFails, ExecRead,
              SendOutput, SendDone, TaskEnds, ExecPissOff, ExecEof, KillExec, ExecLeaves
<1>6. ASSUME NEW d \in Clients, ClientNext(d) PROVE status'[c] \in Verdicts
  <2>1. ~ClientRefused(d) /\ ~ClientEof(d) /\ ~KillClient(d)
      BY <1>1 DEF ClientRefused, ClientEof, KillClient, NoClientDeath
  <2>2. CASE ClientConnect(d)
    <3>1. UNCHANGED status /\ proc' = [proc EXCEPT ![d] = "waiting"]
        BY <2>2 DEF ClientConnect, Connect, clientVars
    <3> QED
        BY <1>0, <1>2, <3>1
  <2>3. CASE ClientOutput(d)
      BY <1>2, <2>3 DEF ClientOutput
  <2>4. CASE ClientFailed(d) \/ ClientDone(d)
    <3>1. \E s \in Verdicts : /\ status' = [status EXCEPT ![d] = s]
                              /\ (UNCHANGED proc \/ proc' = [proc EXCEPT ![d] = "gone"])
        BY <2>4 DEF ClientFailed, ClientDone, Exit, Verdicts
    <3>2. CASE c = d
        BY <1>0, <3>1, <3>2
    <3>3. CASE c # d
        BY <1>0, <1>2, <3>1, <3>3
    <3> QED
        BY <3>2, <3>3
  <2> QED
      BY <1>6, <2>1, <2>2, <2>3, <2>4 DEF ClientNext, ClientStep
<1> QED
    BY <1>2, <1>3, <1>4, <1>5, <1>6 DEF Next, vars, clientVars

(* With an exec connected the exact count is not zero.                     *)
LEMMA CountPositive ==
    ASSUME CountExact, ServerUp, NEW e \in Execs, connType[e] = "Exec"
    PROVE  runningCount # 0
<1>1. IsFiniteSet(Connected) /\ runningCount = Cardinality(Connected) /\ e \in Connected
    BY DEF CountExact, Connected
<1> QED
    BY <1>1, FS_EmptySet

LEMMA EndsIdleServer ==
    ASSUME TypeOK, Turns, Ends, LastWord, Waits, CountExact, LeaveAnswered, ServerNext
    PROVE  EndsOnlyWhenIdle'
<1>0. /\ ServerUp /\ \A x \in Remotes : conn[x] = "done" => proc[x] = "gone"
      /\ \A e \in Execs : e \in Remotes /\ e \notin Clients
      /\ \A x \in Remotes : x \in Clients \/ x \in Execs
  <2>1. ServerUp
      BY DEF ServerNext, HandleMsg, CheckQueues, RecvTask, RecvServant, RecvOutput, RecvDone,
           RecvFailed, RecvFinal, RecvDropped, Receive, Watchdog, Assign, CheckDone, Release,
           ReleaseDone, ReleaseDelayExpires, IdleDelayExpires, Accept, ServerUp
  <2> QED
      BY <2>1, RemoteFacts DEF Ends, HungUp
<1>1. pc \notin {"failed", "panic"}
    BY <1>0 DEF ServerUp
<1> DEFINE Goal == pc' \notin {"failed", "panic"}
<1>2. ASSUME NEW e \in Execs, InQueue(e) PROVE ~RxGone(e) /\ runningCount # 0
  <2>1. proc[e] = "idle" /\ connType[e] = "Exec"
      BY <1>0, <1>2 DEF Waits, Waiting, Owes
  <2> QED
      BY <1>0, <2>1, CountPositive DEF RxGone
<1>3. ASSUME NEW x \in Remotes, Accept(x) PROVE Goal
    BY <1>3 DEF Accept, EndArm
<1>4. ASSUME CheckDone \/ ReleaseDone PROVE Goal
    BY <1>4 DEF CheckDone, ReleaseDone, EndArm
<1>5. ASSUME Watchdog \/ ReleaseDelayExpires \/ IdleDelayExpires PROVE Goal
    BY <1>1, <1>5 DEF Watchdog, Update, ReleaseDelayExpires, IdleDelayExpires
<1>6. ASSUME NEW c \in Clients, RecvTask(c) PROVE Goal
    BY <1>6 DEF RecvTask, Update
<1>7. ASSUME NEW e \in Execs, RecvServant(e) PROVE Goal
    BY <1>7 DEF RecvServant, ExecIsReady, Update
<1>8. ASSUME NEW e \in Execs, RecvOutput(e) \/ RecvDone(e) \/ RecvFailed(e) PROVE Goal
  <2>1. PICK type \in Results : Receive(e, type)
      BY <1>8 DEF RecvOutput, RecvDone, RecvFailed, RecvFinal, Results, Final
  <2>2. pairedId[e] # None
      BY <2>1, ResultFacts
  <2> QED
      BY <1>1, <1>8, <2>2 DEF RecvOutput, RecvDone, RecvFailed, RecvFinal, ExecIsReady, Update
<1>9. ASSUME NEW x \in Remotes, RecvDropped(x) PROVE Goal
  <2>1. Receive(x, "Dropped") /\ up[x] # <<>>
      BY <1>9 DEF RecvDropped, Receive
  <2>2. ASSUME LosesExec(x) PROVE runningCount # 0 /\ x \in Execs
    <3>1. x \in Execs /\ connType[x] = "Exec"
        BY <1>0, <2>2 DEF LosesExec, TypeOK, ServerTypeOK
    <3> QED
        BY <1>0, <3>1, CountPositive
  <2>3. ASSUME Orphans(x), RxGone(pairedId[x]) PROVE FALSE
    <3>1. x \in Execs /\ pairedId[x] \in Clients
        BY <2>2, <2>3 DEF Orphans, LosesExec, TypeOK, ServerTypeOK
    <3>2. proc[pairedId[x]] = "gone"
        BY <1>0, <2>3, <3>1, RemoteFacts DEF RxGone
    <3>3. Answered(pairedId[x])
        BY <1>0, <3>1, <3>2 DEF LeaveAnswered, Answered
    <3>4. Silent(x)
        BY <3>1, <3>3 DEF LastWord
    <3> QED
        BY <2>1, <3>4 DEF Silent
  <2> QED
      BY <1>1, <1>9, <2>2, <2>3 DEF RecvDropped
<1>10. ASSUME NEW c \in Clients, Assign(c) PROVE Goal
  <2>1. ~(c = Head(execQueue) \/ pairedId[c] # None \/ pairedId[Head(execQueue)] # None)
        /\ Head(execQueue) \in Execs /\ InQueue(Head(execQueue))
      BY <1>10, AssignFacts
  <2>2. ~RxGone(Head(execQueue))
      BY <1>2, <2>1
  <2> QED
      BY <1>1, <1>10, <2>1, <2>2 DEF Assign
<1>11. ASSUME Release PROVE Goal
  <2>1. execQueue # <<>> /\ execQueue' = Tail(execQueue)
      BY <1>11 DEF Release, PopExec
  <2>2. Head(execQueue) \in Execs /\ InQueue(Head(execQueue))
      BY <2>1, QueuePopped
  <2>3. ~RxGone(Head(execQueue)) /\ runningCount # 0
      BY <1>2, <2>2
  <2> QED
      BY <1>1, <1>11, <2>3 DEF Release, DecrementRunning
<1> QED
    BY <1>3, <1>4, <1>5, <1>6, <1>7, <1>8, <1>9, <1>10, <1>11
       DEF EndsOnlyWhenIdle, ServerNext, HandleMsg, CheckQueues

LEMMA EndsIdleStep ==
    TypeOK /\ Turns /\ Ends /\ LastWord /\ Waits /\ CountExact /\ LeaveAnswered /\ EndsOnlyWhenIdle
        /\ [Next]_vars => EndsOnlyWhenIdle'
<1> SUFFICES ASSUME TypeOK, Turns, Ends, LastWord, Waits, CountExact, LeaveAnswered, EndsOnlyWhenIdle,
                    [Next]_vars
             PROVE  EndsOnlyWhenIdle'
    OBVIOUS
<1>1. CASE ServerNext
    BY <1>1, EndsIdleServer
<1>2. CASE UNCHANGED <<pc, serverVars>>
    BY <1>2 DEF EndsOnlyWhenIdle
<1> QED
    BY <1>1, <1>2, TwoSides

(* Unless a client is killed or an exec dies while it waits, the server    *)
(* process ends by its idle timer only: no send of check_queues or         *)
(* handle_dropped fails, and no counter underflows.                        *)
THEOREM OnlyIdleEnds ==
    ASSUME NoIdleDeath, NoClientDeath
    PROVE  Spec => []EndsOnlyWhenIdle
<1>1. Init => LeaveAnswered /\ EndsOnlyWhenIdle
    BY RemoteFacts DEF Init, FabricInit, LeaveAnswered, EndsOnlyWhenIdle
<1>2. TypeOK /\ LeaveAnswered /\ [Next]_vars => LeaveAnswered'
    BY LeaveAnsweredStep
<1>3. TypeOK /\ Turns /\ Ends /\ LastWord /\ Waits /\ CountExact /\ LeaveAnswered /\ EndsOnlyWhenIdle
          /\ [Next]_vars => EndsOnlyWhenIdle'
    BY EndsIdleStep
<1> QED
    BY <1>1, <1>2, <1>3, TypeCorrect, TurnsCorrect, EndsCorrect, LastWordCorrect, WaitsCorrect,
       CountExactCorrect, PTL DEF Spec
=============================================================================
