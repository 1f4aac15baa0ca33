---------------------------- MODULE SprayCCProof ----------------------------
(***************************************************************************)
(* Proofs about SprayCC, for any number of clients and execs and under     *)
(* every set of faults: its types; that the server and its remotes take    *)
(* turns (the invariant Turns), and what follows from that: results reach  *)
(* the client they belong to, no task is held by two execs, and no         *)
(* connection carries messages both ways at once.                          *)
(***************************************************************************)
EXTENDS SprayCC, TLAPS, FiniteSetTheorems, WellFoundedInduction

-----------------------------------------------------------------------------
(* Sequences.                                                              *)

(* Sending puts a message at the end of a connection's buffer.             *)
LEMMA AppendFacts ==
    ASSUME NEW S, NEW s \in Seq(S), NEW m \in S
    PROVE  /\ Append(s, m) \in Seq(S)
           /\ Len(Append(s, m)) = Len(s) + 1
           /\ Append(s, m) # <<>>
           /\ Append(s, m)[Len(s) + 1] = m
           /\ \A i \in 1 .. Len(s) : Append(s, m)[i] = s[i]
    OBVIOUS

(* Receiving takes the first message and leaves the others in order.       *)
LEMMA TailFacts ==
    ASSUME NEW S, NEW s \in Seq(S), s # <<>>
    PROVE  /\ Len(s) \in Nat /\ Len(s) > 0
           /\ Head(s) \in S /\ Head(s) = s[1]
           /\ Tail(s) \in Seq(S)
           /\ Len(Tail(s)) = Len(s) - 1
           /\ \A i \in 1 .. Len(s) - 1 : Tail(s)[i] = s[i + 1]
    OBVIOUS

(* A dying process loses a tail of what it wrote.                          *)
LEMMA PrefixFacts ==
    ASSUME NEW S, NEW s \in Seq(S), NEW k \in 0 .. Len(s)
    PROVE  /\ SubSeq(s, 1, k) \in Seq(S)
           /\ Len(SubSeq(s, 1, k)) = k
           /\ \A i \in 1 .. k : SubSeq(s, 1, k)[i] = s[i]
    OBVIOUS

-----------------------------------------------------------------------------
(* Starting execs.                                                         *)

(* A set of numbers has a least one.                                       *)
LEMMA LeastOf ==
    ASSUME NEW S, S \subseteq Nat, S # {}
    PROVE  \E i \in S : \A j \in S : i <= j
<1>1. PICK i \in S : \A j \in S : ~(<<j, i>> \in OpToRel(<, Nat))
    BY NatLessThanWellFounded, WFMin
<1>2. \A j \in S : ~(j < i)
    BY <1>1 DEF OpToRel
<1> QED
    BY <1>2

(* The loop goes on while there are more tasks than execs, there may be    *)
(* more execs, and less than keep jobs are pending in the queue.           *)
StartsAnother(tasks, run, o, keep, p) == run + p + o < tasks /\ run + p + o < MaxCount /\ p < keep

(* The number of its iterations, and so of the jobs it submits.            *)
Least(a, b) == IF a <= b THEN a ELSE b
Started(tasks, run, p, o, keep) ==
    Greatest(0, Least(Least(tasks, MaxCount) - (run + p + o), keep - p))

(* One iteration of the loop is one of the jobs Started counts.            *)
LEMMA StartedUnfolds ==
    ASSUME NEW tasks \in Nat, NEW run \in Nat, NEW o \in Nat, NEW keep \in Int, NEW p \in Nat
    PROVE  p + Started(tasks, run, p, o, keep) =
               IF StartsAnother(tasks, run, o, keep, p) THEN (p + 1) + Started(tasks, run, p + 1, o, keep) ELSE p
    BY ServerAssumption DEF Started, Least, Greatest, StartsAnother

(* So the loop stops, and with the pending count that Started gives.       *)
LEMMA LoopStops ==
    ASSUME NEW tasks \in Nat, NEW run \in Nat, NEW o \in Nat, NEW keep \in Nat
    PROVE  \A p \in Nat : StartLoop(tasks, run, o, keep)[p] = p + Started(tasks, run, p, o, keep)
<1> DEFINE Step(f) == [p \in Nat |-> IF StartsAnother(tasks, run, o, keep, p) THEN f[p + 1] ELSE p]
           sum == [p \in Nat |-> p + Started(tasks, run, p, o, keep)]
           stop == StartLoop(tasks, run, o, keep)
<1>1. sum = Step(sum)
  <2>1. \A p \in Nat : p + 1 \in Nat
      OBVIOUS
  <2>2. ASSUME NEW p \in Nat PROVE sum[p] = IF StartsAnother(tasks, run, o, keep, p) THEN sum[p + 1] ELSE p
      BY <2>1, StartedUnfolds
  <2> QED
      BY <2>2
<1>2. stop = CHOOSE f : f = Step(f)
    BY DEF StartLoop, StartsAnother
<1>3. stop = Step(stop)
  <2> HIDE DEF Step, sum, stop
  <2> QED
      BY <1>1, <1>2
<1> DEFINE Wrong == {n \in Nat : \E p \in Nat : keep <= p + n /\ stop[p] # sum[p]}
<1>4. ASSUME Wrong # {} PROVE FALSE
  <2>1. PICK n \in Wrong : \A j \in Wrong : n <= j
    <3>1. Wrong \subseteq Nat
        OBVIOUS
    <3> QED
        BY <1>4, <3>1, LeastOf
  <2>2. PICK p \in Nat : keep <= p + n /\ stop[p] # sum[p]
      OBVIOUS
  <2>3. StartsAnother(tasks, run, o, keep, p) /\ stop[p + 1] # sum[p + 1]
    <3>1. p + 1 \in Nat
        OBVIOUS
    <3>2. stop[p] = IF StartsAnother(tasks, run, o, keep, p) THEN stop[p + 1] ELSE p
        BY <1>3
    <3>3. sum[p] = IF StartsAnother(tasks, run, o, keep, p) THEN sum[p + 1] ELSE p
        BY <1>1
    <3> QED
        BY <2>2, <3>2, <3>3
  <2>4. p + 1 \in Nat /\ n - 1 \in Nat /\ keep <= (p + 1) + (n - 1)
    <3>1. n \in Nat /\ p < keep
        BY <2>3 DEF StartsAnother
    <3> QED
        BY <2>2, <3>1
  <2>5. n - 1 \in Wrong
      BY <2>3, <2>4
  <2> QED
      BY <2>1, <2>5
<1>5. ASSUME NEW p \in Nat PROVE stop[p] = sum[p]
  <2>1. keep <= p + keep
      OBVIOUS
  <2> QED
      BY <1>4, <2>1
<1> QED
    BY <1>5

(* start_execs only adds to the pending counts.                            *)
LEMMA StartExecsAdds ==
    ASSUME NEW tasks \in Nat, NEW run \in Nat, NEW pend \in [Queues -> Nat]
    PROVE  /\ StartExecs(tasks, run, pend) \in [Queues -> Nat]
           /\ \A q \in Queues : StartExecs(tasks, run, pend)[q] >= pend[q]
<1>1. /\ 0 \in Queues /\ 1 \in Queues
      /\ \A q \in Queues : q = 0 \/ q = 1
    BY DEF Queues
<1> DEFINE keep == Greatest(KeepPending, Greatest(InitialCount, run) - run)
           share == Share(keep)
           first == pend[0] + Started(tasks, run, pend[0], pend[1], share)
           second == IF BothQueues
                     THEN pend[1] + Started(tasks, run, pend[1], first, share) ELSE pend[1]
<1>2. keep \in Nat /\ share \in Nat
  <2>1. keep \in Nat
      BY ServerAssumption DEF Greatest
  <2> HIDE DEF keep
  <2> QED
      BY <2>1, ServerAssumption DEF Share
<1> HIDE DEF keep, share
<1>3. first \in Nat /\ first >= pend[0]
    BY <1>1, <1>2, ServerAssumption DEF Started, Least, Greatest
<1> HIDE DEF first
<1>4. second \in Nat /\ second >= pend[1]
    BY <1>1, <1>2, <1>3, ServerAssumption DEF Started, Least, Greatest
<1>5. StartExecs(tasks, run, pend) =
        IF tasks = 0 THEN pend ELSE [q \in Queues |-> IF q = 0 THEN first ELSE second]
  <2>1. pend[0] \in Nat /\ pend[1] \in Nat
      BY <1>1
  <2>2. PICK x \in Nat : x = pend[0]
      BY <2>1
  <2>3. PICK y \in Nat : y = pend[1]
      BY <2>1
  <2>4. PICK n \in Nat : n = share
      BY <1>2
  <2>5. PICK f \in Nat : f = first
      BY <1>3
  <2>6. /\ StartLoop(tasks, run, y, n)[x] = x + Started(tasks, run, x, y, n)
        /\ StartLoop(tasks, run, f, n)[y] = y + Started(tasks, run, y, f, n)
      BY LoopStops
  <2>7. /\ first = StartLoop(tasks, run, pend[1], share)[pend[0]]
        /\ second = IF BothQueues THEN StartLoop(tasks, run, first, share)[pend[1]] ELSE pend[1]
      BY <2>2, <2>3, <2>4, <2>5, <2>6, Zenon DEF first, second
  <2> HIDE DEF first, second
  <2> QED
      BY <2>7 DEF StartExecs, share, keep
<1> HIDE DEF second
<1> QED
    BY <1>1, <1>3, <1>4, <1>5

(* update keeps the counts of pending and submitted jobs natural numbers.  *)
LEMMA UpdateTypes ==
    ASSUME NEW tasks \in Nat, NEW run \in Nat, NEW pend \in [Queues -> Nat],
           jobs \in [Queues -> Nat], Update(tasks, run, pend)
    PROVE  /\ pending' \in [Queues -> Nat]
           /\ jobs' \in [Queues -> Nat]
           /\ pc' = "check"
<1> DEFINE started == StartExecs(tasks, run, pend)
<1>1. started \in [Queues -> Nat] /\ \A q \in Queues : started[q] >= pend[q]
    BY StartExecsAdds
<1>2. /\ pending' = started
      /\ jobs' = [q \in Queues |-> jobs[q] + (started[q] - pend[q])]
      /\ pc' = "check"
    BY DEF Update
<1> HIDE DEF started
<1> QED
    BY <1>1, <1>2

(* task_queue.len() is a number.                                           *)
LEMMA QueueLen ==
    ASSUME NEW Q, Q \subseteq Clients
    PROVE  Cardinality(Q) \in Nat
    BY FS_Subset, FS_CardinalityType, ServerAssumption

(* Every message the processes build is one of Messages.                   *)
LEMMA MessageTypes ==
    /\ \A q \in Queues : YourObedientServant(q) \in Messages
    /\ \A c \in Clients : TaskMsg(c) \in Messages /\ TaskFailed(c) \in Messages
    /\ \A c \in Clients, n \in Int : TaskOutput(c, n) \in Messages /\ TaskDone(c, n) \in Messages
    /\ PissOff \in Messages /\ Dropped \in Messages
    BY DEF Messages, Message, YourObedientServant, TaskMsg, TaskFailed, TaskOutput,
           TaskDone, PissOff, Dropped, Results, Final

-----------------------------------------------------------------------------
(* Type correctness, action by action.                                     *)

(* A send leaves the buffers well-typed.                                   *)
LEMMA SendType ==
    ASSUME NEW f \in [Remotes -> Seq(Messages)], NEW x \in Remotes, NEW m \in Messages
    PROVE  [f EXCEPT ![x] = Append(@, m)] \in [Remotes -> Seq(Messages)]
    BY AppendFacts

(* The loop takes a well-typed message and leaves the others.              *)
LEMMA ReceiveType ==
    ASSUME up \in [Remotes -> Seq(Messages)], NEW c \in Remotes, NEW type, Receive(c, type)
    PROVE  /\ Head(up[c]) \in Messages /\ Head(up[c]).type = type
           /\ up' \in [Remotes -> Seq(Messages)]
           /\ idle' \in BOOLEAN /\ pc = "select"
           /\ UNCHANGED <<proc, conn, historyFile>>
<1>1. up[c] \in Seq(Messages) /\ up[c] # <<>>
    BY DEF Receive
<1>2. Head(up[c]) \in Messages /\ Tail(up[c]) \in Seq(Messages)
    BY <1>1, TailFacts
<1> QED
    BY <1>2 DEF Receive

(* Results are about a client's task.                                      *)
LEMMA ResultType ==
    ASSUME NEW m \in Messages, m.type \in Results \cup {"Task"}
    PROVE  m.task \in Clients
    BY DEF Messages, Results, Final

(* send_to_paired_remote keeps the types of what it changes.               *)
LEMMA SendToPairedType ==
    ASSUME TypeOK, NEW e \in Execs, pairedId[e] # None, NEW m \in Messages, SendToPaired(e, m)
    PROVE  /\ down' \in [Remotes -> Seq(Messages)]
           /\ connType' \in [Remotes -> {"none", "Pending", "Client", "Exec", "Dead"}]
           /\ \A c \in Clients : connType'[c] # "Exec"
<1>1. pairedId[e] \in Remotes
    BY DEF TypeOK, ServerTypeOK, Remotes
<1>2. [down EXCEPT ![pairedId[e]] = Append(@, m)] \in [Remotes -> Seq(Messages)]
    BY <1>1, SendType DEF TypeOK, FabricTypeOK
<1> QED
    BY <1>1, <1>2 DEF SendToPaired, TypeOK, FabricTypeOK, ServerTypeOK, Remotes

(* exec_is_ready keeps the types of what it changes.                       *)
LEMMA ExecIsReadyType ==
    ASSUME TypeOK, NEW e \in Execs, NEW run \in Nat, NEW pend \in [Queues -> Nat],
           ExecIsReady(e, run, pend)
    PROVE  /\ pending' \in [Queues -> Nat] /\ jobs' \in [Queues -> Nat] /\ pc' = "check"
           /\ execQueue' \in Seq(Execs)
           /\ pairedId' \in [Remotes -> Remotes \cup {None}]
           /\ \A f \in Execs : pairedId'[f] \in Clients \cup {None}
<1>1. Cardinality(taskQueue) \in Nat /\ jobs \in [Queues -> Nat]
    BY QueueLen DEF TypeOK, ServerTypeOK, FabricTypeOK
<1>2. /\ pending' \in [Queues -> Nat] /\ jobs' \in [Queues -> Nat] /\ pc' = "check"
    BY <1>1, UpdateTypes DEF ExecIsReady
<1>3. execQueue' \in Seq(Execs)
    BY AppendFacts DEF ExecIsReady, TypeOK, ServerTypeOK
<1>4. pairedId' = [pairedId EXCEPT ![e] = None]
    BY DEF ExecIsReady, Unpair
<1> QED
    BY <1>2, <1>3, <1>4 DEF TypeOK, ServerTypeOK, Remotes

(* The server's handlers.                                                  *)
LEMMA TypeServer ==
    ASSUME TypeOK, ServerNext, UNCHANGED <<clientVars, execVars>>
    PROVE  TypeOK'
<1> USE DEF TypeOK, FabricTypeOK, ServerTypeOK, ClientTypeOK, ExecTypeOK, clientVars,
            execVars, ServerEnds
<1>0. /\ Cardinality(taskQueue) \in Nat
      /\ \A c \in Clients : Cardinality(taskQueue \cup {c}) \in Nat
    BY QueueLen
<1>1. ASSUME NEW c \in Remotes, Accept(c) PROVE TypeOK'
    BY <1>1 DEF Accept, EndArm, Shutdown, Remotes
<1>2. ASSUME Watchdog PROVE TypeOK'
    BY <1>2, <1>0, UpdateTypes DEF Watchdog
<1>3. ASSUME CheckDone \/ ReleaseDone PROVE TypeOK'
    BY <1>3 DEF CheckDone, ReleaseDone, EndArm, Shutdown
<1>4. ASSUME ReleaseDelayExpires \/ IdleDelayExpires PROVE TypeOK'
    BY <1>4 DEF ReleaseDelayExpires, IdleDelayExpires
<1>5. ASSUME NEW c \in Clients, Assign(c) PROVE TypeOK'
  <2> DEFINE e == Head(execQueue)
  <2>1. e \in Execs /\ Tail(execQueue) \in Seq(Execs) /\ e \in Remotes /\ c \in Remotes
      BY <1>5 DEF Assign, Remotes
  <2>2. [down EXCEPT ![e] = Append(@, TaskMsg(c))] \in [Remotes -> Seq(Messages)]
      BY <2>1, SendType, MessageTypes
  <2>3. down' \in [Remotes -> Seq(Messages)]
      BY <1>5, <2>2 DEF Assign
  <2>4. pairedId' = pairedId \/ pairedId' = [pairedId EXCEPT ![c] = e, ![e] = c]
      BY <1>5 DEF Assign
  <2>5. /\ pairedId' \in [Remotes -> Remotes \cup {None}]
        /\ \A f \in Execs : pairedId'[f] \in Clients \cup {None}
    <3>1. CASE pairedId' = pairedId
        BY <3>1
    <3>2. CASE pairedId' = [pairedId EXCEPT ![c] = e, ![e] = c]
      <4> HIDE DEF e
      <4>1. \A f \in Remotes : pairedId'[f] = IF f = e THEN c ELSE IF f = c THEN e ELSE pairedId[f]
          BY <2>1, <3>2
      <4>2. \A f \in Execs : f # c /\ f \in Remotes
          BY FabricAssumption DEF Remotes
      <4> QED
          BY <2>1, <3>2, <4>1, <4>2
    <3> QED
        BY <2>4, <3>1, <3>2
  <2>6. pc' \in {"check", "panic", "failed"}
      BY <1>5 DEF Assign
  <2> QED
      BY <1>5, <2>1, <2>3, <2>5, <2>6 DEF Assign, PopTask, PopExec
<1>6. ASSUME Release PROVE TypeOK'
  <2> DEFINE e == Head(execQueue)
  <2>1. e \in Execs /\ Tail(execQueue) \in Seq(Execs) /\ e \in Remotes
      BY <1>6 DEF Release, Remotes
  <2>2. [down EXCEPT ![e] = Append(@, PissOff)] \in [Remotes -> Seq(Messages)]
      BY <2>1, SendType, MessageTypes
  <2>3. down' \in [Remotes -> Seq(Messages)]
      BY <1>6, <2>2 DEF Release
  <2>4. /\ runningCount' \in Nat
        /\ pc' \in {"release", "panic", "failed"}
      BY <1>6 DEF Release, DecrementRunning
  <2>5. /\ connType' \in [Remotes -> {"none", "Pending", "Client", "Exec", "Dead"}]
        /\ \A c \in Clients : connType'[c] # "Exec"
      BY <1>6, <2>1 DEF Release, Remotes
  <2> QED
      BY <1>6, <2>1, <2>3, <2>4, <2>5 DEF Release, PopExec
<1>7. ASSUME NEW e \in Execs, RecvServant(e) PROVE TypeOK'
  <2>1. e \in Remotes /\ Receive(e, "YourObedientServant")
      BY <1>7 DEF RecvServant, Remotes
  <2> DEFINE q == Head(up[e]).arg
             pend == PhonedHome(pending, q)
  <2>2. pend \in [Queues -> Nat] /\ runningCount + 1 \in Nat
    <3> HIDE DEF q
    <3>1. \A r \in Queues : pend[r] = IF r = q /\ pending[r] > 0 THEN pending[r] - 1 ELSE pending[r]
        BY DEF PhonedHome
    <3>2. pend = [r \in Queues |-> pend[r]]
        BY DEF PhonedHome
    <3>3. \A r \in Queues : pend[r] \in Nat
      <4> HIDE DEF pend
      <4> QED
          BY <3>1
    <3> HIDE DEF pend
    <3> QED
        BY <3>2, <3>3
  <2>3. ExecIsReady(e, runningCount + 1, pend)
      BY <1>7 DEF RecvServant
  <2>4. /\ pending' \in [Queues -> Nat] /\ jobs' \in [Queues -> Nat] /\ pc' = "check"
        /\ execQueue' \in Seq(Execs)
        /\ pairedId' \in [Remotes -> Remotes \cup {None}]
        /\ \A f \in Execs : pairedId'[f] \in Clients \cup {None}
    <3> HIDE DEF pend, TypeOK
    <3> QED
        BY <2>2, <2>3, ExecIsReadyType
  <2>5. /\ connType' \in [Remotes -> {"none", "Pending", "Client", "Exec", "Dead"}]
        /\ \A c \in Clients : connType'[c] # "Exec"
      BY <1>7, FabricAssumption DEF RecvServant, Remotes
  <2> QED
      BY <1>7, <2>1, <2>2, <2>4, <2>5, ReceiveType DEF RecvServant
<1>8. ASSUME NEW c \in Clients, RecvTask(c) PROVE TypeOK'
  <2>1. c \in Remotes /\ Receive(c, "Task")
      BY <1>8 DEF RecvTask, Remotes
  <2>2. /\ pending' \in [Queues -> Nat] /\ jobs' \in [Queues -> Nat] /\ pc' = "check"
      BY <1>8, <1>0, UpdateTypes DEF RecvTask
  <2> QED
      BY <1>8, <2>1, <2>2, ReceiveType DEF RecvTask
<1>9. ASSUME NEW e \in Execs, RecvOutput(e) PROVE TypeOK'
  <2>1. e \in Remotes /\ Receive(e, "TaskOutput")
      BY <1>9 DEF RecvOutput, Remotes
  <2>2. /\ Head(up[e]) \in Messages
        /\ up' \in [Remotes -> Seq(Messages)]
        /\ idle' \in BOOLEAN /\ pc = "select"
        /\ UNCHANGED <<proc, conn, historyFile>>
      BY <2>1, ReceiveType
  <2>3. /\ down' \in [Remotes -> Seq(Messages)]
        /\ connType' \in [Remotes -> {"none", "Pending", "Client", "Exec", "Dead"}]
        /\ \A c \in Clients : connType'[c] # "Exec"
    <3>1. CASE pairedId[e] = None
        BY <1>9, <3>1 DEF RecvOutput
    <3>2. CASE pairedId[e] # None
      <4>1. SendToPaired(e, Head(up[e]))
          BY <1>9, <3>2 DEF RecvOutput
      <4> HIDE DEF TypeOK
      <4> QED
          BY <2>2, <3>2, <4>1, SendToPairedType
    <3> QED
        BY <3>1, <3>2
  <2>4. pc' \in {"select", "panic"}
      BY <1>9, <2>2 DEF RecvOutput
  <2> QED
      BY <1>9, <2>2, <2>3, <2>4 DEF RecvOutput
<1>10. ASSUME NEW e \in Execs, RecvFinal(e, "TaskDone") \/ RecvFinal(e, "TaskFailed"),
              inTheMaking' \subseteq Clients
       PROVE  TypeOK'
  <2>1. e \in Remotes /\ (Receive(e, "TaskDone") \/ Receive(e, "TaskFailed"))
      BY <1>10 DEF RecvFinal, Remotes
  <2>2. /\ Head(up[e]) \in Messages
        /\ up' \in [Remotes -> Seq(Messages)]
        /\ idle' \in BOOLEAN /\ pc = "select"
        /\ UNCHANGED <<proc, conn, historyFile>>
      BY <2>1, ReceiveType
  <2>3. CASE pairedId[e] = None
      BY <1>10, <2>2, <2>3 DEF RecvFinal
  <2>4. CASE pairedId[e] # None
    <3>1. SendToPaired(e, Head(up[e])) /\ ExecIsReady(e, runningCount, pending)
        BY <1>10, <2>4 DEF RecvFinal
    <3>2. /\ down' \in [Remotes -> Seq(Messages)]
          /\ connType' \in [Remotes -> {"none", "Pending", "Client", "Exec", "Dead"}]
          /\ \A c \in Clients : connType'[c] # "Exec"
      <4> HIDE DEF TypeOK
      <4> QED
          BY <2>2, <2>4, <3>1, SendToPairedType
    <3>3. runningCount \in Nat /\ pending \in [Queues -> Nat]
        OBVIOUS
    <3>4. /\ pending' \in [Queues -> Nat] /\ jobs' \in [Queues -> Nat] /\ pc' = "check"
          /\ execQueue' \in Seq(Execs)
          /\ pairedId' \in [Remotes -> Remotes \cup {None}]
          /\ \A f \in Execs : pairedId'[f] \in Clients \cup {None}
      <4> HIDE DEF TypeOK
      <4> QED
          BY <3>1, <3>3, ExecIsReadyType
    <3>5. /\ finishCount' = finishCount + 1
          /\ UNCHANGED <<taskQueue, submitCount, runningCount, lastSubmit>>
        BY <1>10, <2>4 DEF RecvFinal
    <3> QED
        BY <1>10, <2>2, <3>2, <3>4, <3>5
  <2> QED
      BY <2>3, <2>4
<1>11. ASSUME NEW e \in Execs, RecvDone(e) \/ RecvFailed(e) PROVE TypeOK'
  <2>1. CASE RecvDone(e)
    <3>1. e \in Remotes /\ Receive(e, "TaskDone")
        BY <2>1 DEF RecvDone, RecvFinal, Remotes
    <3>2. Head(up[e]).task \in Clients
        BY <3>1, ReceiveType, ResultType DEF Results, Final
    <3> QED
        BY <2>1, <3>2, <1>10 DEF RecvDone
  <2>2. CASE RecvFailed(e)
      BY <2>2, <1>10 DEF RecvFailed
  <2> QED
      BY <1>11, <2>1, <2>2
<1>12. ASSUME NEW c \in Remotes, RecvDropped(c) PROVE TypeOK'
  <2>1. Receive(c, "Dropped")
      BY <1>12 DEF RecvDropped
  <2>2. down' \in [Remotes -> Seq(Messages)]
    <3>1. CASE Orphans(c)
      <4>1. pairedId[c] \in Clients /\ pairedId[c] \in Remotes
          BY <3>1 DEF Orphans, Remotes
      <4>2. [down EXCEPT ![pairedId[c]] = Append(@, TaskFailed(pairedId[c]))]
                \in [Remotes -> Seq(Messages)]
          BY <4>1, SendType, MessageTypes
      <4> QED
          BY <1>12, <4>2 DEF RecvDropped
    <3>2. CASE ~Orphans(c)
        BY <1>12, <3>2 DEF RecvDropped
    <3> QED
        BY <3>1, <3>2
  <2>3. /\ runningCount' \in Nat
        /\ pc' \in {"select", "failed", "panic"}
        /\ connType' \in [Remotes -> {"none", "Pending", "Client", "Exec", "Dead"}]
        /\ \A d \in Clients : connType'[d] # "Exec"
      BY <1>12, <2>1 DEF RecvDropped, Receive, Remotes
  <2> QED
      BY <1>12, <2>1, <2>2, <2>3, ReceiveType DEF RecvDropped
<1> QED
    BY <1>1, <1>2, <1>3, <1>4, <1>5, <1>6, <1>7, <1>8, <1>9, <1>11, <1>12
       DEF ServerNext, HandleMsg, CheckQueues

(* LoseTail keeps the buffer well-typed.                                   *)
LEMMA LoseTailType ==
    ASSUME up \in [Remotes -> Seq(Messages)], NEW c \in Remotes, LoseTail(c)
    PROVE  up' \in [Remotes -> Seq(Messages)]
<1>1. PICK k \in 0 .. Len(up[c]) : up' = [up EXCEPT ![c] = SubSeq(@, 1, k)]
    BY DEF LoseTail
<1>2. SubSeq(up[c], 1, k) \in Seq(Messages)
    BY PrefixFacts
<1> QED
    BY <1>1, <1>2

(* The relay tasks and the cluster.                                        *)
LEMMA TypeFabric ==
    ASSUME TypeOK, UNCHANGED <<serverVars, clientVars, execVars>>,
           \/ \E c \in Remotes : ConnEof(c) \/ ConnReturn(c) \/ ConnWriteError(c)
           \/ \E q \in Queues : LoseJob(q)
    PROVE  TypeOK'
<1> USE DEF TypeOK, FabricTypeOK, ServerTypeOK, ClientTypeOK, ExecTypeOK, serverVars,
            clientVars, execVars
<1>1. ASSUME NEW c \in Remotes, ConnEof(c) PROVE TypeOK'
    BY <1>1, SendType, MessageTypes DEF ConnEof
<1>2. ASSUME NEW c \in Remotes, ConnReturn(c) PROVE TypeOK'
    BY <1>2 DEF ConnReturn
<1>3. ASSUME NEW c \in Remotes, ConnWriteError(c) PROVE TypeOK'
  <2>1. up' \in [Remotes -> Seq(Messages)]
      BY <1>3, LoseTailType DEF ConnWriteError
  <2>2. /\ conn' = [conn EXCEPT ![c] = "done"] /\ down' = [down EXCEPT ![c] = <<>>]
        /\ UNCHANGED <<pc, proc, jobs>>
      BY <1>3 DEF ConnWriteError
  <2> QED
      BY <2>1, <2>2
<1>4. ASSUME NEW q \in Queues, LoseJob(q) PROVE TypeOK'
    BY <1>4 DEF LoseJob
<1> QED
    BY <1>1, <1>2, <1>3, <1>4

(* A first message is well-typed.                                          *)
LEMMA ConnectType ==
    ASSUME TypeOK, NEW c \in Remotes, NEW state \in {"waiting", "idle"}, NEW m \in Messages,
           Connect(c, state, m)
    PROVE  /\ proc' \in [Remotes -> {"none", "waiting", "idle", "running", "gone"}]
           /\ \A e \in Execs : proc'[e] = "running" => proc[e] = "running"
           /\ conn' \in [Remotes -> {"none", "backlog", "open", "eof", "done"}]
           /\ up' \in [Remotes -> Seq(Messages)]
<1>1. PICK first \in {m, Dropped} : up' = [up EXCEPT ![c] = <<first>>]
    BY DEF Connect
<1>2. <<first>> \in Seq(Messages)
    BY <1>1, MessageTypes
<1> QED
    BY <1>1, <1>2 DEF Connect, TypeOK, FabricTypeOK, Remotes

(* The client's steps.                                                     *)
LEMMA TypeClient ==
    ASSUME TypeOK, NEW c \in Clients, ClientNext(c), UNCHANGED <<serverVars, execVars>>
    PROVE  TypeOK'
<1> USE DEF TypeOK, FabricTypeOK, ServerTypeOK, ClientTypeOK, ExecTypeOK, serverVars,
            clientVars, execVars
<1>0. c \in Remotes
    BY DEF Remotes
<1>1. ASSUME ClientConnect(c) PROVE TypeOK'
  <2>1. /\ proc' \in [Remotes -> {"none", "waiting", "idle", "running", "gone"}]
        /\ \A e \in Execs : proc'[e] = "running" => proc[e] = "running"
        /\ conn' \in [Remotes -> {"none", "backlog", "open", "eof", "done"}]
        /\ up' \in [Remotes -> Seq(Messages)]
    <3>1. TaskMsg(c) \in Messages /\ Connect(c, "waiting", TaskMsg(c))
        BY <1>1, MessageTypes DEF ClientConnect
    <3> HIDE DEF TypeOK
    <3> QED
        BY <1>0, <3>1, ConnectType
  <2> QED
      BY <1>1, <2>1 DEF ClientConnect
<1>2. ASSUME ClientRefused(c) PROVE TypeOK'
    BY <1>0, <1>2 DEF ClientRefused, Statuses, Remotes
<1>3. ASSUME NEW type, ClientRead(c, type)
      PROVE  /\ Head(down[c]) \in Messages
             /\ down' \in [Remotes -> Seq(Messages)]
             /\ UNCHANGED <<pc, conn, up, jobs>>
  <2>1. Head(down[c]) \in Messages /\ Tail(down[c]) \in Seq(Messages)
      BY <1>0, <1>3, TailFacts DEF ClientRead
  <2> QED
      BY <1>0, <1>3, <2>1 DEF ClientRead
<1>4. ASSUME NEW s \in Statuses, Exit(c, s)
      PROVE  /\ proc' \in [Remotes -> {"none", "waiting", "idle", "running", "gone"}]
             /\ \A e \in Execs : proc'[e] = "running" => proc[e] = "running"
             /\ status' \in [Clients -> Statuses]
    BY <1>0, <1>4 DEF Exit, Remotes
<1>5. ASSUME ClientOutput(c) PROVE TypeOK'
  <2>1. Head(down[c]).arg \in Int
      BY <1>3, <1>5 DEF ClientOutput, Messages, Queues
  <2>2. got' \in [Clients -> Seq(Int)]
      BY <1>5, <2>1, AppendFacts DEF ClientOutput
  <2> QED
      BY <1>3, <1>5, <2>2 DEF ClientOutput
<1>6. ASSUME ClientFailed(c) PROVE TypeOK'
    BY <1>3, <1>4, <1>6 DEF ClientFailed, Statuses
<1>7. ASSUME ClientDone(c) PROVE TypeOK'
  <2>1. CASE Head(down[c]).arg = NoCode
      BY <1>3, <1>7, <2>1 DEF ClientDone, Statuses
  <2>2. CASE Head(down[c]).arg # NoCode
    <3>1. Exit(c, "ok") \/ Exit(c, "err")
        BY <1>7, <2>2 DEF ClientDone
    <3> QED
        BY <1>3, <1>4, <1>7, <3>1 DEF ClientDone, Statuses
  <2> QED
      BY <2>1, <2>2
<1>8. ASSUME ClientEof(c) PROVE TypeOK'
    BY <1>4, <1>8 DEF ClientEof, Statuses
<1>9. ASSUME KillClient(c) PROVE TypeOK'
  <2>1. up' \in [Remotes -> Seq(Messages)]
      BY <1>0, <1>9, LoseTailType DEF KillClient
  <2> QED
      BY <1>4, <1>9, <2>1 DEF KillClient, Statuses
<1> QED
    BY <1>1, <1>2, <1>5, <1>6, <1>7, <1>8, <1>9 DEF ClientNext, ClientStep

(* The exec's steps.                                                       *)
LEMMA TypeExec ==
    ASSUME TypeOK, NEW e \in Execs, ExecNext(e), UNCHANGED <<serverVars, clientVars>>
    PROVE  TypeOK'
<1> USE DEF TypeOK, FabricTypeOK, ServerTypeOK, ClientTypeOK, ExecTypeOK, serverVars,
            clientVars, execVars
<1>0. e \in Remotes
    BY DEF Remotes
<1>1. ASSUME ExecConnect(e) PROVE TypeOK'
  <2>1. PICK q \in Queues : /\ jobs[q] > 0
                            /\ jobs' = [jobs EXCEPT ![q] = @ - 1]
                            /\ Connect(e, "idle", YourObedientServant(q))
                            /\ UNCHANGED <<pc, down, execVars>>
      BY <1>1 DEF ExecConnect
  <2>2. /\ proc' \in [Remotes -> {"none", "waiting", "idle", "running", "gone"}]
        /\ \A f \in Execs : proc'[f] = "running" => proc[f] = "running"
        /\ conn' \in [Remotes -> {"none", "backlog", "open", "eof", "done"}]
        /\ up' \in [Remotes -> Seq(Messages)]
    <3>1. YourObedientServant(q) \in Messages
        BY MessageTypes
    <3> HIDE DEF TypeOK
    <3> QED
        BY <1>0, <2>1, <3>1, ConnectType
  <2>3. jobs' \in [Queues -> Nat]
      BY <2>1
  <2> QED
      BY <2>1, <2>2, <2>3
<1>2. ASSUME NEW type, ExecRead(e, type)
      PROVE  /\ Head(down[e]) \in Messages /\ Head(down[e]).type = type
             /\ down' \in [Remotes -> Seq(Messages)]
             /\ UNCHANGED <<pc, conn, jobs>>
  <2>1. Head(down[e]) \in Messages /\ Tail(down[e]) \in Seq(Messages)
      BY <1>0, <1>2, TailFacts DEF ExecRead
  <2> QED
      BY <1>0, <1>2, <2>1 DEF ExecRead
<1>3. ASSUME ExecLeaves(e)
      PROVE  /\ proc' \in [Remotes -> {"none", "waiting", "idle", "running", "gone"}]
             /\ running' \in [Execs -> Clients \cup {None}]
             /\ \A f \in Execs : proc'[f] = "running" => running'[f] \in Clients
             /\ UNCHANGED sent
    BY <1>0, <1>3 DEF ExecLeaves, Remotes
<1>4. ASSUME StartTask(e) PROVE TypeOK'
  <2>1. Head(down[e]).task \in Clients
      BY <1>2, <1>4, ResultType DEF StartTask
  <2> QED
      BY <1>0, <1>2, <1>4, <2>1 DEF StartTask, Remotes
<1>5. ASSUME StartFails(e) PROVE TypeOK'
  <2>1. Head(down[e]).task \in Clients
      BY <1>2, <1>5, ResultType DEF StartFails
  <2>2. up' \in [Remotes -> Seq(Messages)]
      BY <1>0, <1>5, <2>1, SendType, MessageTypes DEF StartFails
  <2> QED
      BY <1>2, <1>5, <2>2 DEF StartFails
<1>6. ASSUME SendOutput(e) PROVE TypeOK'
  <2>1. running[e] \in Clients
      BY <1>6 DEF SendOutput
  <2>2. up' \in [Remotes -> Seq(Messages)]
    <3>1. sent[running[e]] + 1 \in Int
        BY <2>1, ExecAssumption
    <3>2. TaskOutput(running[e], sent[running[e]] + 1) \in Messages
        BY <2>1, <3>1, MessageTypes
    <3> QED
        BY <1>0, <1>6, <3>2, SendType DEF SendOutput
  <2>3. sent' \in [Clients -> 0 .. MaxOutputs]
      BY <1>6, <2>1, ExecAssumption DEF SendOutput
  <2> QED
      BY <1>6, <2>2, <2>3 DEF SendOutput
<1>7. ASSUME SendDone(e) PROVE TypeOK'
  <2>1. running[e] \in Clients /\ \A code \in ExitCodes : code \in Int
      BY <1>7 DEF SendDone, ExitCodes, NoCode
  <2>2. PICK code \in ExitCodes : up' = [up EXCEPT ![e] = Append(@, TaskDone(running[e], code))]
      BY <1>7 DEF SendDone
  <2>3. up' \in [Remotes -> Seq(Messages)]
      BY <1>0, <2>1, <2>2, SendType, MessageTypes
  <2> QED
      BY <1>0, <1>7, <2>3 DEF SendDone, TaskEnds, Remotes
<1>8. ASSUME ExecPissOff(e) PROVE TypeOK'
    BY <1>2, <1>3, <1>8 DEF ExecPissOff
<1>9. ASSUME ExecEof(e) PROVE TypeOK'
    BY <1>3, <1>9 DEF ExecEof
<1>10. ASSUME KillExec(e) PROVE TypeOK'
  <2>1. up' \in [Remotes -> Seq(Messages)]
      BY <1>0, <1>10, LoseTailType DEF KillExec
  <2> QED
      BY <1>3, <1>10, <2>1 DEF KillExec
<1> QED
    BY <1>1, <1>4, <1>5, <1>6, <1>7, <1>8, <1>9, <1>10 DEF ExecNext, ExecStep

(* No step leaves the types.                                               *)
LEMMA TypeStep == TypeOK /\ [Next]_vars => TypeOK'
<1> SUFFICES ASSUME TypeOK, [Next]_vars PROVE TypeOK'
    OBVIOUS
<1>1. CASE Next
    BY <1>1, TypeServer, TypeFabric, TypeClient, TypeExec DEF Next
<1>2. CASE UNCHANGED vars
    BY <1>2 DEF vars, serverVars, clientVars, execVars, TypeOK, FabricTypeOK, ServerTypeOK,
                ClientTypeOK, ExecTypeOK
<1> QED
    BY <1>1, <1>2

(* The initial state is well-typed.                                        *)
LEMMA TypeInit == Init => TypeOK
<1> SUFFICES ASSUME Init PROVE TypeOK
    OBVIOUS
<1> USE DEF Init, FabricInit, ServerInit, ClientInit, ExecInit
<1>1. FabricTypeOK
    BY DEF FabricTypeOK
<1>2. ServerTypeOK
  <2>1. \A e \in Execs : e \in Remotes /\ pairedId[e] = None
      BY DEF Remotes
  <2>2. \A c \in Clients : c \in Remotes /\ connType[c] = "none"
      BY DEF Remotes
  <2>3. connType \in [Remotes -> {"none", "Pending", "Client", "Exec", "Dead"}]
      OBVIOUS
  <2>4. pairedId \in [Remotes -> Remotes \cup {None}]
      OBVIOUS
  <2>5. pending \in [Queues -> Nat]
      OBVIOUS
  <2>6. execQueue \in Seq(Execs)
      OBVIOUS
  <2>7. idle \in BOOLEAN
      BY Zenon
  <2>8. /\ submitCount \in Nat /\ finishCount \in Nat /\ runningCount \in Nat
        /\ lastSubmit \in {"none", "recent", "old"}
        /\ taskQueue \subseteq Clients /\ inTheMaking \subseteq Clients /\ historyFile \subseteq Clients
      OBVIOUS
  <2> HIDE DEF Init
  <2> QED
      BY <2>1, <2>2, <2>3, <2>4, <2>5, <2>6, <2>7, <2>8 DEF ServerTypeOK
<1>3. ClientTypeOK
    BY DEF ClientTypeOK, Statuses
<1>4. ExecTypeOK
    BY ExecAssumption DEF ExecTypeOK, Remotes
<1> QED
    BY <1>1, <1>2, <1>3, <1>4 DEF TypeOK

(* Type correctness: in particular neither decrement of running_exec_count *)
(* goes below zero without ending the server, and an exec is only ever     *)
(* paired with a client.                                                   *)
THEOREM TypeCorrect == Spec => []TypeOK
    BY TypeInit, TypeStep, PTL DEF Spec

-----------------------------------------------------------------------------
(* Only the server loop changes the server's state.                        *)
LEMMA ServerOwns ==
    ASSUME [Next]_vars
    PROVE  UNCHANGED <<pc, serverVars>> \/ (ServerNext /\ UNCHANGED <<clientVars, execVars>>)
    BY DEF Next, vars, ConnEof, ConnReturn, ConnWriteError, LoseJob, ClientNext, ClientStep,
           ClientConnect, ClientRefused, ClientOutput, ClientFailed, ClientDone, ClientEof,
           ClientRead, KillClient, ExecNext, ExecStep, ExecConnect, StartTask, StartFails,
           SendOutput, SendDone, ExecPissOff, ExecEof, ExecRead, KillExec

-----------------------------------------------------------------------------
(* Turns.                                                                  *)

ExecOK(e) == ExecDown(e) /\ ExecUp(e) /\ ExecPaired(e)

(* t is s, without its first message or without some of its last ones.     *)
Shrinks(s, t) ==
    \E d \in {0, 1} : /\ Len(t) + d <= Len(s)
                      /\ \A i \in 1 .. Len(t) : t[i] = s[i + d]

(* What receiving and dying do to a buffer.                                *)
LEMMA ShrinkFacts ==
    ASSUME NEW S, NEW s \in Seq(S)
    PROVE  /\ Shrinks(s, s)
           /\ Shrinks(s, <<>>)
           /\ s # <<>> => Shrinks(s, Tail(s))
           /\ \A k \in 0 .. Len(s) : Shrinks(s, SubSeq(s, 1, k))
<1>1. Shrinks(s, s)
  <2>1. Len(s) \in Nat /\ Len(s) + 0 <= Len(s) /\ \A i \in 1 .. Len(s) : s[i] = s[i + 0]
      OBVIOUS
  <2> QED
      BY <2>1 DEF Shrinks
<1>2. Shrinks(s, <<>>)
  <2>1. Len(s) \in Nat /\ Len(<<>>) + 0 <= Len(s) /\ \A i \in 1 .. Len(<<>>) : <<>>[i] = s[i + 0]
      OBVIOUS
  <2> QED
      BY <2>1 DEF Shrinks
<1>3. ASSUME s # <<>> PROVE Shrinks(s, Tail(s))
  <2>1. Len(Tail(s)) + 1 <= Len(s) /\ \A i \in 1 .. Len(Tail(s)) : Tail(s)[i] = s[i + 1]
      BY <1>3, TailFacts
  <2> QED
      BY <2>1 DEF Shrinks
<1>4. ASSUME NEW k \in 0 .. Len(s) PROVE Shrinks(s, SubSeq(s, 1, k))
  <2>1. Len(SubSeq(s, 1, k)) = k /\ \A i \in 1 .. k : SubSeq(s, 1, k)[i] = s[i]
      BY PrefixFacts
  <2>2. Len(SubSeq(s, 1, k)) + 0 <= Len(s)
      BY <2>1
  <2>3. \A i \in 1 .. Len(SubSeq(s, 1, k)) : SubSeq(s, 1, k)[i] = s[i + 0]
      BY <2>1
  <2> QED
      BY <2>2, <2>3 DEF Shrinks
<1> QED
    BY <1>1, <1>2, <1>3, <1>4

-----------------------------------------------------------------------------
(* Frames: what leaves one remote's part of the invariant alone.           *)

(* An exec whose buffers only shrink, whose pairing stays and which is not *)
(* put into exec_queue.                                                    *)
LEMMA ExecFrame ==
    ASSUME TypeOK, TypeOK', NEW f \in Execs, ExecOK(f),
           Shrinks(up[f], up'[f]),
           down'[f] = down[f] \/ down'[f] = <<>>,
           pairedId'[f] = pairedId[f],
           pairedId[f] # None => pairedId'[pairedId[f]] = pairedId[pairedId[f]],
           InQueue(f)' => InQueue(f),
           proc'[f] = "running" => proc[f] = "running" /\ running'[f] = running[f],
           conn'[f] \in {"none", "backlog"} => conn[f] \in {"none", "backlog"}
    PROVE  ExecOK(f)'
<1>1. ExecDown(f)'
    BY DEF ExecOK, ExecDown
<1>2. ExecPaired(f)'
    BY DEF ExecOK, ExecPaired
<1>3. ExecUp(f)'
  <2>1. PICK d \in {0, 1} : /\ Len(up'[f]) + d <= Len(up[f])
                            /\ \A i \in 1 .. Len(up'[f]) : up'[f][i] = up[f][i + d]
      BY DEF Shrinks
  <2>2. Len(up[f]) \in Nat /\ Len(up'[f]) \in Nat
      BY DEF TypeOK, FabricTypeOK, Remotes
  <2> SUFFICES ASSUME NEW i \in 1 .. Len(up'[f])
               PROVE  \/ up'[f][i].type = "Dropped"
                      \/ up'[f][i].type = "YourObedientServant" /\ i = 1
                         /\ pairedId'[f] = None /\ ~InQueue(f)' /\ down'[f] = <<>>
                      \/ up'[f][i].type = "TaskOutput" /\ up'[f][i].task = pairedId'[f] /\ down'[f] = <<>>
                      \/ up'[f][i].type \in Final /\ up'[f][i].task = pairedId'[f] /\ down'[f] = <<>>
                         /\ proc'[f] # "running"
                         /\ \A j \in i + 1 .. Len(up'[f]) : up'[f][j].type = "Dropped"
      BY DEF ExecUp
  <2>3. i + d \in 1 .. Len(up[f]) /\ up'[f][i] = up[f][i + d] /\ (i + d = 1 => i = 1)
      BY <2>1, <2>2
  <2>4. \A j \in i + 1 .. Len(up'[f]) : j + d \in (i + d) + 1 .. Len(up[f]) /\ up'[f][j] = up[f][j + d]
      BY <2>1, <2>2
  <2> QED
      BY <2>3, <2>4 DEF ExecOK, ExecUp
<1> QED
    BY <1>1, <1>2, <1>3 DEF ExecOK

(* A client whose buffers only shrink, whose pairing stays and whose task  *)
(* is not put into task_queue.                                             *)
LEMMA ClientFrame ==
    ASSUME TypeOK, TypeOK', NEW c \in Clients, ClientTurn(c),
           Shrinks(up[c], up'[c]),
           Shrinks(down[c], down'[c]),
           pairedId'[c] = pairedId[c],
           c \in taskQueue' => c \in taskQueue,
           conn'[c] \in {"none", "backlog"} => conn[c] \in {"none", "backlog"}
    PROVE  ClientTurn(c)'
<1>0. /\ Len(up[c]) \in Nat /\ Len(up'[c]) \in Nat
      /\ Len(down[c]) \in Nat /\ Len(down'[c]) \in Nat
      /\ down[c] \in Seq(Messages) /\ down'[c] \in Seq(Messages)
    BY DEF TypeOK, FabricTypeOK, Remotes
<1>1. PICK d \in {0, 1} : /\ Len(up'[c]) + d <= Len(up[c])
                          /\ \A i \in 1 .. Len(up'[c]) : up'[c][i] = up[c][i + d]
    BY DEF Shrinks
<1>2. PICK b \in {0, 1} : /\ Len(down'[c]) + b <= Len(down[c])
                          /\ \A i \in 1 .. Len(down'[c]) : down'[c][i] = down[c][i + b]
    BY DEF Shrinks
<1>3. \A i \in 1 .. Len(up'[c]) :
        i + d \in 1 .. Len(up[c]) /\ up'[c][i] = up[c][i + d] /\ (i + d = 1 => i = 1)
    BY <1>0, <1>1
<1>4. \A i \in 1 .. Len(down'[c]) : i + b \in 1 .. Len(down[c]) /\ down'[c][i] = down[c][i + b]
    BY <1>0, <1>2
<1>5. down'[c] # <<>> => down[c] # <<>>
    BY <1>0, <1>2
<1>6. \A i \in 1 .. Len(up'[c]) :
        \/ up'[c][i].type = "Dropped"
        \/ up'[c][i].type = "Task" /\ i = 1 /\ c \notin taskQueue' /\ pairedId'[c] = None
    BY <1>3 DEF ClientTurn
<1>7. \A i \in 1 .. Len(down'[c]) : down'[c][i].type \in Results /\ down'[c][i].task = c
    BY <1>4 DEF ClientTurn
<1>8. /\ conn'[c] \in {"none", "backlog"} => pairedId'[c] = None /\ c \notin taskQueue'
      /\ c \in taskQueue' => pairedId'[c] = None
      /\ down'[c] # <<>> => pairedId'[c] # None
    BY <1>5 DEF ClientTurn
<1> QED
    BY <1>6, <1>7, <1>8 DEF ClientTurn

(* Nothing happens to this exec.                                           *)
LEMMA ExecUnmoved ==
    ASSUME TypeOK, TypeOK', NEW f \in Execs, ExecOK(f),
           up'[f] = up[f], down'[f] = down[f], pairedId'[f] = pairedId[f],
           pairedId[f] # None => pairedId'[pairedId[f]] = pairedId[pairedId[f]],
           InQueue(f)' => InQueue(f),
           proc'[f] = proc[f], running'[f] = running[f], conn'[f] = conn[f]
    PROVE  ExecOK(f)'
<1>1. up[f] \in Seq(Messages)
    BY DEF TypeOK, FabricTypeOK, Remotes
<1> QED
    BY <1>1, ShrinkFacts, ExecFrame

(* Nothing happens to this client.                                         *)
LEMMA ClientUnmoved ==
    ASSUME TypeOK, TypeOK', NEW c \in Clients, ClientTurn(c),
           up'[c] = up[c], down'[c] = down[c], pairedId'[c] = pairedId[c],
           c \in taskQueue' => c \in taskQueue,
           proc'[c] = proc[c], conn'[c] = conn[c]
    PROVE  ClientTurn(c)'
<1>1. up[c] \in Seq(Messages) /\ down[c] \in Seq(Messages)
    BY DEF TypeOK, FabricTypeOK, Remotes
<1> QED
    BY <1>1, ShrinkFacts, ClientFrame

(* Clients and execs are different remotes, and None is neither.           *)
LEMMA RemoteFacts ==
    /\ \A e \in Execs : e \in Remotes /\ e \notin Clients /\ e # None
    /\ \A c \in Clients : c \in Remotes /\ c \notin Execs /\ c # None
    /\ \A x \in Remotes : x \in Clients \/ x \in Execs
    BY FabricAssumption DEF Remotes

-----------------------------------------------------------------------------
(* Steps that only take messages from buffers, or none.                    *)
LEMMA ShrinkStep ==
    ASSUME TypeOK, TypeOK', Turns, UNCHANGED <<pairedId, execQueue, taskQueue>>,
           \A x \in Remotes : Shrinks(up[x], up'[x]),
           \A c \in Clients : Shrinks(down[c], down'[c]),
           \A e \in Execs : down'[e] = down[e] \/ down'[e] = <<>>,
           \A x \in Remotes : proc'[x] = "none" => proc[x] = "none" /\ conn'[x] = conn[x],
           \A e \in Execs : proc'[e] = "running" => proc[e] = "running" /\ running'[e] = running[e],
           \A x \in Remotes : conn'[x] \in {"none", "backlog"} => conn[x] \in {"none", "backlog"}
    PROVE  Turns'
<1>1. \A e \in Execs : InQueue(e)' => InQueue(e)
    BY DEF InQueue
<1>2. ASSUME NEW e \in Execs PROVE ExecOK(e)'
  <2>1. ExecOK(e)
      BY DEF Turns, ExecOK
  <2> QED
      BY <1>1, <2>1, ExecFrame, RemoteFacts
<1>3. ASSUME NEW c \in Clients PROVE ClientTurn(c)'
  <2>1. ClientTurn(c)
      BY DEF Turns
  <2> QED
      BY <2>1, ClientFrame, RemoteFacts
<1>4. \A x \in Remotes : proc'[x] = "none" => conn'[x] = "none"
    BY DEF Turns
<1> QED
    BY <1>2, <1>3, <1>4 DEF Turns, ExecOK

(* Buffers that do not change shrink trivially.                            *)
LEMMA SameBuffers ==
    ASSUME TypeOK
    PROVE  \A x \in Remotes : Shrinks(up[x], up[x]) /\ Shrinks(down[x], down[x])
<1>1. \A x \in Remotes : up[x] \in Seq(Messages) /\ down[x] \in Seq(Messages)
    BY DEF TypeOK, FabricTypeOK
<1> QED
    BY <1>1, ShrinkFacts

(* The server's steps that touch no buffer, and stuttering.                *)
LEMMA TurnsQuiet ==
    ASSUME TypeOK, TypeOK', Turns,
           UNCHANGED <<up, down, pairedId, execQueue, taskQueue, running>>,
           \A x \in Remotes : proc'[x] = "none" => proc[x] = "none" /\ conn'[x] = conn[x],
           \A e \in Execs : proc'[e] = "running" => proc[e] = "running",
           \A x \in Remotes : conn'[x] \in {"none", "backlog"} => conn[x] \in {"none", "backlog"}
    PROVE  Turns'
    BY SameBuffers, ShrinkStep, RemoteFacts

(* Accepting a connection: it was not paired before.                       *)
LEMMA TurnsAccept ==
    ASSUME TypeOK, TypeOK', Turns, NEW c \in Remotes, Accept(c), UNCHANGED execVars
    PROVE  Turns'
<1>1. pairedId[c] = None
    BY RemoteFacts DEF Accept, Turns, ExecPaired, ClientTurn
<1>2. pairedId' = pairedId
    BY <1>1 DEF Accept, TypeOK, ServerTypeOK
<1>3. \A x \in Remotes : conn'[x] \in {"none", "backlog"} => conn[x] \in {"none", "backlog"}
    BY DEF Accept, TypeOK, FabricTypeOK
<1>4. \A x \in Remotes : proc'[x] = "none" => conn'[x] = conn[x]
    BY DEF Accept, Turns, TypeOK, FabricTypeOK
<1> QED
    BY <1>2, <1>3, <1>4, TurnsQuiet DEF Accept, execVars

(* One remote's up buffer loses its head, and nothing else happens.        *)
LEMMA TurnsConsumed ==
    ASSUME TypeOK, TypeOK', Turns, NEW c \in Remotes, NEW type, Receive(c, type),
           UNCHANGED <<down, pairedId, execQueue, taskQueue, running>>
    PROVE  Turns'
<1>1. up[c] \in Seq(Messages) /\ up[c] # <<>> /\ up' = [up EXCEPT ![c] = Tail(@)]
    BY DEF Receive, TypeOK, FabricTypeOK
<1>2. \A x \in Remotes : up'[x] = IF x = c THEN Tail(up[c]) ELSE up[x]
    BY <1>1 DEF TypeOK, FabricTypeOK
<1>3. \A x \in Remotes : Shrinks(up[x], up'[x])
    BY <1>1, <1>2, SameBuffers, ShrinkFacts
<1>4. UNCHANGED <<proc, conn>>
    BY DEF Receive
<1> QED
    BY <1>3, <1>4, SameBuffers, ShrinkStep, RemoteFacts

(* Dying loses a tail of one buffer.                                       *)
LEMMA LoseTailShrinks ==
    ASSUME TypeOK, NEW c \in Remotes, up' = up \/ LoseTail(c)
    PROVE  \A x \in Remotes : Shrinks(up[x], up'[x])
<1>1. up \in [Remotes -> Seq(Messages)]
    BY DEF TypeOK, FabricTypeOK
<1>2. CASE up' = up
    BY <1>2, SameBuffers
<1>3. CASE LoseTail(c)
  <2>1. PICK k \in 0 .. Len(up[c]) : up' = [up EXCEPT ![c] = SubSeq(@, 1, k)]
      BY <1>3 DEF LoseTail
  <2>2. \A x \in Remotes : up'[x] = IF x = c THEN SubSeq(up[c], 1, k) ELSE up[x]
      BY <1>1, <2>1
  <2>3. up[c] \in Seq(Messages)
      BY <1>1
  <2>4. Shrinks(up[c], SubSeq(up[c], 1, k))
      BY <2>3, ShrinkFacts
  <2> QED
      BY <2>2, <2>4, SameBuffers
<1> QED
    BY <1>2, <1>3

(* Emptying one buffer, or reading its first message.                      *)
LEMMA DownShrinks ==
    ASSUME TypeOK, NEW c \in Remotes,
           \/ down' = down
           \/ down' = [down EXCEPT ![c] = <<>>]
           \/ down[c] # <<>> /\ down' = [down EXCEPT ![c] = Tail(@)]
    PROVE  /\ \A x \in Remotes : Shrinks(down[x], down'[x])
           /\ \A x \in Remotes : x # c => down'[x] = down[x]
<1>1. down \in [Remotes -> Seq(Messages)]
    BY DEF TypeOK, FabricTypeOK
<1>2. down[c] \in Seq(Messages)
    BY <1>1
<1>3. Shrinks(down[c], <<>>) /\ (down[c] # <<>> => Shrinks(down[c], Tail(down[c])))
    BY <1>2, ShrinkFacts
<1>4. CASE down' = down
    BY <1>4, SameBuffers
<1>5. CASE down' = [down EXCEPT ![c] = <<>>]
  <2>1. \A x \in Remotes : down'[x] = IF x = c THEN <<>> ELSE down[x]
      BY <1>1, <1>5
  <2> QED
      BY <2>1, <1>3, SameBuffers
<1>6. CASE down[c] # <<>> /\ down' = [down EXCEPT ![c] = Tail(@)]
  <2>1. \A x \in Remotes : down'[x] = IF x = c THEN Tail(down[c]) ELSE down[x]
      BY <1>1, <1>6
  <2> QED
      BY <2>1, <1>3, <1>6, SameBuffers
<1> QED
    BY <1>4, <1>5, <1>6

(* An exec has at most one message to read.                                *)
LEMMA OneDown ==
    ASSUME Turns, NEW e \in Execs, down[e] # <<>>
    PROVE  Tail(down[e]) = <<>> /\ Head(down[e]) = down[e][1] /\ Len(down[e]) = 1
<1>1. PICK m : down[e] = <<m>>
    BY DEF Turns, ExecDown
<1>2. Tail(<<m>>) = <<>> /\ Head(<<m>>) = <<m>>[1] /\ Len(<<m>>) = 1
    OBVIOUS
<1> QED
    BY <1>1, <1>2

(* Relay steps other than the end of the stream.                           *)
LEMMA TurnsRelay ==
    ASSUME TypeOK, TypeOK', Turns, NEW c \in Remotes, ConnReturn(c) \/ ConnWriteError(c),
           UNCHANGED <<serverVars, execVars>>
    PROVE  Turns'
<1>1. /\ up' = up \/ LoseTail(c)
      /\ down' = [down EXCEPT ![c] = <<>>]
      /\ conn' = [conn EXCEPT ![c] = "done"]
      /\ UNCHANGED proc
    BY DEF ConnReturn, ConnWriteError
<1>2. UNCHANGED <<pairedId, execQueue, taskQueue, running>>
    BY DEF serverVars, execVars
<1>3. \A x \in Remotes : Shrinks(up[x], up'[x]) /\ Shrinks(down[x], down'[x])
    BY <1>1, LoseTailShrinks, DownShrinks
<1>4. \A x \in Remotes : down'[x] = down[x] \/ down'[x] = <<>>
    BY <1>1 DEF TypeOK, FabricTypeOK
<1>5. \A x \in Remotes : conn'[x] \in {"none", "backlog"} => conn[x] \in {"none", "backlog"}
    BY <1>1 DEF TypeOK, FabricTypeOK
<1>6. \A x \in Remotes : proc'[x] = "none" => conn'[x] = conn[x]
    BY <1>1 DEF ConnReturn, ConnWriteError, Turns, TypeOK, FabricTypeOK
<1> QED
    BY <1>1, <1>2, <1>3, <1>4, <1>5, <1>6, ShrinkStep, RemoteFacts

(* Everything a client does once it is connected.                          *)
LEMMA TurnsClientReads ==
    ASSUME TypeOK, TypeOK', Turns, NEW c \in Clients, ClientStep(c) \/ KillClient(c),
           UNCHANGED <<serverVars, execVars>>
    PROVE  Turns'
<1>1. /\ up' = up \/ LoseTail(c)
      /\ \/ down' = down
         \/ down[c] # <<>> /\ down' = [down EXCEPT ![c] = Tail(@)]
      /\ proc' = proc \/ proc' = [proc EXCEPT ![c] = "gone"]
      /\ UNCHANGED conn
    BY DEF ClientStep, KillClient, ClientRefused, ClientOutput, ClientFailed, ClientDone,
           ClientEof, ClientRead, Exit
<1>2. UNCHANGED <<pairedId, execQueue, taskQueue, running>>
    BY DEF serverVars, execVars
<1>3. \A x \in Remotes : Shrinks(up[x], up'[x]) /\ Shrinks(down[x], down'[x])
    BY <1>1, LoseTailShrinks, DownShrinks, RemoteFacts
<1>4. \A e \in Execs : down'[e] = down[e]
    BY <1>1, DownShrinks, RemoteFacts
<1>5. /\ \A x \in Remotes : proc'[x] = "none" => proc[x] = "none"
      /\ \A x \in Remotes : proc'[x] = "running" => proc[x] = "running"
    BY <1>1 DEF TypeOK, FabricTypeOK
<1> QED
    BY <1>1, <1>2, <1>3, <1>4, <1>5, ShrinkStep, RemoteFacts

(* An exec leaves.                                                         *)
LEMMA TurnsExecLeaves ==
    ASSUME TypeOK, TypeOK', Turns, NEW e \in Execs,
           ExecPissOff(e) \/ ExecEof(e) \/ KillExec(e),
           UNCHANGED serverVars
    PROVE  Turns'
<1>1. /\ up' = up \/ LoseTail(e)
      /\ \/ down' = down
         \/ down[e] # <<>> /\ down' = [down EXCEPT ![e] = Tail(@)]
      /\ proc' = [proc EXCEPT ![e] = "gone"]
      /\ running' = [running EXCEPT ![e] = None]
      /\ UNCHANGED conn
    BY DEF ExecPissOff, ExecEof, KillExec, ExecRead, ExecLeaves
<1>2. UNCHANGED <<pairedId, execQueue, taskQueue>>
    BY DEF serverVars
<1>3. \A x \in Remotes : Shrinks(up[x], up'[x]) /\ Shrinks(down[x], down'[x])
    BY <1>1, LoseTailShrinks, DownShrinks, RemoteFacts
<1>4. \A x \in Remotes : down'[x] = down[x] \/ down'[x] = <<>>
  <2>1. down'[e] = down[e] \/ down'[e] = <<>>
    <3>1. CASE down[e] # <<>> /\ down' = [down EXCEPT ![e] = Tail(@)]
      <4>1. down'[e] = Tail(down[e])
          BY <3>1, RemoteFacts DEF TypeOK, FabricTypeOK
      <4> QED
          BY <3>1, <4>1, OneDown
    <3> QED
        BY <1>1, <3>1
  <2> QED
      BY <1>1, <2>1, DownShrinks, RemoteFacts
<1>5. /\ \A x \in Remotes : proc'[x] = "none" => proc[x] = "none"
      /\ \A f \in Execs : proc'[f] = "running" => proc[f] = "running" /\ running'[f] = running[f]
    BY <1>1, RemoteFacts DEF TypeOK, FabricTypeOK, ExecTypeOK
<1> QED
    BY <1>1, <1>2, <1>3, <1>4, <1>5, ShrinkStep, RemoteFacts

-----------------------------------------------------------------------------
(* One remote moves, and the server's queues and pairings stay.            *)
LEMMA ExecMoves ==
    ASSUME TypeOK, TypeOK', Turns, NEW e \in Execs,
           UNCHANGED <<pairedId, execQueue, taskQueue>>,
           \A x \in Remotes \ {e} : /\ up'[x] = up[x] /\ down'[x] = down[x]
                                    /\ proc'[x] = proc[x] /\ conn'[x] = conn[x],
           \A f \in Execs \ {e} : running'[f] = running[f],
           proc'[e] = "none" => conn'[e] = "none",
           ExecOK(e)'
    PROVE  Turns'
<1>1. ASSUME NEW f \in Execs PROVE ExecOK(f)'
  <2>1. CASE f # e
    <3>1. ExecOK(f) /\ (InQueue(f)' => InQueue(f))
        BY DEF Turns, ExecOK, InQueue
    <3> QED
        BY <2>1, <3>1, ExecUnmoved, RemoteFacts
  <2> QED
      BY <2>1
<1>2. ASSUME NEW c \in Clients PROVE ClientTurn(c)'
  <2>1. ClientTurn(c)
      BY DEF Turns
  <2> QED
      BY <2>1, ClientUnmoved, RemoteFacts
<1>3. \A x \in Remotes : proc'[x] = "none" => conn'[x] = "none"
    BY DEF Turns
<1> QED
    BY <1>1, <1>2, <1>3 DEF Turns, ExecOK

(* The same for one client.                                                *)
LEMMA ClientMoves ==
    ASSUME TypeOK, TypeOK', Turns, NEW c \in Clients,
           UNCHANGED <<pairedId, execQueue, running>>,
           \A d \in Clients \ {c} : d \in taskQueue' => d \in taskQueue,
           \A x \in Remotes \ {c} : /\ up'[x] = up[x] /\ down'[x] = down[x]
                                    /\ proc'[x] = proc[x] /\ conn'[x] = conn[x],
           proc'[c] = "none" => conn'[c] = "none",
           ClientTurn(c)'
    PROVE  Turns'
<1>1. ASSUME NEW f \in Execs PROVE ExecOK(f)'
  <2>1. ExecOK(f) /\ (InQueue(f)' => InQueue(f))
      BY DEF Turns, ExecOK, InQueue
  <2> QED
      BY <2>1, ExecUnmoved, RemoteFacts
<1>2. ASSUME NEW d \in Clients PROVE ClientTurn(d)'
  <2>1. CASE d # c
    <3>1. ClientTurn(d)
        BY DEF Turns
    <3> QED
        BY <2>1, <3>1, ClientUnmoved, RemoteFacts
  <2> QED
      BY <2>1
<1>3. \A x \in Remotes : proc'[x] = "none" => conn'[x] = "none"
    BY DEF Turns
<1> QED
    BY <1>1, <1>2, <1>3 DEF Turns, ExecOK

(* A message is put at the end of a buffer.                                *)
LEMMA Appended ==
    ASSUME TypeOK, NEW x \in Remotes, NEW m \in Messages
    PROVE  /\ up' = [up EXCEPT ![x] = Append(@, m)] =>
                 /\ \A y \in Remotes \ {x} : up'[y] = up[y]
                 /\ Len(up[x]) \in Nat /\ Len(up'[x]) = Len(up[x]) + 1
                 /\ up'[x][Len(up[x]) + 1] = m
                 /\ \A i \in 1 .. Len(up[x]) : up'[x][i] = up[x][i]
           /\ down' = [down EXCEPT ![x] = Append(@, m)] =>
                 /\ \A y \in Remotes \ {x} : down'[y] = down[y]
                 /\ Len(down[x]) \in Nat /\ Len(down'[x]) = Len(down[x]) + 1
                 /\ down'[x][Len(down[x]) + 1] = m
                 /\ \A i \in 1 .. Len(down[x]) : down'[x][i] = down[x][i]
<1>1. /\ up \in [Remotes -> Seq(Messages)] /\ down \in [Remotes -> Seq(Messages)]
      /\ up[x] \in Seq(Messages) /\ down[x] \in Seq(Messages)
    BY DEF TypeOK, FabricTypeOK
<1>2. ASSUME up' = [up EXCEPT ![x] = Append(@, m)]
      PROVE  /\ \A y \in Remotes \ {x} : up'[y] = up[y]
             /\ Len(up[x]) \in Nat /\ Len(up'[x]) = Len(up[x]) + 1
             /\ up'[x][Len(up[x]) + 1] = m
             /\ \A i \in 1 .. Len(up[x]) : up'[x][i] = up[x][i]
  <2>1. up'[x] = Append(up[x], m) /\ \A y \in Remotes \ {x} : up'[y] = up[y]
      BY <1>1, <1>2
  <2> QED
      BY <1>1, <2>1, AppendFacts
<1>3. ASSUME down' = [down EXCEPT ![x] = Append(@, m)]
      PROVE  /\ \A y \in Remotes \ {x} : down'[y] = down[y]
             /\ Len(down[x]) \in Nat /\ Len(down'[x]) = Len(down[x]) + 1
             /\ down'[x][Len(down[x]) + 1] = m
             /\ \A i \in 1 .. Len(down[x]) : down'[x][i] = down[x][i]
  <2>1. down'[x] = Append(down[x], m) /\ \A y \in Remotes \ {x} : down'[y] = down[y]
      BY <1>1, <1>3
  <2> QED
      BY <1>1, <2>1, AppendFacts
<1> QED
    BY <1>2, <1>3

(* The relay reports the end of the stream.                                *)
LEMMA TurnsEof ==
    ASSUME TypeOK, TypeOK', Turns, NEW c \in Remotes, ConnEof(c),
           UNCHANGED <<serverVars, execVars>>
    PROVE  Turns'
<1>1. UNCHANGED <<proc, down, pairedId, execQueue, taskQueue, running>>
    BY DEF ConnEof, serverVars, execVars
<1>2. Dropped \in Messages /\ Dropped.type = "Dropped"
    BY MessageTypes DEF Dropped, Message
<1>3. /\ \A y \in Remotes \ {c} : up'[y] = up[y]
      /\ Len(up[c]) \in Nat /\ Len(up'[c]) = Len(up[c]) + 1
      /\ up'[c][Len(up[c]) + 1] = Dropped
      /\ \A i \in 1 .. Len(up[c]) : up'[c][i] = up[c][i]
    BY <1>2, Appended DEF ConnEof
<1>4. /\ \A y \in Remotes \ {c} : conn'[y] = conn[y]
      /\ conn'[c] = "eof" /\ proc'[c] # "none"
    BY <1>1 DEF ConnEof, TypeOK, FabricTypeOK
<1>5. CASE c \in Clients
  <2>0. ClientTurn(c)
      BY <1>5 DEF Turns
  <2>1. ClientTurn(c)'
    <3>1. ASSUME NEW i \in 1 .. Len(up'[c])
          PROVE  \/ up'[c][i].type = "Dropped"
                 \/ up'[c][i].type = "Task" /\ i = 1 /\ c \notin taskQueue /\ pairedId[c] = None
      <4>1. i = Len(up[c]) + 1 \/ i \in 1 .. Len(up[c])
          BY <1>3, <3>1
      <4> QED
          BY <1>2, <1>3, <2>0, <4>1 DEF ClientTurn
    <3> QED
        BY <1>1, <1>4, <2>0, <3>1 DEF ClientTurn
  <2> QED
      BY <1>1, <1>3, <1>4, <1>5, <2>1, ClientMoves
<1>6. CASE c \in Execs
  <2>1. ExecDown(c)' /\ ExecPaired(c)'
      BY <1>1, <1>4, <1>6 DEF Turns, ExecDown, ExecPaired, InQueue
  <2>2. ExecUp(c) /\ InQueue(c)' = InQueue(c)
      BY <1>1, <1>6 DEF Turns, InQueue
  <2>3. ExecUp(c)'
    <3> SUFFICES ASSUME NEW i \in 1 .. Len(up'[c])
                 PROVE  \/ up'[c][i].type = "Dropped"
                        \/ up'[c][i].type = "YourObedientServant" /\ i = 1
                           /\ pairedId'[c] = None /\ ~InQueue(c)' /\ down'[c] = <<>>
                        \/ up'[c][i].type = "TaskOutput" /\ up'[c][i].task = pairedId'[c]
                           /\ down'[c] = <<>>
                        \/ up'[c][i].type \in Final /\ up'[c][i].task = pairedId'[c]
                           /\ down'[c] = <<>> /\ proc'[c] # "running"
                           /\ \A j \in i + 1 .. Len(up'[c]) : up'[c][j].type = "Dropped"
        BY DEF ExecUp
    <3>1. CASE i = Len(up[c]) + 1
        BY <1>2, <1>3, <3>1
    <3>2. CASE i \in 1 .. Len(up[c])
      <4>1. up'[c][i] = up[c][i]
          BY <1>3, <3>2
      <4>2. \A j \in i + 1 .. Len(up'[c]) :
                up'[c][j].type = "Dropped" \/ (j \in i + 1 .. Len(up[c]) /\ up'[c][j] = up[c][j])
          BY <1>2, <1>3, <3>2
      <4> QED
          BY <1>1, <2>2, <3>2, <4>1, <4>2 DEF ExecUp
    <3> QED
        BY <1>3, <3>1, <3>2
  <2> QED
      BY <1>1, <1>3, <1>4, <1>6, <2>1, <2>3, ExecMoves DEF ExecOK
<1> QED
    BY <1>5, <1>6, RemoteFacts

-----------------------------------------------------------------------------
(* Remotes that write.                                                     *)

(* While an exec is in exec_queue, or has something to read, it has        *)
(* nothing more to say.                                                    *)
LEMMA UpQuiet ==
    ASSUME TypeOK, Turns, NEW e \in Execs, down[e] # <<>> \/ InQueue(e)
    PROVE  \A i \in 1 .. Len(up[e]) : up[e][i].type = "Dropped"
<1>1. SUFFICES ASSUME NEW i \in 1 .. Len(up[e]), up[e][i].type # "Dropped" PROVE FALSE
    OBVIOUS
<1>2. up[e] \in Seq(Messages)
    BY RemoteFacts DEF TypeOK, FabricTypeOK
<1>3. up[e][i] \in Messages
    BY <1>2
<1>4. up[e][i].type \in Results => up[e][i].task \in Clients
    BY <1>3, ResultType
<1>5. InQueue(e) /\ up[e][i].type \in Results /\ up[e][i].task = pairedId[e]
    BY <1>1 DEF Turns, ExecUp, Results
<1>6. pairedId[e] = None
    BY <1>5 DEF Turns, ExecPaired
<1> QED
    BY <1>4, <1>5, <1>6, RemoteFacts

(* While an exec runs a task it is paired with the task's client, and has  *)
(* written nothing but output.                                             *)
LEMMA UpRunning ==
    ASSUME TypeOK, Turns, NEW e \in Execs, proc[e] = "running"
    PROVE  /\ running[e] \in Clients /\ pairedId[e] = running[e] /\ pairedId[e] # None
           /\ down[e] = <<>>
           /\ \A i \in 1 .. Len(up[e]) :
                 \/ up[e][i].type = "Dropped"
                 \/ up[e][i].type = "TaskOutput" /\ up[e][i].task = running[e]
<1>1. running[e] \in Clients
    BY DEF TypeOK, ExecTypeOK
<1>2. pairedId[e] = running[e] /\ down[e] = <<>>
    BY DEF Turns, ExecPaired
<1>3. pairedId[e] # None
    BY <1>1, <1>2, RemoteFacts
<1> QED
    BY <1>1, <1>2, <1>3 DEF Turns, ExecUp

(* A client connects.                                                      *)
LEMMA TurnsClientConnect ==
    ASSUME TypeOK, TypeOK', Turns, NEW c \in Clients, ClientConnect(c),
           UNCHANGED <<serverVars, execVars>>
    PROVE  Turns'
<1>1. PICK m \in {TaskMsg(c), Dropped} : up' = [up EXCEPT ![c] = <<m>>]
    BY DEF ClientConnect, Connect
<1>2. m.type = "Task" \/ m.type = "Dropped"
    BY <1>1 DEF TaskMsg, Dropped, Message
<1>3. /\ \A x \in Remotes \ {c} : up'[x] = up[x] /\ proc'[x] = proc[x] /\ conn'[x] = conn[x]
      /\ up'[c] = <<m>> /\ proc'[c] = "waiting" /\ conn'[c] = "backlog"
    BY <1>1, RemoteFacts DEF ClientConnect, Connect, TypeOK, FabricTypeOK
<1>4. UNCHANGED <<down, pairedId, execQueue, taskQueue, running>>
    BY DEF ClientConnect, serverVars, execVars
<1>5. pairedId[c] = None /\ c \notin taskQueue /\ down[c] = <<>>
    BY RemoteFacts DEF ClientConnect, Connect, Turns, ClientTurn
<1>6. \A i \in 1 .. Len(up'[c]) : i = 1 /\ up'[c][i] = m
    BY <1>3
<1>7. \A i \in 1 .. Len(down'[c]) : FALSE
    BY <1>4, <1>5
<1>8. ClientTurn(c)'
    BY <1>2, <1>4, <1>5, <1>6, <1>7 DEF ClientTurn
<1> QED
    BY <1>3, <1>4, <1>8, ClientMoves

(* An exec connects.                                                       *)
LEMMA TurnsExecConnect ==
    ASSUME TypeOK, TypeOK', Turns, NEW e \in Execs, ExecConnect(e), UNCHANGED serverVars
    PROVE  Turns'
<1>1. PICK q \in Queues : Connect(e, "idle", YourObedientServant(q)) /\ UNCHANGED <<down, running>>
    BY DEF ExecConnect, execVars
<1>2. PICK m \in {YourObedientServant(q), Dropped} : up' = [up EXCEPT ![e] = <<m>>]
    BY <1>1 DEF Connect
<1>3. m.type = "YourObedientServant" \/ m.type = "Dropped"
    BY <1>2 DEF YourObedientServant, Dropped, Message
<1>4. /\ \A x \in Remotes \ {e} : up'[x] = up[x] /\ proc'[x] = proc[x] /\ conn'[x] = conn[x]
      /\ up'[e] = <<m>> /\ proc'[e] = "idle" /\ conn'[e] = "backlog"
    BY <1>1, <1>2, RemoteFacts DEF Connect, TypeOK, FabricTypeOK
<1>5. UNCHANGED <<pairedId, execQueue, taskQueue>>
    BY DEF serverVars
<1>6. pairedId[e] = None /\ ~InQueue(e) /\ ~InQueue(e)' /\ down[e] = <<>>
    BY <1>1, <1>5, RemoteFacts DEF Connect, Turns, ExecPaired, InQueue
<1>7. \A i \in 1 .. Len(up'[e]) : i = 1 /\ up'[e][i] = m
    BY <1>4
<1>8. ExecUp(e)'
    BY <1>1, <1>3, <1>5, <1>6, <1>7 DEF ExecUp
<1>9. ExecDown(e)' /\ ExecPaired(e)'
    BY <1>1, <1>4, <1>5, <1>6 DEF ExecDown, ExecPaired
<1> QED
    BY <1>1, <1>4, <1>5, <1>8, <1>9, ExecMoves DEF ExecOK

(* An exec reads its task: it is the one of the client it is paired with.  *)
LEMMA ReadTask ==
    ASSUME TypeOK, Turns, NEW e \in Execs, ExecRead(e, "Task")
    PROVE  /\ pairedId[e] # None /\ Head(down[e]).task = pairedId[e]
           /\ down'[e] = <<>> /\ \A x \in Remotes \ {e} : down'[x] = down[x]
           /\ conn[e] \notin {"none", "backlog"}
           /\ \A i \in 1 .. Len(up[e]) : up[e][i].type = "Dropped"
<1>1. down[e] # <<>> /\ Head(down[e]).type = "Task" /\ down' = [down EXCEPT ![e] = Tail(@)]
    BY DEF ExecRead
<1>2. PissOff.type # "Task" /\ TaskMsg(pairedId[e]).task = pairedId[e]
    BY DEF PissOff, TaskMsg, Message
<1>3. down[e] = <<TaskMsg(pairedId[e])>> /\ pairedId[e] # None
  <2>1. down[e] # <<PissOff>>
      BY <1>1, <1>2
  <2> QED
      BY <1>1, <2>1 DEF Turns, ExecDown
<1>4. Head(down[e]) = TaskMsg(pairedId[e])
    BY <1>3
<1>5. down'[e] = <<>> /\ \A x \in Remotes \ {e} : down'[x] = down[x]
    BY <1>1, OneDown, RemoteFacts DEF TypeOK, FabricTypeOK
<1>6. conn[e] \notin {"none", "backlog"}
    BY <1>1 DEF Turns, ExecPaired
<1> QED
    BY <1>1, <1>2, <1>3, <1>4, <1>5, <1>6, UpQuiet

(* Task::start succeeds: the exec runs the task of its client.             *)
LEMMA TurnsStartTask ==
    ASSUME TypeOK, TypeOK', Turns, NEW e \in Execs, StartTask(e), UNCHANGED serverVars
    PROVE  Turns'
<1>1. /\ pairedId[e] # None /\ Head(down[e]).task = pairedId[e]
      /\ down'[e] = <<>> /\ \A x \in Remotes \ {e} : down'[x] = down[x]
      /\ conn[e] \notin {"none", "backlog"}
      /\ \A i \in 1 .. Len(up[e]) : up[e][i].type = "Dropped"
    BY ReadTask DEF StartTask
<1>2. UNCHANGED <<up, conn, pairedId, execQueue, taskQueue>>
    BY DEF StartTask, ExecRead, serverVars
<1>3. /\ \A x \in Remotes \ {e} : proc'[x] = proc[x]
      /\ \A f \in Execs \ {e} : running'[f] = running[f]
      /\ proc'[e] = "running" /\ running'[e] = pairedId[e]
    BY <1>1, RemoteFacts DEF StartTask, TypeOK, FabricTypeOK, ExecTypeOK
<1>4. ExecDown(e)' /\ ExecUp(e)'
    BY <1>1, <1>2 DEF ExecDown, ExecUp
<1>5. InQueue(e)' = InQueue(e)
    BY <1>2 DEF InQueue
<1>6. ExecPaired(e)'
    BY <1>1, <1>2, <1>3, <1>5 DEF Turns, ExecPaired
<1> QED
    BY <1>1, <1>2, <1>3, <1>4, <1>6, ExecMoves DEF ExecOK

(* An exec adds to what it wrote about the task it is paired with.         *)
LEMMA ExecWrites ==
    ASSUME TypeOK, TypeOK', Turns, NEW e \in Execs, NEW m \in Messages,
           up' = [up EXCEPT ![e] = Append(@, m)],
           UNCHANGED <<conn, pairedId, execQueue, taskQueue>>,
           pairedId[e] # None, conn[e] \notin {"none", "backlog"},
           \A i \in 1 .. Len(up[e]) : \/ up[e][i].type = "Dropped"
                                      \/ up[e][i].type = "TaskOutput" /\ up[e][i].task = pairedId[e],
           m.task = pairedId[e],
           m.type = "TaskOutput" \/ (m.type \in Final /\ proc'[e] # "running"),
           down'[e] = <<>>, \A x \in Remotes \ {e} : down'[x] = down[x],
           \A x \in Remotes \ {e} : proc'[x] = proc[x],
           \A f \in Execs \ {e} : running'[f] = running[f],
           proc'[e] # "none", proc'[e] = "running" => running'[e] = pairedId[e]
    PROVE  Turns'
<1>1. e \in Remotes
    BY RemoteFacts
<1>2. /\ \A y \in Remotes \ {e} : up'[y] = up[y]
      /\ Len(up[e]) \in Nat /\ Len(up'[e]) = Len(up[e]) + 1
      /\ up'[e][Len(up[e]) + 1] = m
      /\ \A i \in 1 .. Len(up[e]) : up'[e][i] = up[e][i]
    BY <1>1, Appended
<1>3. \A i \in 1 .. Len(up'[e]) :
         \/ i \in 1 .. Len(up[e]) /\ up'[e][i] = up[e][i]
         \/ i = Len(up'[e]) /\ up'[e][i] = m
    BY <1>2
<1>4. \A j \in Len(up'[e]) + 1 .. Len(up'[e]) : FALSE
    BY <1>2
<1>5. ExecUp(e)'
    BY <1>3, <1>4 DEF ExecUp
<1>6. InQueue(e)' = InQueue(e)
    BY DEF InQueue
<1>7. ExecDown(e)' /\ ExecPaired(e)'
    BY <1>6 DEF Turns, ExecDown, ExecPaired
<1> QED
    BY <1>2, <1>5, <1>7, ExecMoves DEF ExecOK

(* Task::start fails: TaskFailed is the only answer.                       *)
LEMMA TurnsStartFails ==
    ASSUME TypeOK, TypeOK', Turns, NEW e \in Execs, StartFails(e), UNCHANGED serverVars
    PROVE  Turns'
<1>1. /\ pairedId[e] # None /\ Head(down[e]).task = pairedId[e]
      /\ down'[e] = <<>> /\ \A x \in Remotes \ {e} : down'[x] = down[x]
      /\ conn[e] \notin {"none", "backlog"}
      /\ \A i \in 1 .. Len(up[e]) : up[e][i].type = "Dropped"
    BY ReadTask DEF StartFails
<1>2. UNCHANGED <<conn, proc, running, pairedId, execQueue, taskQueue>> /\ proc[e] = "idle"
    BY DEF StartFails, ExecRead, serverVars, execVars
<1>3. pairedId[e] \in Clients
    BY <1>1 DEF TypeOK, ServerTypeOK
<1> DEFINE m == TaskFailed(pairedId[e])
<1>4. m \in Messages /\ m.task = pairedId[e] /\ m.type \in Final
    BY <1>3, MessageTypes DEF TaskFailed, Message, Final
<1>5. up' = [up EXCEPT ![e] = Append(@, m)]
    BY <1>1 DEF StartFails
<1> HIDE DEF m
<1> QED
    BY <1>1, <1>2, <1>4, <1>5, ExecWrites

(* run_task sends a chunk of output.                                       *)
LEMMA TurnsSendOutput ==
    ASSUME TypeOK, TypeOK', Turns, NEW e \in Execs, SendOutput(e), UNCHANGED serverVars
    PROVE  Turns'
<1>1. proc[e] = "running" /\ UNCHANGED <<proc, conn, down, running, pairedId, execQueue, taskQueue>>
    BY DEF SendOutput, serverVars
<1>2. /\ running[e] \in Clients /\ pairedId[e] = running[e] /\ pairedId[e] # None
      /\ down[e] = <<>>
      /\ \A i \in 1 .. Len(up[e]) :
            \/ up[e][i].type = "Dropped"
            \/ up[e][i].type = "TaskOutput" /\ up[e][i].task = running[e]
    BY <1>1, UpRunning
<1>3. sent[running[e]] + 1 \in Int
    BY <1>2, ExecAssumption DEF TypeOK, ExecTypeOK
<1> DEFINE m == TaskOutput(running[e], sent[running[e]] + 1)
<1>4. m \in Messages /\ m.task = pairedId[e] /\ m.type = "TaskOutput"
    BY <1>2, <1>3, MessageTypes DEF TaskOutput, Message
<1>5. up' = [up EXCEPT ![e] = Append(@, m)]
    BY DEF SendOutput
<1>6. conn[e] \notin {"none", "backlog"}
    BY <1>2 DEF Turns, ExecPaired
<1> HIDE DEF m
<1> QED
    BY <1>1, <1>2, <1>4, <1>5, <1>6, ExecWrites

(* run_task sends the exit code last.                                      *)
LEMMA TurnsSendDone ==
    ASSUME TypeOK, TypeOK', Turns, NEW e \in Execs, SendDone(e), UNCHANGED serverVars
    PROVE  Turns'
<1>1. proc[e] = "running" /\ UNCHANGED <<conn, down, pairedId, execQueue, taskQueue>>
    BY DEF SendDone, serverVars
<1>2. /\ running[e] \in Clients /\ pairedId[e] = running[e] /\ pairedId[e] # None
      /\ down[e] = <<>>
      /\ \A i \in 1 .. Len(up[e]) :
            \/ up[e][i].type = "Dropped"
            \/ up[e][i].type = "TaskOutput" /\ up[e][i].task = running[e]
    BY <1>1, UpRunning
<1>3. PICK code \in ExitCodes : up' = [up EXCEPT ![e] = Append(@, TaskDone(running[e], code))]
    BY DEF SendDone
<1> DEFINE m == TaskDone(running[e], code)
<1>4. code \in Int
    BY DEF ExitCodes, NoCode
<1>5. m \in Messages /\ m.task = pairedId[e] /\ m.type \in Final
    BY <1>2, <1>4, MessageTypes DEF TaskDone, Message, Final
<1>6. conn[e] \notin {"none", "backlog"}
    BY <1>2 DEF Turns, ExecPaired
<1>7. /\ \A x \in Remotes \ {e} : proc'[x] = proc[x]
      /\ \A f \in Execs \ {e} : running'[f] = running[f]
      /\ proc'[e] = "idle"
    BY RemoteFacts DEF SendDone, TaskEnds, TypeOK, FabricTypeOK, ExecTypeOK
<1>8. up' = [up EXCEPT ![e] = Append(@, m)]
    BY <1>3
<1> HIDE DEF m
<1> QED
    BY <1>1, <1>2, <1>5, <1>6, <1>7, <1>8, ExecWrites

-----------------------------------------------------------------------------
(* exec_queue.                                                             *)

(* The first exec is taken from the queue.                                 *)
LEMMA QueuePopped ==
    ASSUME TypeOK, Turns, execQueue # <<>>, execQueue' = Tail(execQueue),
           NEW e, e = Head(execQueue)
    PROVE  /\ e \in Execs /\ InQueue(e) /\ ~InQueue(e)'
           /\ \A f \in Execs : InQueue(f)' => InQueue(f)
           /\ \A i, j \in 1 .. Len(execQueue') : execQueue'[i] = execQueue'[j] => i = j
<1>1. execQueue \in Seq(Execs)
    BY DEF TypeOK, ServerTypeOK
<1>2. /\ Len(execQueue) \in Nat /\ Len(execQueue) > 0
      /\ Head(execQueue) \in Execs /\ Head(execQueue) = execQueue[1]
      /\ Len(execQueue') = Len(execQueue) - 1
      /\ \A i \in 1 .. Len(execQueue) - 1 : execQueue'[i] = execQueue[i + 1]
    BY <1>1, TailFacts
<1>3. \A i, j \in 1 .. Len(execQueue) : execQueue[i] = execQueue[j] => i = j
    BY DEF Turns
<1>4. \A i \in 1 .. Len(execQueue') :
        i + 1 \in 1 .. Len(execQueue) /\ i + 1 # 1 /\ execQueue'[i] = execQueue[i + 1]
    BY <1>2
<1>5. 1 \in 1 .. Len(execQueue)
    BY <1>2
<1>6. \A i, j \in 1 .. Len(execQueue') : execQueue'[i] = execQueue'[j] => i = j
  <2> SUFFICES ASSUME NEW i \in 1 .. Len(execQueue'), NEW j \in 1 .. Len(execQueue'),
                      execQueue'[i] = execQueue'[j]
               PROVE  i = j
      OBVIOUS
  <2>1. i + 1 = j + 1
      BY <1>3, <1>4
  <2> QED
      BY <2>1
<1>7. InQueue(e) /\ ~InQueue(e)'
    BY <1>2, <1>3, <1>4, <1>5 DEF InQueue
<1>8. \A f \in Execs : InQueue(f)' => InQueue(f)
    BY <1>4 DEF InQueue
<1> QED
    BY <1>2, <1>6, <1>7, <1>8

(* An exec that is not in the queue is put at its end.                     *)
LEMMA QueuePushed ==
    ASSUME TypeOK, Turns, NEW e \in Execs, ~InQueue(e), execQueue' = Append(execQueue, e)
    PROVE  /\ \A f \in Execs \ {e} : InQueue(f)' => InQueue(f)
           /\ \A i, j \in 1 .. Len(execQueue') : execQueue'[i] = execQueue'[j] => i = j
<1>1. execQueue \in Seq(Execs)
    BY DEF TypeOK, ServerTypeOK
<1>2. /\ Len(execQueue) \in Nat /\ Len(execQueue') = Len(execQueue) + 1
      /\ execQueue'[Len(execQueue) + 1] = e
      /\ \A i \in 1 .. Len(execQueue) : execQueue'[i] = execQueue[i]
    BY <1>1, AppendFacts
<1>3. \A i \in 1 .. Len(execQueue') :
        \/ i \in 1 .. Len(execQueue) /\ execQueue'[i] = execQueue[i] /\ execQueue[i] # e
        \/ i = Len(execQueue) + 1 /\ execQueue'[i] = e
    BY <1>2 DEF InQueue
<1>4. \A i, j \in 1 .. Len(execQueue) : execQueue[i] = execQueue[j] => i = j
    BY DEF Turns
<1>5. \A f \in Execs \ {e} : InQueue(f)' => InQueue(f)
    BY <1>3 DEF InQueue
<1> QED
    BY <1>3, <1>4, <1>5

(* An exec in the queue is connected, unpaired and has nothing to read.    *)
LEMMA QueuedExec ==
    ASSUME TypeOK, Turns, NEW e \in Execs, InQueue(e)
    PROVE  /\ pairedId[e] = None /\ down[e] = <<>> /\ proc[e] # "running"
           /\ conn[e] \notin {"none", "backlog"}
           /\ \A i \in 1 .. Len(up[e]) : up[e][i].type = "Dropped"
<1>1. pairedId[e] = None /\ conn[e] \notin {"none", "backlog"}
    BY DEF Turns, ExecPaired
<1>2. down[e] = <<>>
    BY <1>1 DEF Turns, ExecDown
<1>3. proc[e] # "running"
    BY <1>1, UpRunning
<1> QED
    BY <1>1, <1>2, <1>3, UpQuiet

-----------------------------------------------------------------------------
(* check_queues.                                                           *)

(* What a task in the queue and the exec it goes to look like.  The        *)
(* asserts before the pairing never fire.                                  *)
LEMMA AssignFacts ==
    ASSUME TypeOK, Turns, NEW c \in Clients, Assign(c)
    PROVE  /\ Head(execQueue) \in Execs /\ InQueue(Head(execQueue))
           /\ ~(c = Head(execQueue) \/ pairedId[c] # None \/ pairedId[Head(execQueue)] # None)
<1>1. execQueue # <<>> /\ c \in taskQueue /\ execQueue' = Tail(execQueue)
    BY DEF Assign, PopExec
<1>2. PICK e : e = Head(execQueue)
    OBVIOUS
<1>3. e \in Execs /\ InQueue(e)
    BY <1>1, <1>2, QueuePopped
<1>4. pairedId[c] = None
    BY <1>1 DEF Turns, ClientTurn
<1>5. pairedId[e] = None
    BY <1>3, QueuedExec
<1> QED
    BY <1>2, <1>3, <1>4, <1>5, RemoteFacts DEF InQueue

(* The first loop of check_queues pairs a task with an exec.               *)
LEMMA TurnsAssign ==
    ASSUME TypeOK, TypeOK', Turns, NEW c \in Clients, Assign(c), UNCHANGED execVars
    PROVE  Turns'
<1>0. PICK e : e = Head(execQueue)
    OBVIOUS
<1>1. /\ e \in Execs /\ InQueue(e)
      /\ ~(c = e \/ pairedId[c] # None \/ pairedId[e] # None)
    BY <1>0, AssignFacts DEF InQueue
<1>2. /\ pc = "check" /\ execQueue # <<>> /\ c \in taskQueue
      /\ taskQueue' = taskQueue \ {c} /\ execQueue' = Tail(execQueue)
      /\ UNCHANGED <<proc, conn, up, running>>
    BY DEF Assign, PopTask, PopExec, execVars
<1>3. /\ ~InQueue(e)'
      /\ \A f \in Execs : InQueue(f)' => InQueue(f)
      /\ \A i, j \in 1 .. Len(execQueue') : execQueue'[i] = execQueue'[j] => i = j
    BY <1>0, <1>2, QueuePopped
<1>4. /\ pairedId[e] = None /\ down[e] = <<>> /\ proc[e] # "running"
      /\ conn[e] \notin {"none", "backlog"}
      /\ \A i \in 1 .. Len(up[e]) : up[e][i].type = "Dropped"
    BY <1>1, QueuedExec
<1>5. /\ pairedId' = [pairedId EXCEPT ![c] = e, ![e] = c]
      /\ down' = down \/ down' = [down EXCEPT ![e] = Append(@, TaskMsg(c))]
    BY <1>0, <1>1 DEF Assign
<1>6. /\ pairedId'[c] = e /\ pairedId'[e] = c
      /\ \A x \in Remotes \ {c, e} : pairedId'[x] = pairedId[x]
    BY <1>1, <1>5, RemoteFacts DEF TypeOK, ServerTypeOK
<1>7. /\ \A x \in Remotes \ {e} : down'[x] = down[x]
      /\ down'[e] = <<>> \/ down'[e] = <<TaskMsg(c)>>
  <2>1. \A x \in Remotes : down'[x] = down[x] \/ (x = e /\ down'[x] = Append(<<>>, TaskMsg(c)))
      BY <1>1, <1>4, <1>5, RemoteFacts DEF TypeOK, FabricTypeOK
  <2>2. Append(<<>>, TaskMsg(c)) = <<TaskMsg(c)>>
      OBVIOUS
  <2> QED
      BY <1>1, <1>4, <2>1, <2>2, RemoteFacts
<1>8. ExecOK(e)'
  <2>1. ExecDown(e)'
      BY <1>1, <1>2, <1>4, <1>6, <1>7, RemoteFacts DEF ExecDown
  <2>2. ExecUp(e)'
      BY <1>2, <1>4 DEF ExecUp
  <2>3. ExecPaired(e)'
      BY <1>2, <1>3, <1>4, <1>6 DEF ExecPaired
  <2> QED
      BY <2>1, <2>2, <2>3 DEF ExecOK
<1>9. ASSUME NEW f \in Execs, f # e PROVE ExecOK(f)'
  <2>1. ExecOK(f)
      BY DEF Turns, ExecOK
  <2>2. pairedId[f] # None => pairedId[f] \in Clients /\ pairedId[f] # c
      BY <1>1, <2>1, RemoteFacts DEF ExecOK, ExecPaired, TypeOK, ServerTypeOK
  <2>3. pairedId'[f] = pairedId[f]
      BY <1>6, <1>9, RemoteFacts
  <2>4. pairedId[f] # None => pairedId'[pairedId[f]] = pairedId[pairedId[f]]
      BY <1>1, <1>6, <2>2, RemoteFacts
  <2> QED
      BY <1>2, <1>3, <1>7, <1>9, <2>1, <2>3, <2>4, ExecUnmoved, RemoteFacts
<1>10. ClientTurn(c)'
  <2>1. ClientTurn(c)
      BY DEF Turns
  <2>2. down'[c] = down[c] /\ pairedId'[c] # None /\ c \notin taskQueue'
      BY <1>1, <1>2, <1>6, <1>7, RemoteFacts
  <2> QED
      BY <1>2, <2>1, <2>2 DEF ClientTurn
<1>11. ASSUME NEW d \in Clients, d # c PROVE ClientTurn(d)'
  <2>1. ClientTurn(d)
      BY DEF Turns
  <2>2. pairedId'[d] = pairedId[d] /\ down'[d] = down[d]
      BY <1>1, <1>6, <1>7, <1>11, RemoteFacts
  <2> QED
      BY <1>2, <2>1, <2>2, ClientUnmoved
<1>12. \A x \in Remotes : proc'[x] = "none" => conn'[x] = "none"
    BY <1>2 DEF Turns
<1> QED
    BY <1>3, <1>8, <1>9, <1>10, <1>11, <1>12 DEF Turns, ExecOK

(* The second loop of check_queues sends an exec away.                     *)
LEMMA TurnsRelease ==
    ASSUME TypeOK, TypeOK', Turns, Release, UNCHANGED execVars
    PROVE  Turns'
<1>0. PICK e : e = Head(execQueue)
    OBVIOUS
<1>1. /\ execQueue # <<>> /\ execQueue' = Tail(execQueue)
      /\ down' = down \/ down' = [down EXCEPT ![e] = Append(@, PissOff)]
      /\ UNCHANGED <<proc, conn, up, pairedId, taskQueue, running>>
    BY <1>0 DEF Release, PopExec, execVars
<1>2. /\ e \in Execs /\ InQueue(e) /\ ~InQueue(e)'
      /\ \A f \in Execs : InQueue(f)' => InQueue(f)
      /\ \A i, j \in 1 .. Len(execQueue') : execQueue'[i] = execQueue'[j] => i = j
    BY <1>0, <1>1, QueuePopped
<1>3. /\ pairedId[e] = None /\ down[e] = <<>> /\ proc[e] # "running"
      /\ conn[e] \notin {"none", "backlog"}
      /\ \A i \in 1 .. Len(up[e]) : up[e][i].type = "Dropped"
    BY <1>2, QueuedExec
<1>4. /\ \A x \in Remotes \ {e} : down'[x] = down[x]
      /\ down'[e] = <<>> \/ down'[e] = <<PissOff>>
  <2>1. \A x \in Remotes : down'[x] = down[x] \/ (x = e /\ down'[x] = Append(<<>>, PissOff))
      BY <1>1, <1>2, <1>3, RemoteFacts DEF TypeOK, FabricTypeOK
  <2>2. Append(<<>>, PissOff) = <<PissOff>>
      OBVIOUS
  <2> QED
      BY <1>2, <1>3, <2>1, <2>2, RemoteFacts
<1>5. ExecOK(e)'
    BY <1>1, <1>2, <1>3, <1>4 DEF ExecOK, ExecDown, ExecUp, ExecPaired
<1>6. ASSUME NEW f \in Execs, f # e PROVE ExecOK(f)'
  <2>1. ExecOK(f)
      BY DEF Turns, ExecOK
  <2> QED
      BY <1>1, <1>2, <1>4, <1>6, <2>1, ExecUnmoved, RemoteFacts
<1>7. ASSUME NEW d \in Clients PROVE ClientTurn(d)'
  <2>1. ClientTurn(d)
      BY DEF Turns
  <2> QED
      BY <1>1, <1>2, <1>4, <2>1, ClientUnmoved, RemoteFacts
<1>8. \A x \in Remotes : proc'[x] = "none" => conn'[x] = "none"
    BY <1>1 DEF Turns
<1> QED
    BY <1>2, <1>5, <1>6, <1>7, <1>8 DEF Turns, ExecOK

-----------------------------------------------------------------------------
(* handle_msg.                                                             *)

(* The first message of a buffer is taken.                                 *)
LEMMA Received ==
    ASSUME TypeOK, NEW x \in Remotes, NEW type, Receive(x, type)
    PROVE  /\ Head(up[x]) \in Messages /\ Head(up[x]).type = type
           /\ up[x] # <<>> /\ Len(up[x]) \in Nat /\ 1 \in 1 .. Len(up[x]) /\ up[x][1] = Head(up[x])
           /\ \A i \in 1 .. Len(up'[x]) : i + 1 \in 2 .. Len(up[x]) /\ up'[x][i] = up[x][i + 1]
           /\ Shrinks(up[x], up'[x])
           /\ \A y \in Remotes \ {x} : up'[y] = up[y]
           /\ conn[x] \notin {"none", "backlog"}
           /\ UNCHANGED <<proc, conn>>
<1>1. up \in [Remotes -> Seq(Messages)] /\ up[x] \in Seq(Messages)
    BY DEF TypeOK, FabricTypeOK
<1>2. /\ up[x] # <<>> /\ up' = [up EXCEPT ![x] = Tail(@)] /\ Head(up[x]).type = type
      /\ conn[x] \notin {"none", "backlog"} /\ UNCHANGED <<proc, conn>>
    BY DEF Receive
<1>3. up'[x] = Tail(up[x]) /\ \A y \in Remotes \ {x} : up'[y] = up[y]
    BY <1>1, <1>2
<1>4. /\ Len(up[x]) \in Nat /\ Len(up[x]) > 0
      /\ Head(up[x]) \in Messages /\ Head(up[x]) = up[x][1]
      /\ Len(Tail(up[x])) = Len(up[x]) - 1
      /\ \A i \in 1 .. Len(up[x]) - 1 : Tail(up[x])[i] = up[x][i + 1]
    BY <1>1, <1>2, TailFacts
<1>5. \A i \in 1 .. Len(up'[x]) : i + 1 \in 2 .. Len(up[x]) /\ up'[x][i] = up[x][i + 1]
    BY <1>3, <1>4
<1>6. Shrinks(up[x], up'[x])
    BY <1>1, <1>2, <1>3, ShrinkFacts
<1> QED
    BY <1>2, <1>3, <1>4, <1>5, <1>6

(* An exec introduces itself.                                              *)
LEMMA TurnsServant ==
    ASSUME TypeOK, TypeOK', Turns, NEW e \in Execs, RecvServant(e), UNCHANGED execVars
    PROVE  Turns'
<1>1. Receive(e, "YourObedientServant") /\ e \in Remotes
    BY RemoteFacts DEF RecvServant
<1>2. /\ Head(up[e]).type = "YourObedientServant"
      /\ 1 \in 1 .. Len(up[e]) /\ up[e][1] = Head(up[e]) /\ Len(up[e]) \in Nat
      /\ \A i \in 1 .. Len(up'[e]) : i + 1 \in 2 .. Len(up[e]) /\ up'[e][i] = up[e][i + 1]
      /\ \A y \in Remotes \ {e} : up'[y] = up[y]
      /\ conn[e] \notin {"none", "backlog"}
      /\ UNCHANGED <<proc, conn>>
    BY <1>1, Received
<1>3. /\ execQueue' = Append(execQueue, e) /\ pairedId' = [pairedId EXCEPT ![e] = None]
      /\ UNCHANGED <<down, taskQueue, running>>
    BY DEF RecvServant, ExecIsReady, Unpair, execVars
<1>4. pairedId[e] = None /\ ~InQueue(e) /\ down[e] = <<>>
    BY <1>2 DEF Turns, ExecUp, Final
<1>5. pairedId' = pairedId
    BY <1>3, <1>4 DEF TypeOK, ServerTypeOK
<1>6. proc[e] # "running"
    BY <1>4, UpRunning
<1>7. \A i \in 1 .. Len(up'[e]) : up'[e][i].type = "Dropped"
  <2> SUFFICES ASSUME NEW i \in 1 .. Len(up'[e]) PROVE up[e][i + 1].type = "Dropped"
      BY <1>2
  <2>1. i + 1 \in 1 .. Len(up[e]) /\ i + 1 # 1
      BY <1>2
  <2>2. up[e] \in Seq(Messages)
      BY <1>1 DEF TypeOK, FabricTypeOK
  <2>3. up[e][i + 1] \in Messages
      BY <2>1, <2>2
  <2>4. up[e][i + 1].type \in Results => up[e][i + 1].task # None
      BY <2>3, ResultType, RemoteFacts
  <2> QED
      BY <1>4, <2>1, <2>4 DEF Turns, ExecUp, Results
<1>8. /\ \A f \in Execs \ {e} : InQueue(f)' => InQueue(f)
      /\ \A i, j \in 1 .. Len(execQueue') : execQueue'[i] = execQueue'[j] => i = j
    BY <1>3, <1>4, QueuePushed
<1>9. ExecOK(e)'
    BY <1>2, <1>3, <1>4, <1>5, <1>6, <1>7 DEF ExecOK, ExecDown, ExecUp, ExecPaired
<1>10. ASSUME NEW f \in Execs, f # e PROVE ExecOK(f)'
  <2>1. ExecOK(f)
      BY DEF Turns, ExecOK
  <2> QED
      BY <1>2, <1>3, <1>5, <1>8, <1>10, <2>1, ExecUnmoved, RemoteFacts
<1>11. ASSUME NEW d \in Clients PROVE ClientTurn(d)'
  <2>1. ClientTurn(d)
      BY DEF Turns
  <2> QED
      BY <1>2, <1>3, <1>5, <2>1, ClientUnmoved, RemoteFacts
<1>12. \A x \in Remotes : proc'[x] = "none" => conn'[x] = "none"
    BY <1>2 DEF Turns
<1> QED
    BY <1>8, <1>9, <1>10, <1>11, <1>12 DEF Turns, ExecOK

(* A client's task arrives.                                                *)
LEMMA TurnsTask ==
    ASSUME TypeOK, TypeOK', Turns, NEW c \in Clients, RecvTask(c), UNCHANGED execVars
    PROVE  Turns'
<1>1. Receive(c, "Task") /\ c \in Remotes
    BY RemoteFacts DEF RecvTask
<1>2. /\ Head(up[c]).type = "Task"
      /\ 1 \in 1 .. Len(up[c]) /\ up[c][1] = Head(up[c]) /\ Len(up[c]) \in Nat
      /\ \A i \in 1 .. Len(up'[c]) : i + 1 \in 2 .. Len(up[c]) /\ up'[c][i] = up[c][i + 1]
      /\ \A y \in Remotes \ {c} : up'[y] = up[y]
      /\ conn[c] \notin {"none", "backlog"}
      /\ UNCHANGED <<proc, conn>>
    BY <1>1, Received
<1>3. taskQueue' = taskQueue \cup {c} /\ UNCHANGED <<down, pairedId, execQueue, running>>
    BY DEF RecvTask, execVars
<1>4. pairedId[c] = None
    BY <1>2 DEF Turns, ClientTurn
<1>5. \A i \in 1 .. Len(up'[c]) : up'[c][i].type = "Dropped"
  <2> SUFFICES ASSUME NEW i \in 1 .. Len(up'[c]) PROVE up[c][i + 1].type = "Dropped"
      BY <1>2
  <2>1. i + 1 \in 1 .. Len(up[c]) /\ i + 1 # 1
      BY <1>2
  <2> QED
      BY <2>1 DEF Turns, ClientTurn
<1>6. ClientTurn(c)'
    BY <1>2, <1>3, <1>4, <1>5 DEF Turns, ClientTurn
<1>7. proc'[c] = "none" => conn'[c] = "none"
    BY <1>1, <1>2 DEF Turns
<1> QED
    BY <1>2, <1>3, <1>6, <1>7, ClientMoves

(* A result for the client an exec is paired with.                         *)
LEMMA ClientTold ==
    ASSUME TypeOK, TypeOK', Turns, NEW c \in Clients, pairedId[c] # None, NEW m \in Messages,
           m.type \in Results, m.task = c,
           down' = down \/ down' = [down EXCEPT ![c] = Append(@, m)],
           up'[c] = up[c], UNCHANGED <<conn, taskQueue>>, pairedId'[c] = pairedId[c]
    PROVE  ClientTurn(c)' /\ \A x \in Remotes \ {c} : down'[x] = down[x]
<1>1. ClientTurn(c) /\ c \in Remotes
    BY RemoteFacts DEF Turns
<1>2. /\ \A i \in 1 .. Len(down'[c]) : down'[c][i].type \in Results /\ down'[c][i].task = c
      /\ \A x \in Remotes \ {c} : down'[x] = down[x]
  <2>1. CASE down' = down
      BY <1>1, <2>1 DEF ClientTurn
  <2>2. CASE down' = [down EXCEPT ![c] = Append(@, m)]
    <3>1. /\ \A y \in Remotes \ {c} : down'[y] = down[y]
          /\ Len(down[c]) \in Nat /\ Len(down'[c]) = Len(down[c]) + 1
          /\ down'[c][Len(down[c]) + 1] = m
          /\ \A i \in 1 .. Len(down[c]) : down'[c][i] = down[c][i]
        BY <1>1, <2>2, Appended
    <3>2. \A i \in 1 .. Len(down'[c]) :
             down'[c][i] = m \/ (i \in 1 .. Len(down[c]) /\ down'[c][i] = down[c][i])
        BY <3>1
    <3> QED
        BY <1>1, <3>1, <3>2 DEF ClientTurn
  <2> QED
      BY <2>1, <2>2
<1> QED
    BY <1>1, <1>2 DEF ClientTurn

(* Output is forwarded, or the client of a lost exec is told.              *)
LEMMA TurnsForward ==
    ASSUME TypeOK, TypeOK', Turns, NEW e \in Execs, NEW type, Receive(e, type),
           pairedId[e] # None, NEW m \in Messages, m.type \in Results, m.task = pairedId[e],
           down' = down \/ down' = [down EXCEPT ![pairedId[e]] = Append(@, m)],
           UNCHANGED <<pairedId, execQueue, taskQueue, running>>
    PROVE  Turns'
<1>1. PICK c \in Clients : c = pairedId[e]
    BY DEF TypeOK, ServerTypeOK
<1>2. pairedId[c] = e /\ pairedId[c] # None /\ e \in Remotes
    BY <1>1, RemoteFacts DEF Turns, ExecPaired
<1>3. /\ Shrinks(up[e], up'[e])
      /\ \A y \in Remotes \ {e} : up'[y] = up[y]
      /\ UNCHANGED <<proc, conn>>
    BY <1>2, Received
<1>4. ClientTurn(c)' /\ \A x \in Remotes \ {c} : down'[x] = down[x]
    BY <1>1, <1>2, <1>3, ClientTold, RemoteFacts
<1>5. \A f \in Execs : InQueue(f)' => InQueue(f)
    BY DEF InQueue
<1>6. ASSUME NEW f \in Execs PROVE ExecOK(f)'
  <2>1. ExecOK(f)
      BY DEF Turns, ExecOK
  <2>2. CASE f = e
      BY <1>3, <1>4, <1>5, <2>1, <2>2, ExecFrame, RemoteFacts
  <2>3. CASE f # e
      BY <1>3, <1>4, <1>5, <2>1, <2>3, ExecUnmoved, RemoteFacts
  <2> QED
      BY <2>2, <2>3
<1>7. ASSUME NEW d \in Clients, d # c PROVE ClientTurn(d)'
  <2>1. ClientTurn(d)
      BY DEF Turns
  <2> QED
      BY <1>3, <1>4, <1>7, <2>1, ClientUnmoved, RemoteFacts
<1>8. \A x \in Remotes : proc'[x] = "none" => conn'[x] = "none"
    BY <1>3 DEF Turns
<1> QED
    BY <1>4, <1>6, <1>7, <1>8 DEF Turns, ExecOK

(* A result comes from a paired exec, about the task of its client: the    *)
(* expect in send_to_paired_remote never fires.                            *)
LEMMA ResultFacts ==
    ASSUME TypeOK, Turns, NEW e \in Execs, NEW type \in Results, Receive(e, type)
    PROVE  /\ pairedId[e] \in Clients /\ pairedId[e] # None
           /\ Head(up[e]) \in Messages /\ Head(up[e]).type = type
           /\ Head(up[e]).task = pairedId[e]
<1>1. e \in Remotes
    BY RemoteFacts
<1>2. /\ Head(up[e]) \in Messages /\ Head(up[e]).type = type
      /\ 1 \in 1 .. Len(up[e]) /\ up[e][1] = Head(up[e])
    BY <1>1, Received
<1>3. Head(up[e]).task \in Clients
    BY <1>2, ResultType
<1>4. Head(up[e]).task = pairedId[e]
    BY <1>2 DEF Turns, ExecUp, Results, Final
<1> QED
    BY <1>2, <1>3, <1>4, RemoteFacts

(* send_to_paired_remote forwards a chunk of output.                       *)
LEMMA TurnsOutput ==
    ASSUME TypeOK, TypeOK', Turns, NEW e \in Execs, RecvOutput(e), UNCHANGED execVars
    PROVE  Turns'
<1>1. Receive(e, "TaskOutput") /\ "TaskOutput" \in Results
    BY DEF RecvOutput, Results
<1>2. /\ pairedId[e] \in Clients /\ pairedId[e] # None
      /\ Head(up[e]) \in Messages /\ Head(up[e]).type = "TaskOutput"
      /\ Head(up[e]).task = pairedId[e]
    BY <1>1, ResultFacts
<1>3. down' = down \/ down' = [down EXCEPT ![pairedId[e]] = Append(@, Head(up[e]))]
    BY <1>2 DEF RecvOutput, SendToPaired
<1>4. UNCHANGED <<pairedId, execQueue, taskQueue, running>>
    BY DEF RecvOutput, execVars
<1> QED
    BY <1>1, <1>2, <1>3, <1>4, TurnsForward

(* The final answer: the exec is taken back.                               *)
LEMMA TurnsFinal ==
    ASSUME TypeOK, TypeOK', Turns, NEW e \in Execs, NEW type \in Final, RecvFinal(e, type),
           UNCHANGED execVars
    PROVE  Turns'
<1>1. Receive(e, type) /\ type \in Results /\ e \in Remotes
    BY RemoteFacts DEF RecvFinal, Results
<1>2. /\ pairedId[e] \in Clients /\ pairedId[e] # None
      /\ Head(up[e]) \in Messages /\ Head(up[e]).type = type
      /\ Head(up[e]).task = pairedId[e]
    BY <1>1, ResultFacts
<1>3. PICK c \in Clients : c = pairedId[e]
    BY <1>2
<1>4. pairedId[c] = e /\ pairedId[c] # None /\ ~InQueue(e)
    BY <1>2, <1>3, RemoteFacts DEF Turns, ExecPaired
<1>5. /\ down' = down \/ down' = [down EXCEPT ![c] = Append(@, Head(up[e]))]
      /\ execQueue' = Append(execQueue, e) /\ pairedId' = [pairedId EXCEPT ![e] = None]
      /\ UNCHANGED <<taskQueue, running>>
    BY <1>2, <1>3 DEF RecvFinal, SendToPaired, ExecIsReady, Unpair, execVars
<1>6. /\ pairedId'[e] = None
      /\ \A x \in Remotes \ {e} : pairedId'[x] = pairedId[x]
    BY <1>1, <1>5 DEF TypeOK, ServerTypeOK
<1>7. /\ 1 \in 1 .. Len(up[e]) /\ up[e][1] = Head(up[e]) /\ Len(up[e]) \in Nat
      /\ \A i \in 1 .. Len(up'[e]) : i + 1 \in 2 .. Len(up[e]) /\ up'[e][i] = up[e][i + 1]
      /\ \A y \in Remotes \ {e} : up'[y] = up[y]
      /\ conn[e] \notin {"none", "backlog"}
      /\ UNCHANGED <<proc, conn>>
    BY <1>1, Received
<1>8. /\ down[e] = <<>> /\ proc[e] # "running"
      /\ \A j \in 1 + 1 .. Len(up[e]) : up[e][j].type = "Dropped"
    BY <1>2, <1>7 DEF Turns, ExecUp, Final
<1>9. \A i \in 1 .. Len(up'[e]) : up'[e][i].type = "Dropped"
  <2> SUFFICES ASSUME NEW i \in 1 .. Len(up'[e]) PROVE up'[e][i].type = "Dropped"
      OBVIOUS
  <2>1. i + 1 \in 1 + 1 .. Len(up[e]) /\ up'[e][i] = up[e][i + 1]
      BY <1>7
  <2> QED
      BY <1>8, <2>1
<1>10. ClientTurn(c)' /\ \A x \in Remotes \ {c} : down'[x] = down[x]
    BY <1>1, <1>2, <1>3, <1>4, <1>5, <1>6, <1>7, ClientTold, RemoteFacts
<1>11. /\ \A f \in Execs \ {e} : InQueue(f)' => InQueue(f)
       /\ \A i, j \in 1 .. Len(execQueue') : execQueue'[i] = execQueue'[j] => i = j
    BY <1>4, <1>5, QueuePushed
<1>12. ExecOK(e)'
  <2>1. down'[e] = <<>>
      BY <1>1, <1>8, <1>10, RemoteFacts
  <2> QED
      BY <1>6, <1>7, <1>8, <1>9, <2>1 DEF ExecOK, ExecDown, ExecUp, ExecPaired
<1>13. ASSUME NEW f \in Execs, f # e PROVE ExecOK(f)'
  <2>1. ExecOK(f)
      BY DEF Turns, ExecOK
  <2>2. pairedId[f] # None => pairedId[f] \in Clients
      BY DEF TypeOK, ServerTypeOK
  <2>3. pairedId[f] # None => pairedId'[pairedId[f]] = pairedId[pairedId[f]]
      BY <1>6, <2>2, RemoteFacts
  <2> QED
      BY <1>5, <1>6, <1>7, <1>10, <1>11, <1>13, <2>1, <2>3, ExecUnmoved, RemoteFacts
<1>14. ASSUME NEW d \in Clients, d # c PROVE ClientTurn(d)'
  <2>1. ClientTurn(d)
      BY DEF Turns
  <2> QED
      BY <1>5, <1>6, <1>7, <1>10, <1>14, <2>1, ClientUnmoved, RemoteFacts
<1>15. \A x \in Remotes : proc'[x] = "none" => conn'[x] = "none"
    BY <1>7 DEF Turns
<1> QED
    BY <1>10, <1>11, <1>12, <1>13, <1>14, <1>15 DEF Turns, ExecOK

(* A connection is lost.                                                   *)
LEMMA TurnsDropped ==
    ASSUME TypeOK, TypeOK', Turns, NEW c \in Remotes, RecvDropped(c), UNCHANGED execVars
    PROVE  Turns'
<1>1. Receive(c, "Dropped") /\ UNCHANGED <<pairedId, execQueue, taskQueue, running>>
    BY DEF RecvDropped, execVars
<1>2. CASE Orphans(c)
  <2>1. c \in Execs /\ pairedId[c] # None
      BY <1>2, RemoteFacts DEF Orphans, TypeOK, ServerTypeOK
  <2>2. pairedId[c] \in Clients
      BY <2>1 DEF TypeOK, ServerTypeOK
  <2>3. /\ TaskFailed(pairedId[c]) \in Messages
        /\ TaskFailed(pairedId[c]).type \in Results /\ TaskFailed(pairedId[c]).task = pairedId[c]
      BY <2>2, MessageTypes DEF TaskFailed, Message, Results, Final
  <2>4. \/ down' = down
        \/ down' = [down EXCEPT ![pairedId[c]] = Append(@, TaskFailed(pairedId[c]))]
      BY <1>2 DEF RecvDropped
  <2> QED
      BY <1>1, <2>1, <2>3, <2>4, TurnsForward
<1>3. CASE ~Orphans(c)
  <2>1. UNCHANGED down
      BY <1>3 DEF RecvDropped
  <2> QED
      BY <1>1, <2>1, TurnsConsumed
<1> QED
    BY <1>2, <1>3

-----------------------------------------------------------------------------
(* The invariant, step by step.                                            *)

(* The server loop.                                                        *)
LEMMA TurnsServer ==
    ASSUME TypeOK, TypeOK', Turns, ServerNext, UNCHANGED execVars
    PROVE  Turns'
<1>1. ASSUME NEW c \in Remotes, Accept(c) PROVE Turns'
    BY <1>1, TurnsAccept
<1>2. ASSUME NEW c \in Remotes, HandleMsg(c) PROVE Turns'
  <2>1. ASSUME c \in Execs, RecvDone(c) \/ RecvFailed(c) PROVE Turns'
      BY <2>1, TurnsFinal DEF RecvDone, RecvFailed, Final
  <2> QED
      BY <1>2, <2>1, TurnsTask, TurnsServant, TurnsOutput, TurnsDropped DEF HandleMsg
<1>3. ASSUME Watchdog \/ CheckDone \/ ReleaseDone \/ ReleaseDelayExpires \/ IdleDelayExpires
      PROVE  Turns'
  <2>1. UNCHANGED <<proc, conn, up, down, pairedId, execQueue, taskQueue, running>>
      BY <1>3 DEF Watchdog, CheckDone, ReleaseDone, ReleaseDelayExpires, IdleDelayExpires,
                  execVars
  <2> QED
      BY <2>1, TurnsQuiet
<1>4. ASSUME NEW c \in Clients, Assign(c) PROVE Turns'
    BY <1>4, TurnsAssign
<1>5. ASSUME Release PROVE Turns'
    BY <1>5, TurnsRelease
<1> QED
    BY <1>1, <1>2, <1>3, <1>4, <1>5 DEF ServerNext, CheckQueues

(* No step breaks the turns.                                               *)
LEMMA TurnsStep == TypeOK /\ Turns /\ [Next]_vars => Turns'
<1> SUFFICES ASSUME TypeOK, Turns, [Next]_vars PROVE Turns'
    OBVIOUS
<1>1. TypeOK'
    BY TypeStep
<1>2. CASE UNCHANGED vars
  <2>1. UNCHANGED <<proc, conn, up, down, pairedId, execQueue, taskQueue, running>>
      BY <1>2 DEF vars, serverVars, execVars
  <2> QED
      BY <1>1, <2>1, TurnsQuiet
<1>3. CASE ServerNext /\ UNCHANGED <<clientVars, execVars>>
    BY <1>1, <1>3, TurnsServer
<1>4. ASSUME NEW c \in Remotes, ConnEof(c) \/ ConnReturn(c) \/ ConnWriteError(c),
             UNCHANGED <<serverVars, clientVars, execVars>>
      PROVE  Turns'
    BY <1>1, <1>4, TurnsEof, TurnsRelay
<1>5. ASSUME NEW q \in Queues, LoseJob(q), UNCHANGED <<serverVars, clientVars, execVars>>
      PROVE  Turns'
  <2>1. UNCHANGED <<proc, conn, up, down, pairedId, execQueue, taskQueue, running>>
      BY <1>5 DEF LoseJob, serverVars, execVars
  <2> QED
      BY <1>1, <2>1, TurnsQuiet
<1>6. ASSUME NEW c \in Clients, ClientNext(c), UNCHANGED <<serverVars, execVars>> PROVE Turns'
    BY <1>1, <1>6, TurnsClientConnect, TurnsClientReads DEF ClientNext
<1>7. ASSUME NEW e \in Execs, ExecNext(e), UNCHANGED <<serverVars, clientVars>> PROVE Turns'
    BY <1>1, <1>7, TurnsExecConnect, TurnsStartTask, TurnsStartFails, TurnsSendOutput,
       TurnsSendDone, TurnsExecLeaves DEF ExecNext, ExecStep
<1> QED
    BY <1>2, <1>3, <1>4, <1>5, <1>6, <1>7 DEF Next

(* Nobody has said anything yet.                                           *)
LEMMA TurnsInit == Init => Turns
<1> SUFFICES ASSUME Init PROVE Turns
    OBVIOUS
<1>1. /\ \A x \in Remotes : /\ up[x] = <<>> /\ down[x] = <<>> /\ pairedId[x] = None
                            /\ proc[x] = "none" /\ conn[x] = "none"
      /\ taskQueue = {} /\ execQueue = <<>>
    BY DEF Init, FabricInit, ServerInit
<1>2. Len(<<>>) = 0 /\ \A i \in 1 .. 0 : FALSE
    OBVIOUS
<1>3. \A e \in Execs : ExecDown(e) /\ ExecUp(e) /\ ExecPaired(e)
    BY <1>1, <1>2, RemoteFacts DEF ExecDown, ExecUp, ExecPaired, InQueue
<1>4. \A c \in Clients : ClientTurn(c)
    BY <1>1, <1>2, RemoteFacts DEF ClientTurn
<1> QED
    BY <1>1, <1>2, <1>3, <1>4 DEF Turns

(* The server and its remotes take turns: whatever dies, however the       *)
(* messages of different connections interleave.                           *)
THEOREM TurnsCorrect == Spec => []Turns
    BY TypeInit, TypeStep, TurnsInit, TurnsStep, PTL DEF Spec

(* send_to_paired_remote routes by pairing alone, and still never sends a  *)
(* client the result of another client's task.                             *)
THEOREM OwnResults == Spec => []OwnResultsOnly
<1>1. Turns => OwnResultsOnly
    BY DEF Turns, ClientTurn, OwnResultsOnly
<1> QED
    BY <1>1, TurnsCorrect, PTL

(* No connection carries messages both ways at once, so the relay's        *)
(* select! never abandons a message it has read half of.                   *)
THEOREM FramingSafe == Spec => []HalfDuplex
<1>1. ASSUME TypeOK, Turns, NEW x \in Remotes, down[x] # <<>>
      PROVE  \A i \in 1 .. Len(up[x]) : up[x][i].type = "Dropped"
  <2>1. CASE x \in Execs
      BY <1>1, <2>1, UpQuiet
  <2>2. CASE x \in Clients
      BY <1>1, <2>2 DEF Turns, ClientTurn
  <2> QED
      BY <2>1, <2>2, RemoteFacts
<1>2. TypeOK /\ Turns => HalfDuplex
    BY <1>1 DEF HalfDuplex
<1> QED
    BY <1>2, TypeCorrect, TurnsCorrect, PTL

(* An exec that holds a task is paired with the task's client.             *)
LEMMA HolderPaired ==
    ASSUME TypeOK, Turns, NEW c \in Clients, NEW e \in Holders(c)
    PROVE  e \in Execs /\ pairedId[c] = e
<1>1. e \in Execs
    BY DEF Holders
<1>2. pairedId[e] = c
  <2>1. CASE \E i \in 1 .. Len(down[e]) : down[e][i] = TaskMsg(c)
    <3>1. PICK i \in 1 .. Len(down[e]) : down[e][i] = TaskMsg(c)
        BY <2>1
    <3>2. \A m : Len(<<m>>) = 1 /\ <<m>>[1] = m
        OBVIOUS
    <3>3. Len(<<>>) = 0 /\ \A j \in 1 .. 0 : FALSE
        OBVIOUS
    <3>4. \/ down[e] = <<TaskMsg(pairedId[e])>>
          \/ down[e] = <<PissOff>>
        BY <1>1, <3>1, <3>3 DEF Turns, ExecDown
    <3>5. TaskMsg(c) = TaskMsg(pairedId[e]) \/ TaskMsg(c) = PissOff
        BY <3>1, <3>2, <3>4
    <3> QED
        BY <3>5 DEF TaskMsg, PissOff, Message
  <2>2. CASE proc[e] = "running" /\ running[e] = c
      BY <1>1, <2>2 DEF Turns, ExecPaired
  <2>3. CASE \E i \in 1 .. Len(up[e]) : up[e][i].type \in Final /\ up[e][i].task = c
      BY <1>1, <2>3 DEF Turns, ExecUp, Final
  <2> QED
      BY <2>1, <2>2, <2>3 DEF Holders
<1> QED
    BY <1>1, <1>2, RemoteFacts DEF Turns, ExecPaired

(* check_queues never hands a task to two execs.                           *)
THEOREM OneRun == Spec => []AtMostOneRun
<1>1. ASSUME TypeOK, Turns, NEW c \in Clients
      PROVE  /\ c \in taskQueue => Holders(c) = {}
             /\ \A e, f \in Holders(c) : e = f
  <2>1. \A e \in Holders(c) : e \in Execs /\ pairedId[c] = e
      BY <1>1, HolderPaired
  <2>2. c \in taskQueue => pairedId[c] = None
      BY <1>1 DEF Turns, ClientTurn
  <2> QED
      BY <2>1, <2>2, RemoteFacts
<1>2. TypeOK /\ Turns => AtMostOneRun
    BY <1>1 DEF AtMostOneRun
<1> QED
    BY <1>2, TypeCorrect, TurnsCorrect, PTL

(* The asserts of check_queues and the expect of send_to_paired_remote     *)
(* never fire, under every fault: an exec is unpaired as long as it is in  *)
(* exec_queue, and paired when it has a result on its way.                 *)
THEOREM PairingAsserts == Spec => PairingHolds
<1>1. ASSUME TypeOK, Turns, NEW c \in Clients, Assign(c) PROVE pc' # "panic"
  <2>1. ~(c = Head(execQueue) \/ pairedId[c] # None \/ pairedId[Head(execQueue)] # None)
      BY <1>1, AssignFacts
  <2> QED
      BY <1>1, <2>1 DEF Assign
<1>2. ASSUME TypeOK, Turns, NEW e \in Execs, RecvOutput(e) PROVE pc' # "panic"
  <2>1. pairedId[e] # None
      BY <1>2, ResultFacts DEF RecvOutput, Results
  <2> QED
      BY <1>2, <2>1 DEF RecvOutput, Receive
<1>3. ASSUME TypeOK, Turns, NEW e \in Execs, RecvDone(e) \/ RecvFailed(e) PROVE pc' # "panic"
  <2>1. PICK type \in Final : RecvFinal(e, type)
      BY <1>3 DEF RecvDone, RecvFailed, Final
  <2>2. pairedId[e] # None
      BY <1>3, <2>1, ResultFacts DEF RecvFinal, Results
  <2> QED
      BY <2>1, <2>2 DEF RecvFinal, ExecIsReady, Update
<1>4. TypeOK /\ Turns =>
        /\ \A c \in Clients : Assign(c) => pc' # "panic"
        /\ \A e \in Execs : RecvOutput(e) \/ RecvDone(e) \/ RecvFailed(e) => pc' # "panic"
    BY <1>1, <1>2, <1>3
<1> QED
    BY <1>4, TypeCorrect, TurnsCorrect, PTL DEF PairingHolds
=============================================================================
