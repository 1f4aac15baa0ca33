------------------------------- MODULE Relay --------------------------------
(***************************************************************************)
(* The way of a task's results through the server, at the grain at which   *)
(* something can block or be cut off: the frames of ipc::Connection on the *)
(* socket of an exec, read by a relay task (handle_connection) whose       *)
(* select! may cancel a read, the bounded channels between the relays and  *)
(* the loop, and the sends of the loop, which wait for room.               *)
(*                                                                         *)
(* The model starts when the connections are up, execs and clients have    *)
(* been read and each exec has been sent its first task.  From the loop it *)
(* takes the handling of results and of lost connections; starting and     *)
(* releasing execs is in Server.                                           *)
(***************************************************************************)
EXTENDS Integers, Sequences

CONSTANTS
    Clients, Execs,
    None,
    FirstClient,    \* the client each exec is paired with at first
    MaxOutputs,     \* TaskOutput messages per task (a bound)
    InCap,          \* of the one channel from the relays to the loop (256)
    OutCap,         \* of the channel from the loop to each relay (256)
    SockCap,        \* of a socket's buffers, in units up and messages down
    PrefixLen,      \* units of a frame's length prefix, each read on its own
    BodyLen         \* units of a frame's body

Remotes == Clients \cup Execs

(* Messages as far as they matter here; results have a number.             *)
Messages == [type : {"Task", "TaskOutput", "TaskDone", "TaskFailed", "Dropped", "Garbage"},
             task : Clients \cup {None},
             seq : Nat]

ASSUME RelayAssumption ==
    /\ Clients \cap Execs = {} /\ None \notin Remotes \cup Messages
    /\ FirstClient \in [Execs -> Clients]
    /\ \A e, f \in Execs : FirstClient[e] = FirstClient[f] => e = f
    /\ MaxOutputs \in Nat
    /\ {InCap, OutCap, SockCap, PrefixLen, BodyLen} \subseteq Nat \ {0}

VARIABLES
    alive,      \* the remote process runs
    job,        \* of an exec: the client whose task it runs, or None
    outputs,    \* of an exec: TaskOutput messages of this task so far
    wrote,      \* of an exec: ghost, messages it has begun to write
    writing,    \* of an exec: what write_message has still to write
    sock,       \* of an exec: units on their way to the server
    buf,        \* of a relay: Connection.buf
    need,       \* of a relay: the length its read_message has consumed, or 0
    decoded,    \* of a relay: ghost, messages read_message has returned
    relay,      \* of a relay: "select", "send", "write", "drop" or "done"
    hold,       \* of a relay: the message it is sending or writing
    inbound,    \* channel of all relays to the loop
    out,        \* channel of the loop to each relay
    sockDown,   \* messages on their way to a remote
    loop,       \* "up", or "failed" after an error left run()
    sends,      \* what the handler that runs has still to send; empty at the select!
    paired,     \* paired_id of an exec
    dead,       \* clients marked Dead
    waiting     \* clients whose task is queued

remoteVars == <<alive, job, outputs, wrote, writing>>
loopVars == <<loop, sends, paired, dead, waiting>>
vars == <<remoteVars, sock, buf, need, decoded, relay, hold, inbound, out, sockDown, loopVars>>

Msg(type, task, seq) == [type |-> type, task |-> task, seq |-> seq]
Garbage == Msg("Garbage", None, 0)
Final == {"TaskDone", "TaskFailed"}

-----------------------------------------------------------------------------
(* ipc::Connection.                                                        *)

Frame(m) == [i \in 1 .. PrefixLen + BodyLen |-> [msg |-> m, at |-> i]]

(* The next n units of b are those of a frame from position p on.          *)
Aligned(b, p, n) == \A i \in 1 .. n : b[i] = [msg |-> b[1].msg, at |-> p + i - 1]

(* read_message runs from one await to the next: what it leaves in the     *)
(* buffer, the length it has taken off it, and the message it returns      *)
(* (None if it goes on waiting).  Units out of step give garbage.          *)
Parse(b, n) ==
    LET taken == n = 0 /\ Len(b) >= PrefixLen
        rest == IF taken THEN SubSeq(b, PrefixLen + 1, Len(b)) ELSE b
        len == IF taken THEN BodyLen ELSE n
        whole == len > 0 /\ Len(rest) >= len
        sound == /\ taken => Aligned(b, 1, PrefixLen + BodyLen)
                 /\ Aligned(rest, PrefixLen + 1, BodyLen)
    IN  IF whole
        THEN [buf |-> SubSeq(rest, len + 1, Len(rest)), need |-> 0,
              msg |-> IF sound THEN rest[1].msg ELSE Garbage]
        ELSE [buf |-> rest, need |-> len, msg |-> None]

-----------------------------------------------------------------------------
(* Execs and clients.                                                      *)

(* run_task: the next message, a line or block of output, or TaskDone.     *)
ExecMessage(e) ==
    /\ alive[e] /\ job[e] # None
    /\ writing[e] = <<>>
    /\ \/ /\ outputs[e] < MaxOutputs
          /\ outputs' = [outputs EXCEPT ![e] = @ + 1]
          /\ writing' = [writing EXCEPT ![e] = Frame(Msg("TaskOutput", job[e], wrote[e] + 1))]
          /\ UNCHANGED job
       \/ /\ writing' = [writing EXCEPT ![e] = Frame(Msg("TaskDone", job[e], wrote[e] + 1))]
          /\ job' = [job EXCEPT ![e] = None]
          /\ UNCHANGED outputs
    /\ wrote' = [wrote EXCEPT ![e] = @ + 1]
    /\ UNCHANGED <<alive, sock, buf, need, decoded, relay, hold, inbound, out, sockDown, loopVars>>

(* write_message: the kernel takes as much as there is room for.           *)
ExecWrite(e) ==
    /\ alive[e]
    /\ writing[e] # <<>>
    /\ Len(sock[e]) < SockCap
    /\ sock' = [sock EXCEPT ![e] = Append(@, Head(writing[e]))]
    /\ writing' = [writing EXCEPT ![e] = Tail(@)]
    /\ UNCHANGED <<alive, job, outputs, wrote, buf, need, decoded, relay, hold, inbound, out,
                   sockDown, loopVars>>

(* The exec reads its next task, once it has written all about the last.   *)
ExecTask(e) ==
    /\ alive[e] /\ job[e] = None
    /\ writing[e] = <<>>
    /\ sockDown[e] # <<>>
    /\ job' = [job EXCEPT ![e] = Head(sockDown[e]).task]
    /\ outputs' = [outputs EXCEPT ![e] = 0]
    /\ sockDown' = [sockDown EXCEPT ![e] = Tail(@)]
    /\ UNCHANGED <<alive, wrote, writing, sock, buf, need, decoded, relay, hold, inbound, out, loopVars>>

(* The client writes what it is sent and leaves after the final message.   *)
ClientRead(c) ==
    /\ alive[c]
    /\ sockDown[c] # <<>>
    /\ alive' = [alive EXCEPT ![c] = Head(sockDown[c]).type \notin Final]
    /\ sockDown' = [sockDown EXCEPT ![c] = Tail(@)]
    /\ UNCHANGED <<job, outputs, wrote, writing, sock, buf, need, decoded, relay, hold, inbound,
                   out, loopVars>>

(* A remote is killed, an exec perhaps in the middle of a frame.           *)
Kill(x) ==
    /\ alive[x]
    /\ alive' = [alive EXCEPT ![x] = FALSE]
    /\ UNCHANGED <<job, outputs, wrote, writing, sock, buf, need, decoded, relay, hold, inbound,
                   out, sockDown, loopVars>>

-----------------------------------------------------------------------------
(* handle_connection.                                                      *)

(* The read arm of the select! is polled: read_message goes on with what   *)
(* has arrived, if it needs it.  A message it returns is to be sent on.    *)
RelayRead(e) ==
    /\ relay[e] = "select"
    /\ \E k \in 0 .. Len(sock[e]) :
          LET ready == Parse(buf[e], need[e]).msg # None
              res == Parse(buf[e] \o SubSeq(sock[e], 1, k), need[e])
          IN  /\ (k = 0) = ready
              /\ sock' = [sock EXCEPT ![e] = SubSeq(@, k + 1, Len(@))]
              /\ buf' = [buf EXCEPT ![e] = res.buf]
              /\ need' = [need EXCEPT ![e] = res.need]
              /\ IF res.msg = None
                 THEN UNCHANGED <<decoded, relay, hold>>
                 ELSE /\ decoded' = [decoded EXCEPT ![e] = @ + 1]
                      /\ relay' = [relay EXCEPT ![e] = "send"]
                      /\ hold' = [hold EXCEPT ![e] = res.msg]
    /\ UNCHANGED <<remoteVars, inbound, out, sockDown, loopVars>>

(* tx_chan.send(): waits for room in the channel to the loop.              *)
RelaySend(e) ==
    /\ relay[e] = "send"
    /\ Len(inbound) < InCap
    /\ inbound' = Append(inbound, [from |-> e, msg |-> hold[e]])
    /\ relay' = [relay EXCEPT ![e] = "select"]
    /\ UNCHANGED <<remoteVars, sock, buf, need, decoded, hold, out, sockDown, loopVars>>

(* rx_chan.recv(): there is a message to write.  The select! drops the     *)
(* read it does not choose, and with it the length that read_message may   *)
(* already have consumed.                                                  *)
RelayTake(x) ==
    /\ relay[x] = "select"
    /\ out[x] # <<>>
    /\ hold' = [hold EXCEPT ![x] = Head(out[x])]
    /\ out' = [out EXCEPT ![x] = Tail(@)]
    /\ relay' = [relay EXCEPT ![x] = "write"]
    /\ need' = [need EXCEPT ![x] = 0]
    /\ UNCHANGED <<remoteVars, sock, buf, decoded, inbound, sockDown, loopVars>>

StayUnread(x) == UNCHANGED out /\ relay' = [relay EXCEPT ![x] = "idle"]    \* mutant: rx_chan kept
(* handle_connection returns and gives up the receiver of its channel.     *)
Return(x) ==
    /\ relay' = [relay EXCEPT ![x] = "done"]
    /\ out' = [out EXCEPT ![x] = <<>>]

(* write_message: waits for room in the socket.  If the remote is gone the *)
(* message is lost, at once or after the kernel has taken it.              *)
RelayWrite(x) ==
    /\ relay[x] = "write"
    /\ \/ /\ alive[x] /\ Len(sockDown[x]) < SockCap
          /\ sockDown' = [sockDown EXCEPT ![x] = Append(@, hold[x])]
          /\ relay' = [relay EXCEPT ![x] = "select"]
          /\ UNCHANGED out
       \/ /\ ~alive[x]
          /\ relay' = [relay EXCEPT ![x] = "select"]
          /\ UNCHANGED <<out, sockDown>>
       \/ ~alive[x] /\ Return(x) /\ UNCHANGED sockDown
    /\ UNCHANGED <<remoteVars, sock, buf, need, decoded, hold, inbound, loopVars>>

(* The end of the stream, at the start of a frame or within one.           *)
RelayEof(x) ==
    /\ relay[x] = "select"
    /\ ~alive[x]
    /\ sock[x] = <<>>
    /\ Parse(buf[x], need[x]).msg = None
    /\ relay' = [relay EXCEPT ![x] = "drop"]
    /\ UNCHANGED <<remoteVars, sock, buf, need, decoded, hold, inbound, out, sockDown, loopVars>>

(* After the end of the stream Dropped is sent, which waits for room like  *)
(* every send; only then the task returns.                                 *)
RelayDrop(x) ==
    /\ relay[x] = "drop"
    /\ Len(inbound) < InCap
    /\ inbound' = Append(inbound, [from |-> x, msg |-> Msg("Dropped", None, 0)])
    /\ Return(x)
    /\ UNCHANGED <<remoteVars, sock, buf, need, decoded, hold, sockDown, loopVars>>

-----------------------------------------------------------------------------
(* The server loop.  A handler is what it sends, one send after the other. *)

Send(to, msg) == [to |-> to, msg |-> msg]

(* send_to_paired_remote skips a client known to be dead.                  *)
ToPaired(e, msg) == IF paired[e] \in dead THEN <<>> ELSE <<Send(paired[e], msg)>>

AnyResult(msg) == msg.seq > 0           \* mutant: the exec is free at its first result
EndsTask(msg) == msg.type = "TaskDone"

(* TaskDone: forward it, and give the exec the next task if there is one.  *)
LoopDone(e, msg) ==
    \/ /\ waiting = {}
       /\ sends' = ToPaired(e, msg)
       /\ paired' = [paired EXCEPT ![e] = None]
       /\ UNCHANGED waiting
    \/ \E c \in waiting :
          /\ sends' = ToPaired(e, msg) \o <<Send(e, Msg("Task", c, 0))>>
          /\ paired' = [paired EXCEPT ![e] = c]
          /\ waiting' = waiting \ {c}

(* handle_msg.                                                             *)
LoopRecv ==
    /\ loop = "up" /\ sends = <<>>
    /\ inbound # <<>>
    /\ inbound' = Tail(inbound)
    /\ LET x == Head(inbound).from
           msg == Head(inbound).msg
       IN  \/ /\ msg.type = "TaskOutput"
              /\ sends' = ToPaired(x, msg)
              /\ UNCHANGED <<paired, dead, waiting>>
           \/ EndsTask(msg) /\ LoopDone(x, msg) /\ UNCHANGED dead
           \/ /\ msg.type = "Dropped" /\ x \in Execs
              /\ sends' = IF paired[x] = None THEN <<>>
                          ELSE <<Send(paired[x], Msg("TaskFailed", paired[x], 0))>>
              /\ UNCHANGED <<paired, dead, waiting>>
           \/ /\ msg.type = "Dropped" /\ x \in Clients
              /\ dead' = dead \cup {x}
              /\ UNCHANGED <<sends, paired, waiting>>
    /\ UNCHANGED <<remoteVars, sock, buf, need, decoded, relay, hold, out, sockDown, loop>>

(* send_chan.send(): waits for room.  When the receiver is gone, a result  *)
(* marks the client dead; the other sends end the server.                  *)
LoopSend ==
    /\ loop = "up" /\ sends # <<>>
    /\ LET to == Head(sends).to
           msg == Head(sends).msg
           result == msg.seq > 0
       IN  \/ /\ relay[to] # "done" /\ Len(out[to]) < OutCap
              /\ out' = [out EXCEPT ![to] = Append(@, msg)]
              /\ sends' = Tail(sends)
              /\ UNCHANGED <<loop, dead>>
           \/ /\ relay[to] = "done" /\ result
              /\ dead' = dead \cup {to}
              /\ sends' = Tail(sends)
              /\ UNCHANGED <<loop, out>>
           \/ /\ relay[to] = "done" /\ ~result
              /\ loop' = "failed"
              /\ UNCHANGED <<dead, out, sends>>
    /\ UNCHANGED <<remoteVars, sock, buf, need, decoded, relay, hold, inbound, sockDown, paired, waiting>>

-----------------------------------------------------------------------------
Init ==
    /\ alive = [x \in Remotes |-> TRUE]
    /\ job = [e \in Execs |-> None]
    /\ outputs = [e \in Execs |-> 0]
    /\ wrote = [e \in Execs |-> 0]
    /\ writing = [e \in Execs |-> <<>>]
    /\ sock = [x \in Remotes |-> <<>>]
    /\ buf = [x \in Remotes |-> <<>>]
    /\ need = [x \in Remotes |-> 0]
    /\ decoded = [x \in Remotes |-> 0]
    /\ relay = [x \in Remotes |-> "select"]
    /\ hold = [x \in Remotes |-> Garbage]
    /\ inbound = <<>>
    /\ out = [x \in Remotes |-> IF x \in Execs THEN <<Msg("Task", FirstClient[x], 0)>> ELSE <<>>]
    /\ sockDown = [x \in Remotes |-> <<>>]
    /\ loop = "up"
    /\ sends = <<>>
    /\ paired = FirstClient
    /\ dead = {}
    /\ waiting = Clients \ {FirstClient[e] : e \in Execs}

ExecStep(e) == ExecMessage(e) \/ ExecWrite(e) \/ ExecTask(e)
RelayStep(x) ==
    RelayRead(x) \/ RelaySend(x) \/ RelayTake(x) \/ RelayWrite(x) \/ RelayEof(x) \/ RelayDrop(x)

Next ==
    \/ \E e \in Execs : ExecStep(e)
    \/ \E c \in Clients : ClientRead(c)
    \/ \E x \in Remotes : RelayStep(x) \/ Kill(x)
    \/ LoopRecv
    \/ LoopSend

(* The loop, the relays and the remotes are scheduled; nobody has to die.  *)
Fairness ==
    /\ WF_vars(LoopRecv) /\ WF_vars(LoopSend)
    /\ \A x \in Remotes : WF_vars(RelayStep(x))
    /\ \A e \in Execs : WF_vars(ExecStep(e))
    /\ \A c \in Clients : WF_vars(ClientRead(c))

Spec == Init /\ [][Next]_vars /\ Fairness

-----------------------------------------------------------------------------
(* Although a write cancels a read that may have consumed its length, the  *)
(* relay of an exec hands on the messages of that exec whole, in order and *)
(* nothing else, and when it gets to the end of the stream, it has handed  *)
(* on all the exec has finished writing.                                   *)
FramesWhole ==
    \A e \in Execs :
        /\ relay[e] = "send" => hold[e].type \in {"TaskOutput", "TaskDone"} /\ hold[e].seq = decoded[e]
        /\ relay[e] = "drop" => wrote[e] = decoded[e] + (IF writing[e] = <<>> THEN 0 ELSE 1)

(* The loop is in a send to a client whose relay no longer drains the      *)
(* channel: it waits for room for its Dropped, which only the loop makes.  *)
Circle ==
    /\ sends # <<>>
    /\ LET to == Head(sends).to
       IN  to \in Clients /\ relay[to] = "drop" /\ Len(out[to]) = OutCap /\ Len(inbound) = InCap

(* Every send of the loop ends, however slowly the others read and         *)
(* whoever dies, unless it waits for the relay of a client that is gone,   *)
(* which waits for the loop; so it never waits for good for an exec.       *)
HangsOnlyInCircle == sends # <<>> ~> sends = <<>> \/ loop = "failed" \/ Circle

(* The loop gets back to its select!, watchdog included ("Make sure we     *)
(* check on things even if no clients are communicating").                 *)
LoopReturns == sends # <<>> ~> sends = <<>> \/ loop = "failed"
=============================================================================
