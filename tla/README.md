# SprayCC: a TLA+ model, its checks and its proofs

SprayCC distributes compiles over a cluster. `spraycc run` (the *client*) wraps a
compile, sends it to `spraycc server`, and waits; the server starts `spraycc exec`
processes (*execs*) through the cluster's job command, hands each waiting task to a
waiting exec and forwards the results. This directory models that conversation (one
server, any number of clients and execs, connections that break, processes that die,
jobs that get lost) and what surrounds it: how processes find each other, how messages
get through sockets and channels, and what a user finds when a command has run elsewhere.

## 1. Inventory

| Component | Source | State it keeps | Operations |
|---|---|---|---|
| Server loop | `server.rs` `ServerState`, `run` | `remotes` (type, paired id, channel), `task_queue`, `exec_queue`, submit/finish counts, pending and running exec counts, last submit and last activity times | accept a connection, handle a message, watchdog; all of them end by evaluating `ok_to_shutdown` |
| Connection relay | `server.rs` `handle_connection` | one tokio task and two bounded channels per connection | read and check the codes, write, report the end of the stream |
| Messages | `ipc.rs` | `Message`, `Connection` with a read buffer | length-prefixed read, which `select!` may cancel, and write |
| Client | `client.rs` | the status, the open output files | interpret the command line, run it here, or find the server, connect with retries, send the task, write output, exit |
| Executor | `exec.rs`, `task.rs` | the task it runs, its output files and streams | phone home, redirect outputs, start a task, send output, send the result |
| Cluster manager | external, used in `server.rs` `start_execs` | submitted jobs | start a job, lose it |
| History | `history.rs` | elapsed times per target, those of this build | read, record, merge, write and rename |
| Contact file and user key | `config.rs` | one file per server directory, one in the home directory | create, fill, read, delete |
| Command line | `main.rs` | none | dispatch, `init`, exit codes |

How they interact. A remote opens one TCP connection. The relay moves messages
between the socket and two channels; the inbound channel is shared by all
connections and read by the loop. A client writes one `Task` and then only reads. An
exec writes `YourObedientServant`, then for each `Task` it reads any number of
`TaskOutput` and one `TaskDone` or `TaskFailed`, until it reads `PissOff`. The loop
keeps the *pairing* of an exec with the client whose task it runs, and results carry
no task id: they are routed by that pairing alone.

What is hard here:

* results, ends of streams and new connections arrive in any order across connections;
* a client or an exec can die at every point, including after the loop has queued it
  for work, and the relay can meet the death on its write or on its read side;
* the relay's `select!` cancels a read that has already consumed the length prefix;
* `running_exec_count` decides about shutdown and about starting execs and is changed
  at four places; several unsigned subtractions depend on counts that must agree;
* the loop, the relays and the processes wait for each other's channels and sockets;
* several servers, and `init`, create, overwrite and remove the same two files while
  clients and execs read them; addresses are used again;
* a command that runs elsewhere must look as if it had run here;
* shutdown is decided by two timers and two counts, not by looking at the tasks held;
* a server that has started too many, or waits for lost, execs must neither exceed
  `max_count` nor stop serving.

What makes the parts correct: a client gets the results of its own task, in order,
complete, and one final answer; a task runs at most once; no exec waits while a task
waits; the counts are exact; `max_count` holds; asserts and subtractions do not fail;
every accepted task is answered, and the server stops once nothing is left to do; a
client finds and reaches its own server; messages get through whole and the loop never
waits for good; files, output and exit code are those of a local run; no history is lost.
`PROJECT.json` lists the hazards line by line with the property that covers each.

## 2. Modules

| Module | What it is |
|---|---|
| `Fabric` | what the processes share: messages, connections with their relay tasks, cluster jobs, the kinds of faults |
| `Client` | `spraycc run` from connecting to exiting |
| `Exec` | `spraycc exec` |
| `Server` | the server loop with all its handlers |
| `SprayCC` | the composition, its fairness, and its properties |
| `TaskService` | the abstract specification: what the composition promises to a build |
| `SprayCCService` | the refinement mapping from `SprayCC` to `TaskService` |
| `Relay` | one level down from `Fabric`: frames, cancelled reads, bounded channels |
| `Startup` | what comes before `SprayCC`: key, contact file, ports, retries, access check |
| `TaskFiles` | one command, from its command line to its exit code and its files |
| `History` | the history file, shared by the servers of a user |
| `MC...` | model values and definitions for TLC |
| `SprayCCProof` | type correctness; the inductive invariant `Turns` and its consequences |
| `AnswersProof` | what a client is told: one answer, all the output, successes recorded |
| `ExecsProof` | the queues and counters of the server under every fault, and what holds if no exec dies while it waits: the queue of execs, their count, the end of the server |
| `ServiceProof` | `SprayCC` implements `TaskService` |
| `StartupProof` | the invariants of `Startup` |
| `HistoryProof` | the invariant of `History` |
| `RelayProof` | frames arrive whole |
| `TaskFilesProof` | files and output of a command are those of a local run |

### Correspondence with the code

* **Connections.** A remote opens exactly one connection, so the process serves as
  its connection id. `up[c]` is socket plus inbound channel, `down[c]` outbound
  channel plus socket. `conn[c]` follows the relay task: `backlog` (connected, not yet
  accepted), `open`, `eof` (it has read the end of the stream and sent `Dropped`; its
  receiver still exists), `done` (returned: sending to it is an error). `ConnWriteError`
  is the `?` on `write_message`, which returns without sending `Dropped`.
* **Death.** A dying process loses an arbitrary tail of what it wrote (`LoseTail`),
  and so does a relay that returns without reading on.
* **The loop.** Each arm of the `select!` is one action, except that the awaits inside
  `check_queues` are separate steps (`pc` is `check` or `release` in between), so that
  relays and remotes act between them. An error that leaves `run` through `?` is
  `pc = "failed"`, a panic `pc = "panic"`, a regular end `pc = "shutdown"`.
* **Arithmetic.** The repository's workflow builds with `cargo build`, where an
  unsigned underflow panics; the decrements of `running_exec_count` are modelled that way.
* **Time.** The two delays are compared with the clock only at the end of an arm, so
  they may expire at any time between arms (`ReleaseDelayExpires`, `IdleDelayExpires`).
* **Launching.** `start_execs_in_queue` is modelled as the loop that it is (`StartLoop`),
  for start commands that spawn: a recursive function from the pending count with which
  the loop starts to the one with which it stops.
* **Priorities.** A task goes to an exec if no other waiting task has a higher
  priority; the order of equals is left open, as the heap does.
* **Access codes.** A wrong code turns the first message into `Dropped` (`BadKey`).
  The low bit of the code, which names the queue an exec came from, is kept.
* **The history file.** `SprayCC` keeps what the server has recorded (`inTheMaking`)
  and written (`historyFile`) as sets of targets; `History` opens up that write:
  create a temporary file, load and merge, purge, rename, with several servers and a
  crash possible between any two of these. An entry is the time at which it was recorded.
* **Ghosts.** The `task` field of a result, `sent`, `got` and the chunk numbers;
  `saved` and `raced` of `History`; `wrote`, `decoded` and `seq` of `Relay`; `raced`,
  `met`, `served` and `killed` of `Startup` exist to state properties; no guard that
  models the code reads them (`killed` bounds the number of kills).

**`TaskService`** knows clients and the phase of their task: new, submitted, running,
ended, answered or gone. A task runs at most once, and its client is told how that run
ended or that it failed. The mapping reads the phase off the pairing: a task is
submitted until its client is paired, running while an exec has it or it is on its way
there, and ended when its final message is on its way, or when nothing is left of it.

**`Relay`** opens up the connections at the point where a task is running. A frame is a
prefix and a body of several units, a socket takes and gives any number of them,
`Parse` is `read_message` between two awaits, and `need` is the length it holds in a
local variable, which `RelayTake` loses when the `select!` prefers the write. A handler
of the loop is the list of sends it awaits one after the other; the handling of results
and of lost connections is taken over from `Server`, starting and releasing execs is not.

**`Startup`** has processes that load the user key, create it if they may, bind a port,
open and fill the contact file, end (removing it, whoever wrote it) or are killed
(leaving it), in a tree of directories. Files are opened without truncation, so a short
text over a long one is not readable (`Long`). A key or code is the name of the process
that drew it; two draws are assumed to differ.

**`TaskFiles`** follows one command: `handle_gnu` decides about here or there and about
the output arguments, an exec makes names unique and reads two streams until both are
done, the client writes into files it creates at the first block. What the command does
(lines, files, exit code) is chosen at the start, and `LocalFiles` is what it leaves
without SprayCC. A line is its text and its end, `"\n"`, `"\r\n"` or, at the end of the
stream, none. `next_line` strips the end and `run_task` pushes `"\n"` (`AsSent`), whatever
was there; a line without an end is not returned before the stream ends (`NextLine`).
The server in between is a queue, which `OutputComplete` justifies.
* **Definitions marked `mutant`** are the deliberately wrong variants used to check
  that each property can fail; the specification does not use them.

Faults are switched on per run by the constant `Faults`, so a run says under which
misfortunes its properties hold.

## 3. Runs

Deadlock checking is off except for the history file because these systems really stop:
after `shutdown`, when every started process has exited, when a command has ended.

| Run | Instance | Shows |
|---|---|---|
| `ExecDeaths` | 2 clients, 2 execs, both may die busy or idle | `OwnResultsOnly`, `HalfDuplex`, `AtMostOneRun`, `WorkConserving`, `StatusNoUnderflow`, `PairingHolds`, and the inductive invariant `Turns` |
| `ClientDeaths` | 2 clients that may die, output | `TypeOK`, `FinalIsLast`, `OutputComplete`, `SuccessRecorded` |
| `BusyExecDeaths` | execs die only while running a task; tasks may end by a signal | `RunningCountExact`, `PendingExact`, `ShutdownStrandsNoTask`, `ExecQueueWaits`, `EndsOnlyWhenIdle`, and the refinement `ImplementsService` |
| `Launches` | 3 clients, both start commands, lost jobs, wrong keys, a slow reader | `LaunchBound`, `PendingBound`, `PendingCovers` |
| `Liveness` | 2 tasks of different priority, an exec that may die with either | `TaskAnswered`, `EverythingStops` |
| `HistoryShared` | 2 servers, 2 targets, 4 ticks, entries kept for 2 | `EntrySurvives` |
| `Relay` | 2 clients, 1 exec, frames of 2 units, channels of 1 message, kills at any time | `FramesWhole`, `HangsOnlyInCircle` |
| `Startup` | 2 servers, `init`, 1 client, 1 exec of the second queue, 2 directories, 2 kills | `ContactFound`, `OwnServer`, `RefusedOnlyByRace`, `ServedInTheEnd` |
| `TaskFiles` | 22 command lines with up to 3 outputs whose base names collide, 3 file sizes, 4 outputs per stream with all three ends of a line, 3 exit codes | `FilesAsLocal`, `OutputAsLocal`, `ClientEnds` |

Two clients and two execs are enough for every pair of actors to interfere: a second
task waiting behind the first, an exec reused for another client, an exec lost while
the other one works, two names in `exec_queue`. `MaxOutputs` bounds the chunks of a
task, the set `Execs` the processes the cluster can start; both are constants of the
specification, and the proofs hold for all their values. Channels of one message are
full at once, which is what `Relay` is about; a frame of two units can be cut at its
prefix, and a socket of two units holds the end of one frame and the start of the next.
In `Startup` the second server may follow, precede or overlap the first in the same
directory, above it or below it, and take over its port. The base names of `TaskFiles`
include one that `generate_unique_file` would make (`x.1`). Symmetry is used in safety
runs only, where the permuted processes, targets or ports are interchangeable.

The passing runs state their properties under the faults for which they hold:
`RunningCountExact`, `ShutdownStrandsNoTask`, `ExecQueueWaits` and `EndsOnlyWhenIdle`
need that no exec dies while it waits, which is what `IdleExecDeath` shows. `PendingExact`
also needs that no job is lost or refused: the server is not told of one, and keeps
counting it; `PendingCovers`, that no job is forgotten, holds under every fault. Where a
property holds with one exception, the exception is part of it, by name: `raced` of
`History` and, for refusals, of `Startup`, `Circle` of `Relay`, `Unread` and
`SameLine` of `TaskFiles`.

### Disagreements

Three runs show where the code disagrees with what the repository says about it; each
is described in `PROJECT.json` under `findings`:

| Run | Disagreement |
|---|---|
| `IdleExecDeath` | an exec dies while it is in `exec_queue`, and its relay returns: assigning it a task, before the loop has read its `Dropped`, fails and ends the server. Reading `Dropped` first would not help, as `handle_dropped` leaves the exec in the queue |
| `LostExec` | an exec that dies as it is being sent a task is never reported, its client waits forever |
| `BlockedLoop` | a client killed while its channel and the inbound channel are full: the loop waits for the relay and the relay for the loop |

Others have no run of their own; the properties above name them as exceptions or leave
out the fault that leads to them (`README.md` is the repository's):

* `server.rs:226`: notifying an interrupted client of its lost exec ends the server with
  an error (`README.md:68`, "will terminate after being idle"). Add `KillClient` to the
  faults of `BusyExecDeaths`: `EndsOnlyWhenIdle` fails.
* `client.rs:172`: `TaskDone` without an exit code leaves the client waiting, though
  `ipc.rs:143` says it "should disconnect and exit". `ClientEnds` fails without its last
  disjunct.
* `server.rs:500`: a client accepted after the idle period is dropped in the same
  iteration with its task unread (`config.rs:46`, "no tasks are running or arriving").
  The invariant `pc = "shutdown" => connType[c] # "Pending"` fails in `Liveness`.
* `history.rs:114`: of two servers that shut down together one loses what it saved
  (`history.rs:99`, "avoids potential cases where the history is updated by two servers
  at the same time"). `EntrySurvives` fails without `raced`. A late server may also
  merge an older entry over a newer one (`history.rs:44`).
* `exec.rs:142`: an empty output file is not transferred, the user's old one stays
  (the comment at line 136 speaks of files that could not be opened). `FilesAsLocal`
  fails without its last disjunct.
* `exec.rs:93`: the output a user sees is not always that of a local run: `"\r\n"` becomes
  `"\n"`, and a last line without an end gets one. `OutputAsLocal` fails if `SameLine` asks
  for the command's own line ends.
* `server.rs:505`: the history is written after a regular end only. A server that ends with
  an error, as in `IdleExecDeath`, loses what it recorded; `SuccessRecorded` asks for the
  file only after `shutdown`.
* `exec.rs:96`: a command that writes a line that is not UTF-8 and then more than fits
  into the pipe never ends (line 115, "Child should have exited if stdout and stderr are
  closed"). `ClientEnds` fails without `Unread`.
* `config.rs:122`: the contact file is not truncated, so a shorter address over a longer
  one that a killed server left is unreadable; `ContactFound` has this exception.
* `server.rs:537`: an exec with the wrong key does not exit, as `README.md:135` says, but
  waits for as long as the server runs.
* `client.rs:275` tests for `-e` where the comment at line 268 says `-E`, so
  preprocessing runs locally; `README.md:61` says that `ar` runs locally, `client.rs:238`
  sends it away.

### Fairness

`FairSpec` assumes: `select!` polls its arms in random order and each arm is one
bounded piece of work, so an arm that is ready again and again is taken (strong
fairness for the messages of each connection, the watchdog, the passing of time);
tokio schedules relay tasks, and the operating system schedules processes (weak
fairness); a compile ends, and the cluster eventually starts a job it has accepted
(weak fairness of `SendDone` and `ExecConnect`). Nothing obliges a user to start a
client, a process to die, a write to fail or a compile to produce output. `TaskAnswered`
and `EverythingStops` allow for the bound on processes: they ask nothing while a task
still waits in the queue although every exec of the instance has come and gone.

`Relay` assumes that the loop, each relay and each remote goes on as long as it can
(weak fairness): they are tokio tasks and processes. A remote may still be arbitrarily
slow, and nobody has to die. `TaskFiles` assumes the same of client, exec and command.
`Startup` and `History` are checked for safety only.

## 4. Proofs

The theorems hold for every finite set of clients, every set of execs, every limit and,
unless said otherwise, every set of faults. Their assumptions are the named ones on the
constants: `FabricAssumption` (clients and execs are distinct processes, `None` is
neither), `ServerAssumption` (natural limits, finitely many clients), `ExecAssumption`,
`HistoryAssumption`, `StartupAssumption` (kinds of processes differ; the path of a
directory is that of its parent with the directory in front, which is what
`PathBuf::pop` yields), `RelayAssumption` and `TaskFilesAssumption` (see below).

| Theorem | States that always | Module |
|---|---|---|
| `TypeCorrect` | `TypeOK` | `SprayCCProof` |
| `TurnsCorrect` | `Turns` | `SprayCCProof` |
| `OwnResults`, `FramingSafe`, `OneRun` | `OwnResultsOnly`, `HalfDuplex`, `AtMostOneRun` | `SprayCCProof` |
| `PairingAsserts` | `PairingHolds`: no step of `check_queues` or of a result's handler fails an assert or expect about pairing | `SprayCCProof` |
| `NoIdleWait` | `WorkConserving` | `ExecsProof` |
| `PendingLimited`, `PendingCounted`, `LaunchesLimited` | `PendingBound`, `PendingCovers`, `LaunchBound` | `ExecsProof` |
| `StatusSafe` | `StatusNoUnderflow` | `ExecsProof` |
| `PendingCorrect` | `PendingExact`, under `NoJobLoss` | `ExecsProof` |
| `OneAnswer`, `WholeOutput`, `SuccessKept` | `FinalIsLast`, `OutputComplete`, `SuccessRecorded` | `AnswersProof` |
| `QueueOfWaiting`, `CountCorrect`, `NoTaskStranded` | `ExecQueueWaits`, `RunningCountExact`, `ShutdownStrandsNoTask`, under `NoIdleDeath` | `ExecsProof` |
| `OnlyIdleEnds` | `EndsOnlyWhenIdle`, under `NoIdleDeath` and `NoClientDeath` | `ExecsProof` |
| `Implements` | every step is one of `TaskService` or a stutter: `ImplementsService` | `ServiceProof` |
| `OneServerFound`, `AcceptedByOwn`, `RefusalByRace`, `ServerReached` | `ContactFound`, `OwnServer`, `RefusedOnlyByRace`, `ServedInTheEnd` | `StartupProof` |
| `SavedStays` | `EntrySurvives` | `HistoryProof` |
| `Framing` | `FramesWhole` | `RelayProof` |
| `FilesMatch`, `OutputMatches` | `FilesAsLocal`, `OutputAsLocal` | `TaskFilesProof` |

### Turns (`SprayCCProof`)

**Why an inductive invariant is needed.** That a result reaches the right client
depends on a pairing made much earlier, and nothing in the message says so; none of
the four properties is preserved by a step on its own. `Turns` says whose turn it is
on every connection:

* `ExecDown`: an exec has at most one unread message, its task (then it is paired with
  that task's client and runs nothing) or `PissOff` (then it is neither paired nor queued);
* `ExecUp`: an unread introduction comes first and from an exec that is neither paired
  nor queued; unread results are about the client it is paired with, while nothing is on
  the way down; a final result is followed by nothing and its sender runs nothing;
* `ExecPaired`: a running exec runs its client's task; a paired exec is the one its
  client is paired with, and is not queued; a connection not yet accepted is neither;
* `ClientTurn`: a queued task's client is not paired; what is on its way to a client is
  about its own task; its unread `Task` is its first message;
* `exec_queue` has no entry twice.

**The argument.** Most steps only shrink buffers (receiving, reading, dying), leave the
pairing alone and take nobody into a queue: `Shrinks`, `ExecFrame`, `ClientFrame` and
`ShrinkStep` settle them at once. The others append one message, and the turn of the
writer excludes everything the message could conflict with: `UpQuiet` (a queued exec,
or one with something to read, has said all), `UpRunning` (a running exec has written
only output), `QueuedExec`. `AssignFacts` and `ResultFacts` are the places where the
code asserts what the invariant guarantees.

### The counters (`ExecsProof`, first part)

`PendingBound` and `WorkConserving` are preserved by each handler taken as a whole, with
`TypeOK`; the others need to know what a counter counts.

* `LaunchBound` is about `pending + running <= max_count`, and an introduction adds to
  the running ones whether or not something was pending. `JobsCounted`
  (`PendingCovers`, and that the introductions are finitely many) says that something was:
  of each queue, the jobs in the cluster and the introductions not yet read are together
  at most `pending`.
* `StatusNoUnderflow`: every final message adds to `finish_count`. `TasksCounted` says
  that finished, queued and assigned tasks are together at most the submitted ones;
  that a final message comes from an exec with a task is part of `Turns`.
* `PendingExact` is `JobsCounted` with equality, under `NoJobLoss` (`LoseJob`, `BadKey` and
  `KillIdleExec` are not among the faults). Then only the loop takes an introduction away
  (`ServantStays`): who dies is running, and by `Turns` has nothing of the kind unread. As
  an exec introduces itself once (`Born`), every step that connects, handles an
  introduction or submits jobs changes both sides alike.
* `StartLoop` is a recursive function that goes upwards, which TLA+ defines only if some
  function satisfies its equation. The closed form `Started` does (`StartedUnfolds`), so
  the equation holds of the loop as well; and the count nearest to `keep` at which the two
  differ would have a nearer one above it (`LoopStops`), as below `keep` the loop goes on
  only to the next count. The bounds follow from the closed form.

### What a client is told (`AnswersProof`)

* `Ends` says what the end of a connection means: who has hung up is gone, `Dropped` is
  the last message of its connection (or the first, of a remote with a wrong code), and
  a client with a task in the system is connected or gone.
* `LastWord`: when a client is or is being answered, the exec paired with it has hung up
  or has nothing unread. So neither the exec's own final message nor `handle_dropped`
  can follow, which is `FinalIsLast`.
* `Recorded`: a success that is on its way to a client or has arrived is in
  `inTheMaking`, and in the file after `shutdown`.
* `Streams`: the chunks a client has, those in its buffer and those its exec has written
  are numbered on from each other; together they are what was sent.

### Execs that do not die waiting (`ExecsProof`, second part)

An exec that dies while it waits stays in `exec_queue` (`IdleExecDeath`), so the
properties of this module cannot hold for every fault. The hypothesis `NoIdleDeath` is
that `KillIdleExec` is not among the faults; busy execs still die, jobs get lost,
connections break. `OnlyIdleEnds` also assumes `NoClientDeath`: telling a killed client
of its lost exec ends the server (section 3).

* `Waits`: an exec that is queued, or whose introduction or final message is unread,
  waits; a queued one and one with a task are connected as execs.
* `CountExact`: `runningCount` is the number of connections of type `Exec`. An
  introduction comes from an exec not yet counted and a loss from a counted one, by `Waits`.
* `Tended`: a connected client has its answer, or one on the way, or its task is queued
  or held by a connected exec. With `CountExact`, a server that finds no task queued and
  no exec running has answered all.

### The refinement (`ServiceProof`)

`Simulates` reduces a step of the mapped specification to clients: a step may move the
task of one client along `TaskService` and leaves those of the others. `Same` and
`Bystander` settle the clients a step has nothing to do with, and one lemma for each
process the others (`SimServer`, `SimClient`, `SimExec`, `SimRelay`). The mapping looks
at the messages under way, so the proof needs that they are the client's own (`Turns`),
that there is one final message (`FinalIsLast`, `LastWord`), that a client leaves
with its status (`Leaving`), and that an exec holds nothing of a client it is not paired
with (`Strangers`). A task without exec or final message counts as failed; `SimLoss`
shows that one is never found to have ended otherwise later.

### Finding a server (`StartupProof`)

`StartupInv` has, besides types:

* `Keys`: as long as nobody loaded the user key while it was being made, at most one
  process makes it, before any server or exec has one, and afterwards all have the key
  of the file, except clients that found none;
* `ContactBy`, `ContactLong`, `Alone`: a contact file is by a server of its directory;
  it is overlong because of one that still serves there or was killed; two servers that
  run in one directory have both met another;
* `Called`: a client has the address of a server above it;
* `Reach`: what keeps a server within a client's reach: its file is readable and none is
  below it, no other server runs above the client, and they have the same key. That the
  search then finds this file (`FindsNearest`) needs that no directory is above itself
  (`PathInjective`); that the connection gets to it needs `PortsDiffer`.

`ServedInTheEnd` makes no exception for races for the user key, and `Reach` shows why:
the key of the server is compared with that of the file when the client loads it, and
neither process loads it again.

### The history file (`HistoryProof`)

`EntrySurvives` depends on what a server between load and rename has in memory.
`HistoryInv` says: unless two were there at once, one at most is, and it holds what
merging the file with its own build would give now, but for entries too old.

### Frames (`RelayProof`)

`write_message` of a relay wins its `select!` while `read_message` has consumed a length
and waits for the body: the length is lost, and the next read takes the body for one.
`FramesWhole` says that this does not happen to an exec, and `RelayInv` why:

* `Stream`: what is in the socket, in the read buffer and still to be written of an exec,
  after the part of a frame already consumed, is frames number `decoded + 1` to `wrote`,
  one after the other: unit `i` is unit `at` of frame `seq` with `i` and `seq` related by
  the length of a frame (`Framed`). `FramedRead` shows that a length and its body come
  off the front together, `FramedWrite` that a new frame goes to the end;
* `OneTask`: a task for an exec is at one place at a time, in the loop, the channel, the
  relay or the socket, and while it is there the exec has been heard out (`Idle`): it runs
  nothing, all it wrote is decoded and handled. With `Stream` nothing is then half read,
  so cancelling the read loses nothing;
* `Order` and `Lasts`: results wait in the order of their numbers, and a `TaskDone` is
  the last an exec has said. So the `TaskDone` that makes the loop send the next task
  finds the exec heard out (`DoneIsLast`);
* `AtEnd`, `Quiet`: at the end of the stream at most the frame of a killed exec is
  unfinished; clients say nothing after their task, which the loop has.

`RelayAssumption` asks for channels, sockets, prefix and body of at least one unit and
that execs start with different clients.

### Files and output (`TaskFilesProof`)

`TaskInv` follows lines and blocks from the command to the client:

* `PipeOK`: what the exec has read of a stream, the pipe and what the command has still
  to write are the planned lines, in this order; a stream that is done has been read to
  its end, or up to and with a line that is not UTF-8;
* `SeenOK`, `FileOK`: the lines (blocks) in `msgs` are numbered on from those the client
  has to those the exec has passed on (`Lined`, `Filed`), and each line is what `AsSent`
  makes of the planned line of its number; a file is opened by its first
  block and consists of blocks 1, 2, ... of that file;
* `MsgOK`, `Phases`: `TaskDone` is the last message and is sent when both streams are done
  and every file has been sent. Then nothing is between the two numbers (`AllRead`);
* `Apart`, `Produced`: the names in the temporary directory differ, so that each file
  there has the content of its own output.

`Apart` is what `generate_unique_file` is for. Of the base name and its numbered forms,
one more than there are names taken, one is free (`UniqueNameFree`, by the pigeonhole
principle), and each name of `redirect_outputs` differs from those before it
(`RedirectApart`). A file goes back to its own user file because the output arguments
have the ranks 1, 2, ... (`OutputArgFacts`). `TaskFilesAssumption` says that a command
line is not empty and names every output once, and that of the lines a command writes
only the last may lack its end (`IsOutput`). A command line that names one file twice is left
out, here and in the run: the client would write to it through two open files.

The inductive invariants were checked by TLC on small instances before they were proved.

**Only model-checked.** Liveness under fairness (`TaskAnswered`, `EverythingStops`,
`HangsOnlyInCircle`, `ClientEnds`), which is out of the prover's reach, and the three
counterexamples of section 3. Every safety property that a passing run checks is proved.
What a recursive function computes is proved with a least counterexample (`LeastOf`) in
place of induction over data, which the prover cannot instantiate.

## 5. Not modelled

* `load_config_file` and the options of `main.rs`: they choose the values of constants.
* `get_target_id`: a target is named by the client whose task makes it. Two clients with
  the same target share an entry of the history, which only affects priorities.
* A start command that cannot be spawned: the loop of `start_execs_in_queue` retries at
  once and without end, as its condition does not change.
* `setup_process_file_limit` (a system call), `get_network_addr` (a choice of address),
  metrics, status lines and verbose output, `fakecc` (a test helper).
* The environment of a command, except for what it writes.
* A home or source directory on a network file system whose view is stale on another
  host (`README.md:132`): every process sees a file as soon as it is written.

## 6. Plan

Done: all modules of section 2, and the theorems of section 4. Left is what needs another
tool or another model: the liveness properties for every value of the constants, and the
spawn that fails (section 5).
