----------------------------- MODULE TaskFiles ------------------------------
(***************************************************************************)
(* One command from `spraycc run` to its exit code: what the client makes  *)
(* of the command line, how an exec redirects the output files and reads   *)
(* the output of the command, and what the client writes; compared with    *)
(* running the command without SprayCC.                                    *)
(*                                                                         *)
(* The server between client and exec is a queue that keeps the order      *)
(* (OutputComplete of SprayCC).  The command is external: it parses -o and *)
(* -MF itself and behaves as the plan of this run says.                    *)
(***************************************************************************)
EXTENDS Integers, Sequences, FiniteSets

CONSTANTS
    CommandLines,   \* sequences of words, the command first
    Lines,          \* what a command may write to stdout or to stderr
    Sizes,          \* blocks of 64 kB a command may write to a file
    ExitCodes,      \* of a command
    PipeCap         \* lines that fit into a pipe and its reader's buffer

NotWritten == -1    \* a size
Signal == -1        \* an exit code: status.code() is None
Streams == {"Stdout", "Stderr"}

(* What a command writes to a stream is a sequence of lines, each with a   *)
(* text and the line end "\n", "\r\n" or, at the end of the stream, none.  *)
NotUtf8 == "not UTF-8"          \* as a text
Line(text, end) == [text |-> text, end |-> end]
LineSet == [text : STRING, end : {"lf", "crlf", "none"}]

IsOutput(lines) ==
    /\ lines \in Seq(LineSet)
    /\ \A i \in 1 .. Len(lines) : lines[i].end = "none" => i = Len(lines) /\ lines[i].text # ""

(* Words: a command, an option, or a file name with its directory.  The    *)
(* base name is a sequence, to which generate_unique_file appends numbers. *)
Word(text) == [text |-> text, dir |-> "", base |-> <<>>]
FileName(dir, base) == [text |-> "file", dir |-> dir, base |-> base]

(* interpret_command_line and handle_gnu, which find the outputs.          *)
Gnu(line) == line[1].text \in {"gcc", "g++", "clang"}

Outputs(line) ==
    {i + 1 : i \in {j \in 2 .. Len(line) - 1 : Gnu(line) /\ line[j].text \in {"-o", "-MF"}}}

(* A command line is not empty and names every output once.                *)
IsCommandLine(line) ==
    /\ Len(line) \in Nat \ {0}
    /\ \A i \in Outputs(line) : LET base == line[i].base
                                IN  /\ Len(base) \in Nat
                                    /\ base = [j \in 1 .. Len(base) |-> base[j]]
    /\ \A i, j \in Outputs(line) : line[i] = line[j] => i = j

ASSUME TaskFilesAssumption ==
    /\ \A line \in CommandLines : IsCommandLine(line)
    /\ \A lines \in Lines : IsOutput(lines)
    /\ Sizes \subseteq Nat \cup {NotWritten}
    /\ ExitCodes \subseteq 0 .. 255 \cup {Signal}
    /\ PipeCap \in Nat \ {0}

VARIABLES
    args,       \* the command line
    plan,       \* what the command does: lines, file sizes, exit code, where it exists
    fs,         \* the files of the user, by name
    client,     \* "start", "local", "remote" or "ended"
    opened,     \* LazyFiles that are open, by index
    seen,       \* what has been written to the client's stdout and stderr
    exit,       \* exit code of the client
    exec,       \* "idle", "streams", "files" or "done"
    names,      \* files of the temporary directory that take the outputs
    tmp,        \* what is in that directory
    next,       \* the next file and block to send
    child,      \* "none", "running" or "exited"
    todo,       \* lines the child has still to write
    pipe,       \* lines not yet read
    done,       \* stdout_done, stderr_done
    msgs        \* from the exec to the client

clientVars == <<client, opened, seen, exit>>
execVars == <<exec, names, next, done>>
childVars == <<child, todo>>
vars == <<args, plan, fs, clientVars, execVars, tmp, childVars, pipe, msgs>>

-----------------------------------------------------------------------------
(* handle_gnu: the outputs, and whether to run the command here.           *)

OutputArgs == Outputs(args)

Remoted == {"-c", "-s", "-e", "-MD", "-M", "-MM"}
KeepLocal == Gnu(args) /\ \A j \in 2 .. Len(args) : args[j].text \notin Remoted

(* The k-th of the output_args.                                            *)
OutputArg(k) == CHOOSE i \in OutputArgs : Cardinality({j \in OutputArgs : j <= i}) = k
OutputCount == Cardinality(OutputArgs)

-----------------------------------------------------------------------------
(* The command.  It writes the k-th of its output files as planned.        *)

Content(k) == [b \in 1 .. plan.size[k] |-> <<k, b>>]
Old == << <<0, 0>> >>
Writes(k) == plan.size[k] # NotWritten

(* The files of a directory after the command has written, later outputs   *)
(* over earlier ones of the same name.                                     *)
After(dir, named(_)) ==
    LET last(n) == {k \in 1 .. OutputCount : /\ named(k) = n /\ Writes(k)
                                             /\ \A l \in k + 1 .. OutputCount : ~(named(l) = n /\ Writes(l))}
    IN  [n \in DOMAIN dir \cup {named(k) : k \in {l \in 1 .. OutputCount : Writes(l)}} |->
            IF last(n) = {} THEN dir[n] ELSE Content(CHOOSE k \in last(n) : TRUE)]

(* What the user finds without SprayCC.                                    *)
UserFile(k) == args[OutputArg(k)]
UserFiles == {UserFile(k) : k \in 1 .. OutputCount}
LocalFiles == After([n \in UserFiles |-> Old], UserFile)

ChildWrites(s) ==
    /\ child = "running"
    /\ todo[s] # <<>>
    /\ Len(pipe[s]) < PipeCap
    /\ pipe' = [pipe EXCEPT ![s] = Append(@, Head(todo[s]))]
    /\ todo' = [todo EXCEPT ![s] = Tail(@)]
    /\ UNCHANGED <<args, plan, fs, clientVars, execVars, tmp, child, msgs>>

ChildExits ==
    /\ child = "running"
    /\ \A s \in Streams : todo[s] = <<>>
    /\ child' = "exited"
    /\ tmp' = After(tmp, LAMBDA k : names[k])
    /\ UNCHANGED <<args, plan, fs, clientVars, execVars, todo, pipe, msgs>>

-----------------------------------------------------------------------------
(* The exec.                                                               *)

(* generate_unique_file: the base name, or the first base.i not yet taken. *)
BaseName(base, taken) == base           \* mutant
UniqueName(base, taken) ==
    LET free == {i \in 1 .. Cardinality(taken) + 1 : Append(base, i) \notin taken}
    IN  IF base \notin taken THEN base
        ELSE Append(base, CHOOSE i \in free : \A j \in free : i <= j)

(* redirect_outputs: the names of the first k outputs, each unlike those   *)
(* before it.                                                              *)
Redirect ==
    LET upTo[k \in 0 .. OutputCount] ==
            IF k = 0 THEN <<>>
            ELSE Append(upTo[k - 1],
                        UniqueName(UserFile(k).base, {upTo[k - 1][j] : j \in 1 .. k - 1}))
    IN  upTo[OutputCount]

(* handle_new_task: Task::start fails if directory or command do not exist *)
(* on this host.                                                           *)
ExecStarts ==
    /\ client = "remote" /\ exec = "idle"
    /\ \/ /\ plan.exists
          /\ exec' = "streams"
          /\ names' = Redirect
          /\ child' = "running"
          /\ UNCHANGED msgs
       \/ /\ ~plan.exists
          /\ exec' = "done"
          /\ msgs' = Append(msgs, [type |-> "TaskFailed"])
          /\ UNCHANGED <<names, child>>
    /\ UNCHANGED <<args, plan, fs, clientVars, next, done, tmp, todo, pipe>>

EitherDone == \E s \in Streams : done[s]            \* mutant: && for ||
BothDone == \A s \in Streams : done[s]

(* next_line() returns at the end of a line or at that of the stream ...   *)
NextLine(s) == pipe[s] # <<>> /\ (Head(pipe[s]).end # "none" \/ child = "exited")

(* ... without "\n" or "\r\n", and run_task pushes "\n" in any case.       *)
NotEnded(line) == Line(line.text, "none")       \* mutant
AsSent(line) == Line(line.text, "lf")

(* run_task's select!: next_line() of a stream that is not done.  A line   *)
(* that is not UTF-8 is an error, which ends the stream like its end does. *)
ReadLine(s) ==
    /\ exec = "streams" /\ ~BothDone /\ ~done[s]
    /\ \/ /\ NextLine(s) /\ Head(pipe[s]).text # NotUtf8
          /\ msgs' = Append(msgs, [type |-> "TaskOutput", output |-> s,
                                   content |-> AsSent(Head(pipe[s]))])
          /\ pipe' = [pipe EXCEPT ![s] = Tail(@)]
          /\ UNCHANGED done
       \/ /\ NextLine(s) /\ Head(pipe[s]).text = NotUtf8
          /\ done' = [done EXCEPT ![s] = TRUE]
          /\ pipe' = [pipe EXCEPT ![s] = Tail(@)]
          /\ UNCHANGED msgs
       \/ /\ pipe[s] = <<>> /\ child = "exited"
          /\ done' = [done EXCEPT ![s] = TRUE]
          /\ UNCHANGED <<msgs, pipe>>
    /\ UNCHANGED <<args, plan, fs, clientVars, exec, names, next, tmp, childVars>>

(* child.wait().                                                           *)
ExecWaits ==
    /\ exec = "streams" /\ BothDone
    /\ child = "exited"
    /\ exec' = "files"
    /\ UNCHANGED <<args, plan, fs, clientVars, names, next, done, tmp, childVars, pipe, msgs>>

(* send_output_file: the next block of the next file that has one; a file  *)
(* that does not exist is passed over.                                     *)
SendBlock ==
    LET k == next[1]
        b == next[2]
        file == IF names[k] \in DOMAIN tmp THEN tmp[names[k]] ELSE <<>>
    IN  /\ exec = "files" /\ k <= OutputCount
        /\ \/ /\ b <= Len(file)
              /\ msgs' = Append(msgs, [type |-> "TaskOutput", output |-> "File", idx |-> k, content |-> file[b]])
              /\ next' = <<k, b + 1>>
           \/ /\ b > Len(file)
              /\ next' = <<k + 1, 1>>
              /\ UNCHANGED msgs
        /\ UNCHANGED <<args, plan, fs, clientVars, exec, names, done, tmp, childVars, pipe>>

SendDone ==
    /\ exec = "files" /\ next[1] > OutputCount
    /\ exec' = "done"
    /\ msgs' = Append(msgs, [type |-> "TaskDone", code |-> plan.code])
    /\ UNCHANGED <<args, plan, fs, clientVars, names, next, done, tmp, childVars, pipe>>

-----------------------------------------------------------------------------
(* The client.                                                             *)

Panic == 101        \* exit code of a process that panics

(* main(): the exit code for the status client::run returns.               *)
ExitCode(status) == IF status < 0 THEN 255 ELSE status

(* run() up to the choice between here and there.  A command that is not   *)
(* found on this host never gets that far.                                 *)
ClientStarts ==
    /\ client = "start"
    /\ client' = IF KeepLocal THEN "local" ELSE "remote"
    /\ UNCHANGED <<args, plan, fs, opened, seen, exit, execVars, tmp, childVars, pipe, msgs>>

(* run_local_task: the command uses the client's own streams and files.    *)
RunLocal ==
    /\ client = "local"
    /\ client' = "ended"
    /\ fs' = LocalFiles
    /\ seen' = plan.lines
    /\ exit' = IF plan.code = Signal THEN Panic ELSE ExitCode(plan.code)
    /\ UNCHANGED <<args, plan, opened, execVars, tmp, childVars, pipe, msgs>>

(* The first write to a LazyFile creates the file or truncates it.         *)
WriteTo(old, isOpen, block) == Append(IF isOpen THEN old ELSE <<>>, block)

(* handle_msg and write_output.                                            *)
ClientReads ==
    /\ client = "remote" /\ msgs # <<>>
    /\ msgs' = Tail(msgs)
    /\ LET m == Head(msgs)
       IN  \/ /\ m.type = "TaskOutput" /\ m.output # "File"
              /\ seen' = [seen EXCEPT ![m.output] = Append(@, m.content)]
              /\ UNCHANGED <<client, fs, opened, exit>>
           \/ /\ m.type = "TaskOutput" /\ m.output = "File"
              /\ fs' = [fs EXCEPT ![UserFile(m.idx)] = WriteTo(@, m.idx \in opened, m.content)]
              /\ opened' = opened \cup {m.idx}
              /\ UNCHANGED <<client, seen, exit>>
           \/ /\ m.type = "TaskDone" /\ m.code # Signal
              /\ client' = "ended" /\ exit' = ExitCode(m.code)
              /\ UNCHANGED <<fs, opened, seen>>
           \/ /\ m.type = "TaskDone" /\ m.code = Signal     \* status stays None
              /\ UNCHANGED <<client, fs, opened, seen, exit>>
           \/ /\ m.type = "TaskFailed"
              /\ client' = "ended" /\ exit' = ExitCode(-1)
              /\ UNCHANGED <<fs, opened, seen>>
    /\ UNCHANGED <<args, plan, execVars, tmp, childVars, pipe>>

-----------------------------------------------------------------------------
Init ==
    /\ args \in CommandLines
    /\ plan \in [lines : [Streams -> Lines], size : [1 .. OutputCount -> Sizes], code : ExitCodes,
                 exists : BOOLEAN]
    /\ fs = [n \in UserFiles |-> Old]
    /\ client = "start" /\ opened = {} /\ exit = 0
    /\ seen = [s \in Streams |-> <<>>]
    /\ exec = "idle" /\ names = <<>> /\ next = <<1, 1>>
    /\ tmp = [n \in {} |-> <<>>]
    /\ child = "none" /\ todo = plan.lines
    /\ pipe = [s \in Streams |-> <<>>]
    /\ done = [s \in Streams |-> FALSE]
    /\ msgs = <<>>

Next ==
    \/ ClientStarts \/ RunLocal \/ ClientReads
    \/ ExecStarts \/ ExecWaits \/ SendBlock \/ SendDone
    \/ \E s \in Streams : ReadLine(s) \/ ChildWrites(s)
    \/ ChildExits

(* Three processes, each of which goes on as long as it can.               *)
Fairness ==
    /\ WF_vars(ClientStarts \/ RunLocal \/ ClientReads)
    /\ WF_vars(ExecStarts \/ ExecWaits \/ SendBlock \/ SendDone \/ \E s \in Streams : ReadLine(s))
    /\ WF_vars(ChildExits \/ \E s \in Streams : ChildWrites(s))

Spec == Init /\ [][Next]_vars /\ Fairness

-----------------------------------------------------------------------------
(* When the client ends after a command that ran, here or there, it has    *)
(* the exit code of the command and every output file is as the command    *)
(* alone would have left it, except for files it made empty: they cause no *)
(* TaskOutput message, and what was there before stays.                    *)
FilesAsLocal ==
    client = "ended" /\ (plan.exists \/ KeepLocal) /\ plan.code # Signal =>
        /\ exit = plan.code
        /\ \A n \in UserFiles : fs[n] = LocalFiles[n] \/ (LocalFiles[n] = <<>> /\ fs[n] = Old)

(* The client has printed all the command wrote to stdout and stderr, each *)
(* in order, up to a line that is not UTF-8: the same lines, which end as  *)
(* the command ended them, or, when they come from an exec, in "\n" (so    *)
(* that "\r\n" is lost and an unfinished last line is finished).           *)
Broken(s) == {i \in 1 .. Len(plan.lines[s]) : plan.lines[s][i].text = NotUtf8}
SameLine(shown, line) ==
    /\ shown.text = line.text
    /\ shown.end = line.end \/ (~KeepLocal /\ shown.end = "lf")
OutputAsLocal ==
    client = "ended" /\ (plan.exists \/ KeepLocal) =>
        \A s \in Streams :
            /\ \/ Len(seen[s]) = Len(plan.lines[s])
               \/ ~KeepLocal /\ \E i \in Broken(s) : /\ Len(seen[s]) = i - 1
                                                    /\ \A j \in Broken(s) : i <= j
            /\ \A i \in 1 .. Len(seen[s]) : SameLine(seen[s][i], plan.lines[s][i])

(* The command waits for a reader that has stopped at a broken line.       *)
Unread == \E s \in Streams : done[s] /\ todo[s] # <<>> /\ Len(pipe[s]) = PipeCap

(* The client ends, unless the command is stuck in that way or ended by a  *)
(* signal, which leaves the client without a status.                       *)
ClientEnds ==
    <>(client = "ended" \/ Unread \/ (client = "remote" /\ exec = "done" /\ plan.code = Signal))
=============================================================================
