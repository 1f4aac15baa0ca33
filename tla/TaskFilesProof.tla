--------------------------- MODULE TaskFilesProof ---------------------------
(***************************************************************************)
(* The files and the output of a command that ran remotely are those of    *)
(* the command alone (FilesAsLocal and OutputAsLocal of TaskFiles), for    *)
(* any set of command lines, any number and size of output files, any      *)
(* output and any capacity of the pipes.                                   *)
(***************************************************************************)
EXTENDS TaskFiles, FiniteSetTheorems, FunctionTheorems, SequenceTheorems, WellFoundedInduction, TLAPS

-----------------------------------------------------------------------------
(* The inductive invariant.                                                *)

Files == 1 .. OutputCount
Blocks == Nat \X Nat

StreamMsgs == [type : {"TaskOutput"}, output : Streams, content : LineSet]
FileMsgs == [type : {"TaskOutput"}, output : {"File"}, idx : Nat, content : Blocks]
Msgs == StreamMsgs \cup FileMsgs \cup [type : {"TaskDone"}, code : ExitCodes] \cup [type : {"TaskFailed"}]

PlanOK ==
    plan \in [lines : [Streams -> Lines], size : [Files -> Sizes], code : ExitCodes, exists : BOOLEAN]

TypeOK ==
    /\ args \in CommandLines
    /\ PlanOK
    /\ client \in {"start", "local", "remote", "ended"}
    /\ opened \subseteq Files
    /\ seen \in [Streams -> Seq(LineSet)]
    /\ exec \in {"idle", "streams", "files", "done"}
    /\ next \in Nat \X Nat
    /\ child \in {"none", "running", "exited"}
    /\ todo \in [Streams -> Seq(LineSet)]
    /\ pipe \in [Streams -> Seq(LineSet)]
    /\ done \in [Streams -> BOOLEAN]
    /\ msgs \in Seq(Msgs)

(* The positions of the messages of a stream and of a file.                *)
OfStream(q, s) == {i \in 1 .. Len(q) : q[i].type = "TaskOutput" /\ q[i].output = s}
OfFile(q, k) == {i \in 1 .. Len(q) : q[i].type = "TaskOutput" /\ q[i].output = "File" /\ q[i].idx = k}

(* The positions P carry the numbers from lo + 1 to hi, in this order.     *)
Numbered(at, P, lo, hi) ==
    /\ lo <= hi
    /\ \A i \in P : lo < at[i] /\ at[i] <= hi
    /\ \A i, j \in P : i < j => at[i] < at[j]
    /\ \A n \in Nat : lo < n /\ n <= hi => \E i \in P : at[i] = n

(* q has lines number lo + 1 to hi of a stream, as run_task sends them, or *)
(* blocks number lo + 1 to hi of a file.                                   *)
Lined(q, s, lines, lo, hi) ==
    \E at \in [1 .. Len(q) -> Nat] : /\ Numbered(at, OfStream(q, s), lo, hi)
                                    /\ \A i \in OfStream(q, s) : q[i].content = AsSent(lines[at[i]])
Filed(q, k, lo, hi) == Numbered([i \in 1 .. Len(q) |-> q[i].content[2]], OfFile(q, k), lo, hi)

(* The temporary directory: every output has a name of its own, and after  *)
(* the command every file it wrote is there.                               *)
Apart == \A k, l \in Files : names[k] = names[l] => k = l
Produced ==
    \A k \in Files : /\ names[k] \in DOMAIN tmp <=> Writes(k)
                     /\ Writes(k) => tmp[names[k]] = Content(k)

AllWritten == \A s \in Streams : todo[s] = <<>>

Phases ==
    /\ client = "remote" => ~KeepLocal
    /\ exec = "idle" => child = "none"
    /\ exec \in {"idle", "streams"} => next = <<1, 1>>
    /\ exec \in {"streams", "files"} => plan.exists /\ child # "none"
    /\ exec = "files" => BothDone /\ child = "exited"
    /\ exec = "done" /\ plan.exists => BothDone /\ child = "exited" /\ next[1] = OutputCount + 1
    /\ child \in {"none", "running"} => DOMAIN tmp = {}
    /\ child # "none" => Apart
    /\ child = "exited" => Produced /\ AllWritten

(* What is in msgs.                                                        *)
MsgOK(i) ==
    /\ msgs[i].type \in {"TaskDone", "TaskFailed"} => i = Len(msgs) /\ exec = "done"
    /\ msgs[i].type = "TaskDone" => plan.exists /\ msgs[i].code = plan.code
    /\ msgs[i].type = "TaskFailed" => ~plan.exists
    /\ msgs[i].type = "TaskOutput" /\ msgs[i].output = "File" =>
          msgs[i].idx \in Files /\ msgs[i].content[1] = msgs[i].idx

(* The lines of a stream: read by the exec, in the pipe, and to come.      *)
Utf8(line) == line.text # NotUtf8
Read(s) == Len(plan.lines[s]) - Len(pipe[s]) - Len(todo[s])
Passed(s) == IF Read(s) > 0 /\ ~Utf8(plan.lines[s][Read(s)]) THEN Read(s) - 1 ELSE Read(s)

PipeOK(s) ==
    /\ Read(s) \in Nat
    /\ \A i \in 1 .. Len(pipe[s]) : pipe[s][i] = plan.lines[s][Read(s) + i]
    /\ \A i \in 1 .. Len(todo[s]) : todo[s][i] = plan.lines[s][Read(s) + Len(pipe[s]) + i]
    /\ \A i \in 1 .. Passed(s) : Utf8(plan.lines[s][i])
    /\ ~done[s] => Passed(s) = Read(s)
    /\ done[s] => Passed(s) < Read(s) \/ Read(s) = Len(plan.lines[s])

SeenOK(s) ==
    /\ \A i \in 1 .. Len(seen[s]) : seen[s][i] = AsSent(plan.lines[s][i])
    /\ Lined(msgs, s, plan.lines[s], Len(seen[s]), Passed(s))

(* The blocks of a file: sent by the exec, and written by the client.      *)
Size(k) == IF Writes(k) THEN plan.size[k] ELSE 0
Sent(k) == IF k < next[1] THEN Size(k) ELSE IF k = next[1] THEN next[2] - 1 ELSE 0
Got(k) == IF k \in opened THEN Len(fs[UserFile(k)]) ELSE 0

NextOK ==
    /\ next[1] \in 1 .. OutputCount + 1 /\ next[2] \in Nat \ {0}
    /\ next[1] \in Files => next[2] <= Size(next[1]) + 1

FileOK(k) ==
    /\ fs[UserFile(k)] \in Seq(Blocks)
    /\ k \notin opened => fs[UserFile(k)] = Old
    /\ k \in opened => Len(fs[UserFile(k)]) > 0
    /\ k \in opened => \A b \in 1 .. Len(fs[UserFile(k)]) : fs[UserFile(k)][b] = <<k, b>>
    /\ Filed(msgs, k, Got(k), Sent(k))

ClientOK ==
    /\ fs \in [UserFiles -> Seq(Blocks)]
    /\ \A s \in Streams : SeenOK(s)
    /\ \A k \in Files : FileOK(k)

TaskInv ==
    /\ TypeOK
    /\ Phases
    /\ NextOK
    /\ \A i \in 1 .. Len(msgs) : MsgOK(i)
    /\ \A s \in Streams : PipeOK(s)
    /\ client # "ended" => ClientOK
    /\ FilesAsLocal
    /\ OutputAsLocal


-----------------------------------------------------------------------------
(* The outputs of a command line.                                          *)

LEMMA LineFacts ==
    ASSUME args \in CommandLines
    PROVE  /\ OutputArgs \subseteq Nat /\ IsFiniteSet(OutputArgs) /\ OutputCount \in Nat
           /\ \A i, j \in OutputArgs : args[i] = args[j] => i = j
<1>1. IsCommandLine(args)
    BY TaskFilesAssumption
<1>2. PICK n \in Nat : n = Len(args)
    BY <1>1 DEF IsCommandLine
<1>3. OutputArgs \subseteq 0 .. n
    BY <1>2 DEF OutputArgs, Outputs
<1>4. IsFiniteSet(0 .. n)
    BY FS_Interval
<1>5. IsFiniteSet(OutputArgs)
    BY <1>3, <1>4, FS_Subset
<1>6. OutputCount \in Nat
    BY <1>5, FS_CardinalityType DEF OutputCount
<1>7. \A i, j \in OutputArgs : args[i] = args[j] => i = j
    BY <1>1 DEF IsCommandLine, OutputArgs
<1> QED
    BY <1>3, <1>5, <1>6, <1>7

Rank(i) == Cardinality({j \in OutputArgs : j <= i})

LEMMA RankFacts ==
    ASSUME args \in CommandLines, NEW i \in OutputArgs
    PROVE  /\ Rank(i) \in Files
           /\ \A j \in OutputArgs : Rank(j) = Rank(i) => j = i
<1>0. OutputArgs \subseteq Nat /\ IsFiniteSet(OutputArgs)
    BY LineFacts
<1> DEFINE Upto(k) == {j \in OutputArgs : j <= k}
<1>1. \A k \in OutputArgs : Upto(k) \in SUBSET OutputArgs
    OBVIOUS
<1>2. ASSUME NEW k \in OutputArgs
      PROVE  /\ IsFiniteSet(Upto(k)) /\ Rank(k) \in Nat /\ Rank(k) <= OutputCount /\ Rank(k) = Cardinality(Upto(k))
  <2>1. IsFiniteSet(Upto(k)) /\ Cardinality(Upto(k)) <= Cardinality(OutputArgs)
      BY <1>0, <1>1, FS_Subset
  <2>2. Cardinality(Upto(k)) \in Nat
      BY <2>1, FS_CardinalityType
  <2> QED
      BY <2>1, <2>2 DEF Rank, OutputCount
<1>3. Rank(i) # 0
  <2>1. i \in Upto(i)
      BY <1>0
  <2>2. Upto(i) # {}
      BY <2>1
  <2>3. Cardinality(Upto(i)) # 0
      BY <1>2, <2>2, FS_EmptySet
  <2> QED
      BY <1>2, <2>3
<1>4. ASSUME NEW j \in OutputArgs, NEW k \in OutputArgs, j < k PROVE Rank(j) # Rank(k)
  <2>0. j \in Nat /\ k \in Nat
      BY <1>0
  <2>1. Upto(j) \in SUBSET Upto(k) /\ k \in Upto(k) /\ k \notin Upto(j)
    <3>1. \A m \in Upto(j) : m \in Upto(k)
        BY <1>0, <1>4, <2>0
    <3>2. k \in Upto(k) /\ k \notin Upto(j)
        BY <1>4, <2>0
    <3> QED
        BY <3>1, <3>2
  <2>2. Upto(j) # Upto(k)
      BY <2>1
  <2>3. Cardinality(Upto(k)) # Cardinality(Upto(j))
      BY <1>2, <2>1, <2>2, FS_Subset
  <2> QED
      BY <1>2, <2>3
<1>5. ASSUME NEW j \in OutputArgs, Rank(j) = Rank(i) PROVE j = i
  <2>1. j \in Nat /\ i \in Nat
      BY <1>0
  <2>2. j < i => Rank(j) # Rank(i)
      BY <1>4, Zenon
  <2>3. i < j => Rank(i) # Rank(j)
      BY <1>4, Zenon
  <2> QED
      BY <1>5, <2>1, <2>2, <2>3
<1>6. Rank(i) \in Files
  <2>1. Rank(i) \in Nat /\ Rank(i) <= OutputCount
      BY <1>2
  <2>2. OutputCount \in Nat
      BY LineFacts
  <2> QED
      BY <1>3, <2>1, <2>2 DEF Files
<1> QED
    BY <1>5, <1>6

LEMMA OutputArgFacts ==
    ASSUME args \in CommandLines, NEW k \in Files
    PROVE  OutputArg(k) \in OutputArgs /\ Rank(OutputArg(k)) = k
<1>0. IsFiniteSet(OutputArgs) /\ OutputCount \in Nat
    BY LineFacts
<1>1. PICK f : f = [i \in OutputArgs |-> Rank(i)]
    OBVIOUS
<1>2. f \in [OutputArgs -> Files] /\ \A i, j \in OutputArgs : f[i] = f[j] => i = j
    BY <1>1, RankFacts
<1>3. f \in Injection(OutputArgs, Files)
    BY <1>2, Fun_IsInj
<1>4. IsFiniteSet(Files) /\ Cardinality(Files) = OutputCount
    BY <1>0, FS_Interval DEF Files
<1>5. Cardinality(OutputArgs) = Cardinality(Files)
    BY <1>4 DEF OutputCount
<1>6. f \in Surjection(OutputArgs, Files)
    BY <1>3, <1>4, <1>5, FS_Injection
<1>7. \E i \in OutputArgs : f[i] = k
    BY <1>6 DEF Surjection
<1>8. \E i \in OutputArgs : Rank(i) = k
    BY <1>1, <1>7
<1> QED
    BY <1>8 DEF OutputArg, Rank

(* Every output is another file of the user.                               *)
LEMMA UserFilesApart ==
    ASSUME args \in CommandLines, NEW k \in Files, NEW l \in Files, UserFile(k) = UserFile(l)
    PROVE  k = l
<1>1. /\ OutputArg(k) \in OutputArgs /\ Rank(OutputArg(k)) = k
      /\ OutputArg(l) \in OutputArgs /\ Rank(OutputArg(l)) = l
    BY OutputArgFacts
<1>2. args[OutputArg(k)] = args[OutputArg(l)]
    BY DEF UserFile
<1>3. OutputArg(k) = OutputArg(l)
    BY <1>1, <1>2, LineFacts
<1> QED
    BY <1>1, <1>3

-----------------------------------------------------------------------------
(* The names in the temporary directory.                                   *)

(* A set of numbers has a least one.                                       *)
LEMMA LeastOf ==
    ASSUME NEW S, S \subseteq Nat, S # {}
    PROVE  \E i \in S : \A j \in S : i <= j
<1>1. PICK i \in S : \A j \in S : ~(<<j, i>> \in OpToRel(<, Nat))
    BY NatLessThanWellFounded, WFMin
<1>2. \A j \in S : ~(j < i)
    BY <1>1 DEF OpToRel
<1> QED
    BY <1>2

IsBase(base) == Len(base) \in Nat /\ base = [j \in 1 .. Len(base) |-> base[j]]

LEMMA NumberedNames ==
    ASSUME NEW base, IsBase(base), NEW i \in Nat, NEW j \in Nat, Append(base, i) = Append(base, j)
    PROVE  i = j
<1>1. PICK S : S = {base[n] : n \in 1 .. Len(base)} \cup Nat
    OBVIOUS
<1>2. base \in Seq(S) /\ i \in S /\ j \in S
    BY <1>1 DEF IsBase
<1>3. Append(base, i)[Len(base) + 1] = i /\ Append(base, j)[Len(base) + 1] = j
    BY <1>2, AppendProperties
<1> QED
    BY <1>3

(* The name generate_unique_file finds is not taken.                       *)
LEMMA UniqueNameFree ==
    ASSUME NEW base, IsBase(base), NEW taken, IsFiniteSet(taken)
    PROVE  UniqueName(base, taken) \notin taken
<1>1. CASE base \notin taken
    BY <1>1 DEF UniqueName
<1>2. CASE base \in taken
  <2>1. PICK n \in Nat : n = Cardinality(taken)
      BY FS_CardinalityType
  <2>2. PICK free : free = {i \in 1 .. n + 1 : Append(base, i) \notin taken}
      OBVIOUS
  <2>3. free # {}
    <3>1. SUFFICES ASSUME free = {} PROVE FALSE
        OBVIOUS
    <3>2. PICK f : f = [i \in 1 .. n + 1 |-> Append(base, i)]
        OBVIOUS
    <3>3. f \in [1 .. n + 1 -> taken]
        BY <2>2, <3>1, <3>2
    <3>4. \A i, j \in 1 .. n + 1 : f[i] = f[j] => i = j
        BY <3>2, NumberedNames
    <3>5. IsFiniteSet(1 .. n + 1) /\ Cardinality(1 .. n + 1) = n + 1
        BY FS_Interval
    <3>6. \E i, j \in 1 .. n + 1 : i # j /\ f[i] = f[j]
        BY <2>1, <3>3, <3>5, FS_PigeonHole
    <3> QED
        BY <3>4, <3>6
  <2>4. free \subseteq Nat
      BY <2>2
  <2>5. \E i \in free : \A j \in free : i <= j
      BY <2>3, <2>4, LeastOf
  <2>6. PICK i : i = CHOOSE m \in free : \A j \in free : m <= j
      OBVIOUS
  <2>7. i \in free
      BY <2>5, <2>6
  <2>8. UniqueName(base, taken) = Append(base, i)
      BY <1>2, <2>1, <2>2, <2>6 DEF UniqueName
  <2> QED
      BY <2>2, <2>7, <2>8
<1> QED
    BY <1>1, <1>2

(* redirect_outputs, one output at a time.                                 *)
NameStep(f, k) ==
    IF k = 0 THEN <<>>
    ELSE Append(f[k - 1], UniqueName(UserFile(k).base, {f[k - 1][j] : j \in 1 .. k - 1}))
NamesUpTo(f, n) == f = [k \in 0 .. n |-> NameStep(f, k)]

LEMMA NamesExist ==
    ASSUME NEW n \in Nat
    PROVE  \E f : NamesUpTo(f, n)
<1>1. SUFFICES ASSUME ~\E f : NamesUpTo(f, n) PROVE FALSE
    OBVIOUS
<1>2. PICK S : S = {m \in Nat : ~\E f : NamesUpTo(f, m)}
    OBVIOUS
<1>3. S \subseteq Nat /\ S # {}
    BY <1>1, <1>2
<1>4. PICK m \in S : \A j \in S : m <= j
    BY <1>3, LeastOf
<1>5. m \in Nat /\ ~\E f : NamesUpTo(f, m)
    BY <1>2, <1>4
<1>6. m # 0
  <2>1. PICK f : f = [k \in 0 .. 0 |-> <<>>]
      OBVIOUS
  <2>2. NamesUpTo(f, 0)
      BY <2>1 DEF NamesUpTo, NameStep
  <2> QED
      BY <1>5, <2>2
<1>7. m - 1 \in Nat /\ m - 1 \notin S
    BY <1>4, <1>5, <1>6
<1>8. PICK f : NamesUpTo(f, m - 1)
    BY <1>2, <1>7
<1>9. PICK g : g = [k \in 0 .. m |-> IF k = m THEN NameStep(f, m) ELSE f[k]]
    OBVIOUS
<1>10. \A k \in 0 .. m - 1 : f[k] = NameStep(f, k) /\ k \in 0 .. m /\ k # m
    BY <1>5, <1>8 DEF NamesUpTo
<1>11. \A k \in 0 .. m - 1 : g[k] = f[k]
    BY <1>9, <1>10
<1>12. \A k \in 0 .. m : k # 0 => k - 1 \in 0 .. m - 1
    BY <1>5
<1>13. ASSUME NEW k \in 0 .. m PROVE NameStep(g, k) = NameStep(f, k)
  <2>1. k # 0 => g[k - 1] = f[k - 1]
      BY <1>11, <1>12
  <2> QED
      BY <2>1 DEF NameStep
<1>14. \A k \in 0 .. m : k # m => k \in 0 .. m - 1
    BY <1>5
<1>15. \A k \in 0 .. m : g[k] = NameStep(g, k)
    BY <1>9, <1>10, <1>13, <1>14
<1>16. NamesUpTo(g, m)
    BY <1>9, <1>15 DEF NamesUpTo
<1> QED
    BY <1>5, <1>16

LEMMA RedirectSteps ==
    ASSUME OutputCount \in Nat
    PROVE  \E f : /\ Redirect = f[OutputCount]
                  /\ NamesUpTo(f, OutputCount)
<1>1. PICK f : f = CHOOSE g : NamesUpTo(g, OutputCount)
    OBVIOUS
<1>2. NamesUpTo(f, OutputCount)
    BY <1>1, NamesExist
<1>3. Redirect = f[OutputCount]
    BY <1>1 DEF Redirect, NamesUpTo, NameStep
<1> QED
    BY <1>2, <1>3

LEMMA ImageFinite ==
    ASSUME NEW n \in Nat, NEW g
    PROVE  IsFiniteSet({g[j] : j \in 1 .. n})
<1>1. PICK T : T = {g[j] : j \in 1 .. n}
    OBVIOUS
<1>2. PICK h : h = [j \in 1 .. n |-> g[j]]
    OBVIOUS
<1>3. h \in [1 .. n -> T] /\ \A t \in T : \E j \in 1 .. n : h[j] = t
    BY <1>1, <1>2
<1>4. h \in Surjection(1 .. n, T)
    BY <1>3, Fun_IsSurj
<1>5. IsFiniteSet(1 .. n)
    BY FS_Interval
<1> QED
    BY <1>1, <1>4, <1>5, FS_Surjection

(* The first k names are unlike each other.                                *)
NamesOK(q, k, U) ==
    /\ q \in Seq(U) /\ Len(q) = k
    /\ \A i, j \in 1 .. k : q[i] = q[j] => i = j

LEMMA NamesAppend ==
    ASSUME NEW U, NEW k \in Nat, NEW q, NamesOK(q, k, U), NEW v \in U, v \notin {q[j] : j \in 1 .. k}
    PROVE  NamesOK(Append(q, v), k + 1, U)
<1>1. PICK r : r = Append(q, v)
    OBVIOUS
<1>2. q \in Seq(U) /\ Len(q) = k /\ \A i, j \in 1 .. k : q[i] = q[j] => i = j
    BY DEF NamesOK
<1>3. /\ r \in Seq(U) /\ Len(r) = k + 1 /\ r[k + 1] = v
      /\ \A i \in 1 .. k : r[i] = q[i]
    BY <1>1, <1>2, AppendProperties
<1>4. \A i \in 1 .. k : q[i] # v
    OBVIOUS
<1>5. \A i \in 1 .. k + 1 : i \in 1 .. k \/ i = k + 1
    OBVIOUS
<1>6. \A i, j \in 1 .. k + 1 : r[i] = r[j] => i = j
    BY <1>2, <1>3, <1>4, <1>5
<1> QED
    BY <1>1, <1>3, <1>6 DEF NamesOK

LEMMA BasesOK ==
    ASSUME args \in CommandLines, NEW k \in Files
    PROVE  IsBase(UserFile(k).base)
<1>1. IsCommandLine(args)
    BY TaskFilesAssumption
<1>2. OutputArg(k) \in Outputs(args)
    BY OutputArgFacts DEF OutputArgs
<1> QED
    BY <1>1, <1>2 DEF IsCommandLine, UserFile, IsBase

LEMMA RedirectApart ==
    ASSUME args \in CommandLines
    PROVE  \A k, l \in Files : Redirect[k] = Redirect[l] => k = l
<1>1. PICK n \in Nat : n = OutputCount
    BY LineFacts
<1>2. PICK f : Redirect = f[n] /\ NamesUpTo(f, n)
    BY <1>1, RedirectSteps
<1>3. PICK U : U = {UniqueName(UserFile(k).base, {f[k - 1][j] : j \in 1 .. k - 1}) : k \in 1 .. n}
    OBVIOUS
<1>4. PICK S : S = {k \in 0 .. n : ~NamesOK(f[k], k, U)}
    OBVIOUS
<1>5. S = {}
  <2>1. SUFFICES ASSUME S # {} PROVE FALSE
      OBVIOUS
  <2>2. S \subseteq Nat
      BY <1>4
  <2>3. PICK m \in S : \A j \in S : m <= j
      BY <2>1, <2>2, LeastOf
  <2>4. m \in 0 .. n /\ ~NamesOK(f[m], m, U)
      BY <1>4, <2>3
  <2>5. f[m] = NameStep(f, m)
      BY <1>2, <2>4 DEF NamesUpTo
  <2>6. m # 0
    <3>1. SUFFICES ASSUME m = 0 PROVE FALSE
        OBVIOUS
    <3>2. f[0] = <<>>
        BY <2>5, <3>1 DEF NameStep
    <3>3. <<>> \in Seq(U) /\ Len(<<>>) = 0 /\ 1 .. 0 = {}
        OBVIOUS
    <3>4. NamesOK(<<>>, 0, U)
        BY <3>3 DEF NamesOK
    <3> QED
        BY <2>4, <3>1, <3>2, <3>4
  <2>7. PICK k \in Nat : k = m - 1
      BY <2>4, <2>6
  <2>8. m = k + 1 /\ k \in 0 .. n /\ k \notin S /\ m \in 1 .. n
      BY <2>3, <2>4, <2>7
  <2>9. NamesOK(f[k], k, U)
      BY <1>4, <2>8
  <2>10. PICK taken : taken = {f[k][j] : j \in 1 .. k}
      OBVIOUS
  <2>11. IsFiniteSet(taken)
      BY <2>10, ImageFinite
  <2>12. PICK v : v = UniqueName(UserFile(m).base, taken)
      OBVIOUS
  <2>13. v \notin taken
      BY <1>1, <2>8, <2>11, <2>12, BasesOK, UniqueNameFree DEF Files
  <2>14. v \in U
      BY <1>3, <2>7, <2>8, <2>10, <2>12
  <2>15. f[m] = Append(f[k], v)
      BY <2>5, <2>6, <2>7, <2>10, <2>12 DEF NameStep
  <2>16. NamesOK(Append(f[k], v), k + 1, U)
      BY <2>9, <2>10, <2>13, <2>14, NamesAppend
  <2> QED
      BY <2>4, <2>8, <2>15, <2>16
<1>6. NamesOK(f[n], n, U)
    BY <1>4, <1>5
<1> QED
    BY <1>1, <1>2, <1>6 DEF NamesOK, Files

-----------------------------------------------------------------------------
(* What the command leaves behind.                                         *)

LEMMA TmpAfter ==
    ASSUME OutputCount \in Nat, DOMAIN tmp = {}, Apart, NEW t, t = After(tmp, LAMBDA k : names[k]),
           NEW k \in Files
    PROVE  /\ names[k] \in DOMAIN t <=> Writes(k)
           /\ Writes(k) => t[names[k]] = Content(k)
<1>1. PICK D : D = {names[m] : m \in {l \in Files : Writes(l)}}
    OBVIOUS
<1>2. t = [n \in D |->
              IF {m \in Files : /\ names[m] = n /\ Writes(m)
                                /\ \A l \in m + 1 .. OutputCount : ~(names[l] = n /\ Writes(l))} = {}
              THEN tmp[n]
              ELSE Content(CHOOSE m \in {m \in Files : /\ names[m] = n /\ Writes(m)
                                /\ \A l \in m + 1 .. OutputCount : ~(names[l] = n /\ Writes(l))} : TRUE)]
  <2>1. t = [n \in DOMAIN tmp \cup {names[m] : m \in {l \in Files : Writes(l)}} |->
              IF {m \in Files : /\ names[m] = n /\ Writes(m)
                                /\ \A l \in m + 1 .. OutputCount : ~(names[l] = n /\ Writes(l))} = {}
              THEN tmp[n]
              ELSE Content(CHOOSE m \in {m \in Files : /\ names[m] = n /\ Writes(m)
                                /\ \A l \in m + 1 .. OutputCount : ~(names[l] = n /\ Writes(l))} : TRUE)]
      BY DEF After, Files
  <2>2. DOMAIN tmp \cup {names[m] : m \in {l \in Files : Writes(l)}} = D
      BY <1>1
  <2> QED
      BY <2>1, <2>2, Zenon
<1>3. DOMAIN t = D
    BY <1>2
<1>4. names[k] \in DOMAIN t <=> Writes(k)
    BY <1>1, <1>3 DEF Apart
<1>5. ASSUME Writes(k) PROVE t[names[k]] = Content(k)
  <2>1. \A l \in k + 1 .. OutputCount : l \in Files /\ l # k
      BY DEF Files
  <2>2. {m \in Files : /\ names[m] = names[k] /\ Writes(m)
                       /\ \A l \in m + 1 .. OutputCount : ~(names[l] = names[k] /\ Writes(l))} = {k}
      BY <1>5, <2>1 DEF Apart
  <2>3. (CHOOSE m \in {k} : TRUE) = k
      OBVIOUS
  <2>4. names[k] \in D
      BY <1>3, <1>4, <1>5
  <2>5. PICK n \in D : n = names[k]
      BY <2>4
  <2>6. t[n] = IF {m \in Files : /\ names[m] = n /\ Writes(m)
                                 /\ \A l \in m + 1 .. OutputCount : ~(names[l] = n /\ Writes(l))} = {}
               THEN tmp[n]
               ELSE Content(CHOOSE m \in {m \in Files : /\ names[m] = n /\ Writes(m)
                                 /\ \A l \in m + 1 .. OutputCount : ~(names[l] = n /\ Writes(l))} : TRUE)
      BY <1>2
  <2>7. t[n] = IF {k} = {} THEN tmp[n] ELSE Content(CHOOSE m \in {k} : TRUE)
      BY <2>2, <2>5, <2>6, Zenon
  <2> QED
      BY <2>3, <2>5, <2>7
<1> QED
    BY <1>4, <1>5

LEMMA LocalAfter ==
    ASSUME args \in CommandLines, NEW k \in Files
    PROVE  LocalFiles[UserFile(k)] = IF Writes(k) THEN Content(k) ELSE Old
<1>0. OutputCount \in Nat /\ \A l, m \in Files : UserFile(l) = UserFile(m) => l = m
    BY LineFacts, UserFilesApart
<1>1. PICK L : L = [n \in UserFiles |->
                      {m \in Files : /\ UserFile(m) = n /\ Writes(m)
                                     /\ \A l \in m + 1 .. OutputCount : ~(UserFile(l) = n /\ Writes(l))}]
    OBVIOUS
<1>2. UserFiles = {UserFile(m) : m \in Files}
    BY DEF UserFiles, Files
<1>3. UserFiles \cup {UserFile(m) : m \in {l \in Files : Writes(l)}} = UserFiles
    BY <1>2
<1>4. PICK dir : dir = [n \in UserFiles |-> Old]
    OBVIOUS
<1>5. LocalFiles = [n \in UserFiles \cup {UserFile(m) : m \in {l \in Files : Writes(l)}} |->
                      IF {m \in Files : /\ UserFile(m) = n /\ Writes(m)
                                        /\ \A l \in m + 1 .. OutputCount : ~(UserFile(l) = n /\ Writes(l))} = {}
                      THEN dir[n]
                      ELSE Content(CHOOSE m \in {m \in Files : /\ UserFile(m) = n /\ Writes(m)
                                        /\ \A l \in m + 1 .. OutputCount : ~(UserFile(l) = n /\ Writes(l))} : TRUE)]
    BY <1>4 DEF LocalFiles, After, Files
<1>6. LocalFiles = [n \in UserFiles |-> IF L[n] = {} THEN dir[n] ELSE Content(CHOOSE m \in L[n] : TRUE)]
    BY <1>1, <1>3, <1>5
<1>7. UserFile(k) \in UserFiles
    BY <1>2
<1>8. LocalFiles[UserFile(k)] =
          IF L[UserFile(k)] = {} THEN Old ELSE Content(CHOOSE m \in L[UserFile(k)] : TRUE)
    BY <1>4, <1>6, <1>7
<1>9. \A l \in k + 1 .. OutputCount : l \in Files /\ l # k
    BY <1>0 DEF Files
<1>10. L[UserFile(k)] = IF Writes(k) THEN {k} ELSE {}
    BY <1>0, <1>1, <1>7, <1>9
<1>11. (CHOOSE m \in {k} : TRUE) = k
    OBVIOUS
<1> QED
    BY <1>8, <1>10, <1>11

-----------------------------------------------------------------------------
(* Messages in order.                                                      *)

LEMMA NumberedKept ==
    ASSUME NEW P, NEW at, NEW at2, NEW lo \in Nat, NEW hi \in Nat, Numbered(at, P, lo, hi),
           \A i \in P : at2[i] = at[i]
    PROVE  Numbered(at2, P, lo, hi)
    BY DEF Numbered

LEMMA NumberedAdd ==
    ASSUME NEW P \in SUBSET Nat, NEW at, NEW at2, NEW lo \in Nat, NEW hi \in Nat, Numbered(at, P, lo, hi),
           NEW x \in Nat, \A i \in P : i < x /\ at2[i] = at[i] /\ at[i] \in Nat, at2[x] = hi + 1
    PROVE  Numbered(at2, P \cup {x}, lo, hi + 1)
<1>0. /\ lo <= hi
      /\ \A i \in P : lo < at[i] /\ at[i] <= hi
      /\ \A i, j \in P : i < j => at[i] < at[j]
      /\ \A n \in Nat : lo < n /\ n <= hi => \E i \in P : at[i] = n
    BY DEF Numbered
<1>1. ASSUME NEW i \in P \cup {x} PROVE lo < at2[i] /\ at2[i] <= hi + 1
  <2>1. CASE i \in P
      BY <1>0, <2>1
  <2>2. CASE i = x
      BY <1>0, <2>2
  <2> QED
      BY <2>1, <2>2
<1>2. ASSUME NEW i \in P \cup {x}, NEW j \in P \cup {x}, i < j PROVE at2[i] < at2[j]
  <2>1. i \in P
      BY <1>2
  <2>2. CASE j \in P
      BY <1>0, <1>2, <2>1, <2>2
  <2>3. CASE j = x
      BY <1>0, <2>1, <2>3
  <2> QED
      BY <2>2, <2>3
<1>3. ASSUME NEW n \in Nat, lo < n, n <= hi + 1 PROVE \E i \in P \cup {x} : at2[i] = n
  <2>1. n <= hi \/ n = hi + 1
      BY <1>3
  <2>2. CASE n <= hi
      BY <1>0, <1>3, <2>2
  <2> QED
      BY <2>1, <2>2
<1> QED
    BY <1>0, <1>1, <1>2, <1>3 DEF Numbered

(* The head leaves.                                                        *)
Shifted(P, Q, at, at2) ==
    /\ \A i \in Q : i + 1 \in P /\ at2[i] = at[i + 1]
    /\ \A i \in P : i # 1 => i - 1 \in Q

LEMMA NumberedShift ==
    ASSUME NEW P \in SUBSET Nat, NEW Q \in SUBSET Nat, NEW at, NEW at2, NEW lo \in Nat, NEW hi \in Nat,
           Numbered(at, P, lo, hi), Shifted(P, Q, at, at2), 1 \notin P
    PROVE  Numbered(at2, Q, lo, hi)
<1>0. /\ lo <= hi
      /\ \A i \in P : lo < at[i] /\ at[i] <= hi
      /\ \A i, j \in P : i < j => at[i] < at[j]
      /\ \A n \in Nat : lo < n /\ n <= hi => \E i \in P : at[i] = n
    BY DEF Numbered
<1>1. \A i \in Q : i + 1 \in P /\ at2[i] = at[i + 1] /\ i \in Nat
    BY DEF Shifted
<1>2. \A i \in P : i - 1 \in Q /\ at2[i - 1] = at[i]
  <2>1. TAKE i \in P
  <2>2. i - 1 \in Q /\ i \in Nat
      BY DEF Shifted
  <2>3. (i - 1) + 1 = i
      BY <2>2
  <2> QED
      BY <1>1, <2>2, <2>3
<1>3. \A i \in Q : lo < at2[i] /\ at2[i] <= hi
    BY <1>0, <1>1
<1>4. ASSUME NEW i \in Q, NEW j \in Q, i < j PROVE at2[i] < at2[j]
  <2>1. i + 1 < j + 1
      BY <1>1, <1>4
  <2> QED
      BY <1>0, <1>1, <2>1
<1>5. \A n \in Nat : lo < n /\ n <= hi => \E i \in Q : at2[i] = n
    BY <1>0, <1>2
<1> QED
    BY <1>0, <1>3, <1>4, <1>5 DEF Numbered

LEMMA NumberedPop ==
    ASSUME NEW P \in SUBSET Nat, NEW Q \in SUBSET (Nat \ {0}), NEW at, NEW at2, NEW lo \in Nat, NEW hi \in Nat,
           Numbered(at, P, lo, hi), Shifted(P, Q, at, at2), 1 \in P, 0 \notin P, \A i \in P : at[i] \in Nat
    PROVE  at[1] = lo + 1 /\ Numbered(at2, Q, lo + 1, hi)
<1>0. /\ lo <= hi
      /\ \A i \in P : lo < at[i] /\ at[i] <= hi
      /\ \A i, j \in P : i < j => at[i] < at[j]
      /\ \A n \in Nat : lo < n /\ n <= hi => \E i \in P : at[i] = n
    BY DEF Numbered
<1>a. lo < at[1] /\ at[1] <= hi /\ at[1] \in Nat
    BY <1>0
<1>b. \A i \in P : i # 1 => i > 1 /\ at[1] < at[i]
  <2>1. TAKE i \in P
  <2>2. i # 1 => i > 1
      OBVIOUS
  <2> QED
      BY <1>0, <2>2
<1>c. at[1] = lo + 1
  <2>1. lo + 1 \in Nat /\ lo < lo + 1 /\ lo + 1 <= hi
      BY <1>a
  <2>2. PICK i \in P : at[i] = lo + 1
      BY <1>0, <2>1
  <2>3. i # 1 => at[1] < lo + 1
      BY <1>b, <2>2
  <2> QED
      BY <1>a, <2>2, <2>3
<1>1. \A i \in Q : i + 1 \in P /\ at2[i] = at[i + 1] /\ i \in Nat /\ i > 0 /\ i + 1 # 1
    BY DEF Shifted
<1>2. \A i \in P : i # 1 => i - 1 \in Q /\ at2[i - 1] = at[i]
  <2>1. TAKE i \in P
  <2>2. HAVE i # 1
  <2>3. i - 1 \in Q /\ i \in Nat
      BY <2>2 DEF Shifted
  <2>4. (i - 1) + 1 = i
      BY <2>3
  <2> QED
      BY <1>1, <2>3, <2>4
<1>3. ASSUME NEW i \in Q PROVE lo + 1 < at2[i] /\ at2[i] <= hi
    BY <1>0, <1>1, <1>b, <1>c
<1>4. ASSUME NEW i \in Q, NEW j \in Q, i < j PROVE at2[i] < at2[j]
  <2>1. i + 1 < j + 1
      BY <1>1, <1>4
  <2> QED
      BY <1>0, <1>1, <2>1
<1>5. ASSUME NEW n \in Nat, lo + 1 < n, n <= hi PROVE \E i \in Q : at2[i] = n
  <2>1. lo < n
      BY <1>5
  <2>2. PICK i \in P : at[i] = n
      BY <1>0, <1>5, <2>1
  <2>3. i # 1
      BY <1>5, <1>c, <2>2
  <2> QED
      BY <1>2, <2>2, <2>3
<1>6. lo + 1 <= hi
    BY <1>a
<1> QED
    BY <1>3, <1>4, <1>5, <1>6, <1>c DEF Numbered

LEMMA NumberedNone ==
    ASSUME NEW at, NEW lo \in Nat, NEW hi \in Nat, Numbered(at, {}, lo, hi)
    PROVE  lo = hi
<1>1. lo <= hi /\ \A n \in Nat : ~(lo < n /\ n <= hi)
    BY DEF Numbered
<1> QED
    BY <1>1

IsLine(m, s) == m.type = "TaskOutput" /\ m.output = s
IsBlock(m, k) == m.type = "TaskOutput" /\ m.output = "File" /\ m.idx = k

LEMMA AppendFacts ==
    ASSUME NEW q \in Seq(Msgs), NEW m \in Msgs
    PROVE  /\ Append(q, m) \in Seq(Msgs) /\ Len(Append(q, m)) = Len(q) + 1 /\ Len(q) \in Nat
           /\ Append(q, m)[Len(q) + 1] = m
           /\ \A i \in 1 .. Len(q) : Append(q, m)[i] = q[i]
    BY AppendProperties, LenProperties

LEMMA TailFacts ==
    ASSUME NEW q \in Seq(Msgs), q # <<>>
    PROVE  /\ Tail(q) \in Seq(Msgs) /\ Len(Tail(q)) = Len(q) - 1 /\ Len(q) \in Nat \ {0}
           /\ \A i \in 1 .. Len(q) - 1 : Tail(q)[i] = q[i + 1]
           /\ Head(q) = q[1] /\ q[1] \in Msgs
    OBVIOUS

LEMMA LinedAppend ==
    ASSUME NEW q \in Seq(Msgs), NEW m \in Msgs, NEW s, NEW lines, NEW lo \in Nat, NEW hi \in Nat,
           Lined(q, s, lines, lo, hi)
    PROVE  /\ IsLine(m, s) /\ m.content = AsSent(lines[hi + 1]) => Lined(Append(q, m), s, lines, lo, hi + 1)
           /\ ~IsLine(m, s) => Lined(Append(q, m), s, lines, lo, hi)
<1>1. PICK r \in Seq(Msgs) : r = Append(q, m)
    BY AppendFacts
<1>2. /\ Len(r) = Len(q) + 1 /\ Len(q) \in Nat /\ r[Len(q) + 1] = m
      /\ \A i \in 1 .. Len(q) : r[i] = q[i]
    BY <1>1, AppendFacts
<1>3. PICK at \in [1 .. Len(q) -> Nat] : /\ Numbered(at, OfStream(q, s), lo, hi)
                                         /\ \A i \in OfStream(q, s) : q[i].content = AsSent(lines[at[i]])
    BY DEF Lined
<1>4. PICK at2 : at2 = [i \in 1 .. Len(r) |-> IF i = Len(q) + 1 THEN hi + 1 ELSE at[i]]
    OBVIOUS
<1>a. \A i \in 1 .. Len(r) : i = Len(q) + 1 \/ i \in 1 .. Len(q)
    BY <1>2
<1>b. \A i \in 1 .. Len(q) : i # Len(q) + 1 /\ i < Len(q) + 1 /\ i \in 1 .. Len(r) /\ i \in Nat
    BY <1>2
<1>5. at2 \in [1 .. Len(r) -> Nat]
    BY <1>4, <1>a
<1>6. \A i \in OfStream(q, s) : i \in 1 .. Len(q) /\ at[i] \in Nat /\ at2[i] = at[i]
    BY <1>4, <1>b DEF OfStream
<1>c. \A i \in OfStream(q, s) : r[i].content = AsSent(lines[at2[i]])
    BY <1>2, <1>3, <1>6
<1>7. ASSUME IsLine(m, s), m.content = AsSent(lines[hi + 1]) PROVE Lined(r, s, lines, lo, hi + 1)
  <2>1. OfStream(r, s) = OfStream(q, s) \cup {Len(q) + 1}
    <3>1. Len(q) + 1 \in OfStream(r, s)
        BY <1>2, <1>7 DEF OfStream, IsLine
    <3>2. \A i \in 1 .. Len(q) : i \in OfStream(r, s) <=> i \in OfStream(q, s)
        BY <1>2, <1>b DEF OfStream
    <3>3. OfStream(r, s) \subseteq 1 .. Len(r) /\ OfStream(q, s) \subseteq 1 .. Len(q)
        BY DEF OfStream
    <3> QED
        BY <1>a, <3>1, <3>2, <3>3
  <2>2. OfStream(q, s) \in SUBSET Nat /\ Len(q) + 1 \in Nat /\ at2[Len(q) + 1] = hi + 1
    <3>1. \A i \in OfStream(q, s) : i \in Nat
        BY <1>6, <1>b
    <3>2. Len(q) + 1 \in Nat /\ Len(q) + 1 \in 1 .. Len(r)
        BY <1>2
    <3>3. at2[Len(q) + 1] = hi + 1
        BY <1>2, <1>4, <3>2
    <3> QED
        BY <3>1, <3>2, <3>3
  <2>3. \A i \in OfStream(q, s) : i < Len(q) + 1 /\ at2[i] = at[i] /\ at[i] \in Nat
      BY <1>6, <1>b
  <2>4. Numbered(at2, OfStream(q, s) \cup {Len(q) + 1}, lo, hi + 1)
      BY <1>3, <2>2, <2>3, NumberedAdd
  <2>5. r[Len(q) + 1].content = AsSent(lines[at2[Len(q) + 1]])
      BY <1>2, <1>7, <2>2
  <2>6. \A i \in OfStream(q, s) \cup {Len(q) + 1} : r[i].content = AsSent(lines[at2[i]])
      BY <1>c, <2>5
  <2> QED
      BY <1>5, <2>1, <2>4, <2>6 DEF Lined
<1>8. ASSUME ~IsLine(m, s) PROVE Lined(r, s, lines, lo, hi)
  <2>1. OfStream(r, s) = OfStream(q, s)
      BY <1>2, <1>8, <1>a, <1>b DEF OfStream, IsLine
  <2>2. Numbered(at2, OfStream(q, s), lo, hi)
      BY <1>3, <1>6, NumberedKept
  <2> QED
      BY <1>5, <1>c, <2>1, <2>2 DEF Lined
<1> QED
    BY <1>1, <1>7, <1>8

LEMMA LinedTail ==
    ASSUME NEW q \in Seq(Msgs), q # <<>>, NEW s, NEW lines, NEW lo \in Nat, NEW hi \in Nat,
           Lined(q, s, lines, lo, hi)
    PROVE  /\ IsLine(Head(q), s) => Lined(Tail(q), s, lines, lo + 1, hi) /\ Head(q).content = AsSent(lines[lo + 1])
           /\ ~IsLine(Head(q), s) => Lined(Tail(q), s, lines, lo, hi)
<1>1. PICK r \in Seq(Msgs) : r = Tail(q)
    BY TailFacts
<1>2. /\ Len(r) = Len(q) - 1 /\ Len(q) \in Nat \ {0} /\ Head(q) = q[1]
      /\ \A i \in 1 .. Len(q) - 1 : r[i] = q[i + 1]
    BY <1>1, TailFacts
<1>3. PICK at \in [1 .. Len(q) -> Nat] : /\ Numbered(at, OfStream(q, s), lo, hi)
                                         /\ \A i \in OfStream(q, s) : q[i].content = AsSent(lines[at[i]])
    BY DEF Lined
<1>4. PICK at2 : at2 = [i \in 1 .. Len(r) |-> at[i + 1]]
    OBVIOUS
<1>a. \A i \in 1 .. Len(r) : i + 1 \in 1 .. Len(q) /\ r[i] = q[i + 1] /\ i \in Nat \ {0}
    BY <1>2
<1>b. \A i \in 1 .. Len(q) : i # 1 => i - 1 \in 1 .. Len(r) /\ r[i - 1] = q[i]
  <2>1. TAKE i \in 1 .. Len(q)
  <2>2. HAVE i # 1
  <2>3. i - 1 \in 1 .. Len(r) /\ (i - 1) + 1 = i
      BY <1>2, <2>2
  <2> QED
      BY <1>a, <2>3
<1>5. at2 \in [1 .. Len(r) -> Nat]
    BY <1>4, <1>a
<1>6. /\ OfStream(q, s) \in SUBSET Nat /\ 0 \notin OfStream(q, s)
      /\ OfStream(r, s) \in SUBSET (Nat \ {0}) /\ OfStream(r, s) \in SUBSET Nat
      /\ \A i \in OfStream(q, s) : at[i] \in Nat
  <2>1. \A i \in OfStream(q, s) : i \in 1 .. Len(q)
      BY DEF OfStream
  <2>2. \A i \in OfStream(r, s) : i \in 1 .. Len(r)
      BY DEF OfStream
  <2>3. \A i \in 1 .. Len(q) : i \in Nat /\ i # 0 /\ at[i] \in Nat
      BY <1>2
  <2>4. \A i \in OfStream(r, s) : i \in Nat \ {0}
      BY <1>a, <2>2
  <2> QED
      BY <2>1, <2>3, <2>4
<1>7. Shifted(OfStream(q, s), OfStream(r, s), at, at2)
  <2>1. \A i \in OfStream(r, s) : i + 1 \in OfStream(q, s) /\ at2[i] = at[i + 1]
      BY <1>4, <1>a DEF OfStream
  <2>2. \A i \in OfStream(q, s) : i # 1 => i - 1 \in OfStream(r, s)
      BY <1>b DEF OfStream
  <2> QED
      BY <2>1, <2>2 DEF Shifted
<1>8. 1 \in OfStream(q, s) <=> IsLine(Head(q), s)
    BY <1>2 DEF OfStream, IsLine
<1>c. \A i \in OfStream(r, s) : r[i].content = AsSent(lines[at2[i]])
  <2>1. TAKE i \in OfStream(r, s)
  <2>2. i + 1 \in OfStream(q, s) /\ at2[i] = at[i + 1]
      BY <1>7 DEF Shifted
  <2>3. r[i] = q[i + 1]
      BY <1>a DEF OfStream
  <2> QED
      BY <1>3, <2>2, <2>3
<1>9. ASSUME IsLine(Head(q), s) PROVE Lined(r, s, lines, lo + 1, hi) /\ Head(q).content = AsSent(lines[lo + 1])
  <2>1. at[1] = lo + 1 /\ Numbered(at2, OfStream(r, s), lo + 1, hi)
      BY <1>3, <1>6, <1>7, <1>8, <1>9, NumberedPop
  <2>2. q[1].content = AsSent(lines[at[1]])
      BY <1>3, <1>8, <1>9
  <2> QED
      BY <1>2, <1>5, <1>c, <2>1, <2>2 DEF Lined
<1>10. ASSUME ~IsLine(Head(q), s) PROVE Lined(r, s, lines, lo, hi)
  <2>1. Numbered(at2, OfStream(r, s), lo, hi)
      BY <1>3, <1>6, <1>7, <1>8, <1>10, NumberedShift
  <2> QED
      BY <1>5, <1>c, <2>1 DEF Lined
<1> QED
    BY <1>1, <1>9, <1>10

LEMMA FiledAppend ==
    ASSUME NEW q \in Seq(Msgs), NEW m \in Msgs, NEW k, NEW lo \in Nat, NEW hi \in Nat, Filed(q, k, lo, hi)
    PROVE  /\ IsBlock(m, k) /\ m.content[2] = hi + 1 => Filed(Append(q, m), k, lo, hi + 1)
           /\ ~IsBlock(m, k) => Filed(Append(q, m), k, lo, hi)
<1>1. PICK r \in Seq(Msgs) : r = Append(q, m)
    BY AppendFacts
<1>2. /\ Len(r) = Len(q) + 1 /\ Len(q) \in Nat /\ r[Len(q) + 1] = m
      /\ \A i \in 1 .. Len(q) : r[i] = q[i]
    BY <1>1, AppendFacts
<1>3. PICK at : at = [i \in 1 .. Len(q) |-> q[i].content[2]]
    OBVIOUS
<1>4. PICK at2 : at2 = [i \in 1 .. Len(r) |-> r[i].content[2]]
    OBVIOUS
<1>5. Numbered(at, OfFile(q, k), lo, hi)
    BY <1>3 DEF Filed
<1>a. \A i \in 1 .. Len(r) : i = Len(q) + 1 \/ i \in 1 .. Len(q)
    BY <1>2
<1>b. \A i \in 1 .. Len(q) : i # Len(q) + 1 /\ i < Len(q) + 1 /\ i \in 1 .. Len(r) /\ i \in Nat
    BY <1>2
<1>6. \A i \in OfFile(q, k) : i \in 1 .. Len(q) /\ at[i] \in Nat /\ at2[i] = at[i]
  <2>1. TAKE i \in OfFile(q, k)
  <2>2. i \in 1 .. Len(q) /\ q[i] \in Msgs /\ q[i].type = "TaskOutput" /\ q[i].output = "File"
      BY ElementOfSeq DEF OfFile
  <2>3. q[i] \in FileMsgs
      BY <2>2 DEF Msgs, StreamMsgs, FileMsgs, Streams
  <2>4. q[i].content[2] \in Nat
      BY <2>3 DEF FileMsgs, Blocks
  <2> QED
      BY <1>2, <1>3, <1>4, <1>b, <2>2, <2>4
<1>7. ASSUME IsBlock(m, k), m.content[2] = hi + 1 PROVE Filed(r, k, lo, hi + 1)
  <2>1. OfFile(r, k) = OfFile(q, k) \cup {Len(q) + 1}
    <3>1. Len(q) + 1 \in OfFile(r, k)
        BY <1>2, <1>7 DEF OfFile, IsBlock
    <3>2. \A i \in 1 .. Len(q) : i \in OfFile(r, k) <=> i \in OfFile(q, k)
        BY <1>2, <1>b DEF OfFile
    <3>3. OfFile(r, k) \subseteq 1 .. Len(r) /\ OfFile(q, k) \subseteq 1 .. Len(q)
        BY DEF OfFile
    <3> QED
        BY <1>a, <3>1, <3>2, <3>3
  <2>2. OfFile(q, k) \in SUBSET Nat /\ Len(q) + 1 \in Nat /\ at2[Len(q) + 1] = hi + 1
    <3>1. \A i \in OfFile(q, k) : i \in Nat
        BY <1>6, <1>b
    <3>2. Len(q) + 1 \in Nat /\ Len(q) + 1 \in 1 .. Len(r)
        BY <1>2
    <3>3. at2[Len(q) + 1] = hi + 1
        BY <1>2, <1>4, <1>7, <3>2
    <3> QED
        BY <3>1, <3>2, <3>3
  <2>3. \A i \in OfFile(q, k) : i < Len(q) + 1 /\ at2[i] = at[i] /\ at[i] \in Nat
      BY <1>6, <1>b
  <2>4. Numbered(at2, OfFile(q, k) \cup {Len(q) + 1}, lo, hi + 1)
      BY <1>5, <2>2, <2>3, NumberedAdd
  <2> QED
      BY <1>4, <2>1, <2>4 DEF Filed
<1>8. ASSUME ~IsBlock(m, k) PROVE Filed(r, k, lo, hi)
  <2>1. OfFile(r, k) = OfFile(q, k)
      BY <1>2, <1>8, <1>a, <1>b DEF OfFile, IsBlock
  <2>2. Numbered(at2, OfFile(q, k), lo, hi)
      BY <1>5, <1>6, NumberedKept
  <2> QED
      BY <1>4, <2>1, <2>2 DEF Filed
<1> QED
    BY <1>1, <1>7, <1>8

LEMMA FiledTail ==
    ASSUME NEW q \in Seq(Msgs), q # <<>>, NEW k, NEW lo \in Nat, NEW hi \in Nat, Filed(q, k, lo, hi)
    PROVE  /\ IsBlock(Head(q), k) => Head(q).content[2] = lo + 1 /\ Filed(Tail(q), k, lo + 1, hi)
           /\ ~IsBlock(Head(q), k) => Filed(Tail(q), k, lo, hi)
<1>1. PICK r \in Seq(Msgs) : r = Tail(q)
    BY TailFacts
<1>2. /\ Len(r) = Len(q) - 1 /\ Len(q) \in Nat \ {0} /\ Head(q) = q[1]
      /\ \A i \in 1 .. Len(q) - 1 : r[i] = q[i + 1]
    BY <1>1, TailFacts
<1>3. PICK at : at = [i \in 1 .. Len(q) |-> q[i].content[2]]
    OBVIOUS
<1>4. PICK at2 : at2 = [i \in 1 .. Len(r) |-> r[i].content[2]]
    OBVIOUS
<1>5. Numbered(at, OfFile(q, k), lo, hi)
    BY <1>3 DEF Filed
<1>a. \A i \in 1 .. Len(r) : i + 1 \in 1 .. Len(q) /\ r[i] = q[i + 1] /\ i \in Nat \ {0}
    BY <1>2
<1>b. \A i \in 1 .. Len(q) : i # 1 => i - 1 \in 1 .. Len(r) /\ r[i - 1] = q[i]
  <2>1. TAKE i \in 1 .. Len(q)
  <2>2. HAVE i # 1
  <2>3. i - 1 \in 1 .. Len(r) /\ (i - 1) + 1 = i
      BY <1>2, <2>2
  <2> QED
      BY <1>a, <2>3
<1>6. /\ OfFile(q, k) \in SUBSET Nat /\ 0 \notin OfFile(q, k)
      /\ OfFile(r, k) \in SUBSET (Nat \ {0}) /\ OfFile(r, k) \in SUBSET Nat
    BY <1>2, <1>a DEF OfFile
<1>c. \A i \in OfFile(q, k) : at[i] \in Nat
  <2>1. TAKE i \in OfFile(q, k)
  <2>2. i \in 1 .. Len(q) /\ q[i] \in Msgs /\ q[i].type = "TaskOutput" /\ q[i].output = "File"
      BY ElementOfSeq DEF OfFile
  <2>3. q[i] \in FileMsgs
      BY <2>2 DEF Msgs, StreamMsgs, FileMsgs, Streams
  <2>4. q[i].content[2] \in Nat
      BY <2>3 DEF FileMsgs, Blocks
  <2> QED
      BY <1>3, <2>2, <2>4
<1>7. Shifted(OfFile(q, k), OfFile(r, k), at, at2)
  <2>1. \A i \in OfFile(r, k) : i + 1 \in OfFile(q, k) /\ at2[i] = at[i + 1]
      BY <1>3, <1>4, <1>a DEF OfFile
  <2>2. \A i \in OfFile(q, k) : i # 1 => i - 1 \in OfFile(r, k)
      BY <1>b DEF OfFile
  <2> QED
      BY <2>1, <2>2 DEF Shifted
<1>8. 1 \in OfFile(q, k) <=> IsBlock(Head(q), k)
    BY <1>2 DEF OfFile, IsBlock
<1>9. ASSUME IsBlock(Head(q), k) PROVE Head(q).content[2] = lo + 1 /\ Filed(r, k, lo + 1, hi)
  <2>1. at[1] = lo + 1 /\ Numbered(at2, OfFile(r, k), lo + 1, hi)
      BY <1>5, <1>6, <1>7, <1>8, <1>9, <1>c, NumberedPop
  <2> QED
      BY <1>2, <1>3, <1>4, <2>1 DEF Filed
<1>10. ASSUME ~IsBlock(Head(q), k) PROVE Filed(r, k, lo, hi)
  <2>1. Numbered(at2, OfFile(r, k), lo, hi)
      BY <1>5, <1>6, <1>7, <1>8, <1>10, NumberedShift
  <2> QED
      BY <1>4, <2>1 DEF Filed
<1> QED
    BY <1>1, <1>9, <1>10

-----------------------------------------------------------------------------
(* What a step leaves as it is.                                            *)

LEMMA Unmoved ==
    ASSUME args' = args, plan' = plan
    PROVE  /\ OutputCount' = OutputCount /\ Files' = Files /\ UserFiles' = UserFiles /\ KeepLocal' = KeepLocal
           /\ LocalFiles' = LocalFiles /\ PlanOK' = PlanOK
           /\ \A k : UserFile(k)' = UserFile(k) /\ Size(k)' = Size(k) /\ Writes(k)' = Writes(k)
           /\ \A k : Content(k)' = Content(k)
<1>1. OutputArgs' = OutputArgs
    BY DEF OutputArgs
<1>2. OutputCount' = OutputCount /\ Files' = Files
    BY <1>1 DEF OutputCount, Files
<1>3. \A k : OutputArg(k)' = OutputArg(k)
    BY <1>1 DEF OutputArg
<1>4. \A k : UserFile(k)' = UserFile(k)
    BY <1>3 DEF UserFile
<1>5. \A k : Size(k)' = Size(k) /\ Writes(k)' = Writes(k)
    BY DEF Size, Writes
<1>6. \A k : Content(k)' = Content(k)
    BY DEF Content
<1>7. UserFiles' = UserFiles
    BY <1>2, <1>4 DEF UserFiles
<1>8. KeepLocal' = KeepLocal
    BY DEF KeepLocal
<1>9. LocalFiles' = LocalFiles
    BY <1>2, <1>4, <1>5, <1>6, <1>7 DEF LocalFiles, After
<1>10. PlanOK' = PlanOK
    BY <1>2 DEF PlanOK
<1> QED
    BY <1>2, <1>4, <1>5, <1>6, <1>7, <1>8, <1>9, <1>10

LEMMA PlanFacts ==
    ASSUME PlanOK
    PROVE  /\ plan.code \in 0 .. 255 \cup {Signal}
           /\ \A s \in Streams : plan.lines[s] \in Seq(LineSet)
           /\ plan.lines \in [Streams -> Seq(LineSet)]
           /\ \A k \in Files : Size(k) \in Nat /\ (Writes(k) => Content(k) = [b \in 1 .. Size(k) |-> <<k, b>>])
<1>1. plan.code \in ExitCodes /\ plan.lines \in [Streams -> Lines] /\ plan.size \in [Files -> Sizes]
    BY DEF PlanOK
<1>2. ASSUME NEW k \in Files PROVE Size(k) \in Nat /\ (Writes(k) => Content(k) = [b \in 1 .. Size(k) |-> <<k, b>>])
  <2>1. plan.size[k] \in Nat \cup {NotWritten}
      BY <1>1, TaskFilesAssumption
  <2> QED
      BY <2>1 DEF Size, Writes, Content
<1> QED
    BY <1>1, <1>2, TaskFilesAssumption DEF IsOutput

LEMMA StreamFacts ==
    ASSUME TypeOK, NEW s \in Streams
    PROVE  /\ plan.lines[s] \in Seq(LineSet) /\ pipe[s] \in Seq(LineSet) /\ todo[s] \in Seq(LineSet)
           /\ seen[s] \in Seq(LineSet)
           /\ Len(plan.lines[s]) \in Nat /\ Len(pipe[s]) \in Nat /\ Len(todo[s]) \in Nat /\ Len(seen[s]) \in Nat
           /\ Read(s) \in Int /\ Read(s) = Len(plan.lines[s]) - Len(pipe[s]) - Len(todo[s])
           /\ PipeOK(s) => Passed(s) \in Nat
<1>1. /\ plan.lines[s] \in Seq(LineSet) /\ pipe[s] \in Seq(LineSet) /\ todo[s] \in Seq(LineSet)
      /\ seen[s] \in Seq(LineSet)
    BY PlanFacts DEF TypeOK
<1>2. Len(plan.lines[s]) \in Nat /\ Len(pipe[s]) \in Nat /\ Len(todo[s]) \in Nat /\ Len(seen[s]) \in Nat
    BY <1>1, LenProperties
<1>3. Read(s) \in Int /\ Read(s) = Len(plan.lines[s]) - Len(pipe[s]) - Len(todo[s])
    BY <1>2 DEF Read
<1>4. PipeOK(s) => Passed(s) \in Nat
    BY DEF PipeOK, Passed
<1> QED
    BY <1>1, <1>2, <1>3, <1>4

LEMMA PipeKept ==
    ASSUME NEW s \in Streams, PipeOK(s), plan' = plan,
           pipe'[s] = pipe[s], todo'[s] = todo[s], done'[s] = done[s]
    PROVE  PipeOK(s)' /\ Passed(s)' = Passed(s)
<1>1. Read(s)' = Read(s)
    BY DEF Read
<1>2. Passed(s)' = Passed(s)
    BY <1>1 DEF Passed
<1> QED
    BY <1>1, <1>2 DEF PipeOK

LEMMA ClientSame ==
    ASSUME ClientOK, args' = args, plan' = plan, fs' = fs, opened' = opened, seen' = seen, msgs' = msgs,
           \A k \in Files : Sent(k)' = Sent(k), \A s \in Streams : Passed(s)' = Passed(s)
    PROVE  ClientOK'
<1>0. /\ Files' = Files /\ UserFiles' = UserFiles
      /\ \A k : UserFile(k)' = UserFile(k) /\ Size(k)' = Size(k)
    BY Unmoved
<1>1. fs' \in [UserFiles' -> Seq(Blocks)]
    BY <1>0 DEF ClientOK
<1>2. ASSUME NEW s \in Streams PROVE SeenOK(s)'
    BY DEF ClientOK, SeenOK
<1>3. ASSUME NEW k \in Files PROVE FileOK(k)'
  <2>1. Got(k)' = Got(k) /\ Sent(k)' = Sent(k) /\ UserFile(k)' = UserFile(k)
      BY <1>0 DEF Got
  <2>2. FileOK(k)
      BY DEF ClientOK
  <2> QED
      BY <2>1, <2>2 DEF FileOK
<1> QED
    BY <1>0, <1>1, <1>2, <1>3 DEF ClientOK

LEMMA ClientKept ==
    ASSUME ClientOK, args' = args, plan' = plan, fs' = fs, opened' = opened, seen' = seen, msgs' = msgs,
           next' = next, \A s \in Streams : Passed(s)' = Passed(s)
    PROVE  ClientOK'
<1>1. \A k \in Files : Sent(k)' = Sent(k)
    BY Unmoved DEF Sent
<1> QED
    BY <1>1, ClientSame

LEMMA FinalKept ==
    ASSUME FilesAsLocal, OutputAsLocal, args' = args, plan' = plan, client' = client,
           client = "ended" => fs' = fs /\ seen' = seen /\ exit' = exit
    PROVE  FilesAsLocal' /\ OutputAsLocal'
<1>0. KeepLocal' = KeepLocal /\ UserFiles' = UserFiles /\ LocalFiles' = LocalFiles
    BY Unmoved
<1>1. FilesAsLocal'
    BY <1>0 DEF FilesAsLocal
<1>2. \A s : Broken(s)' = Broken(s)
    BY DEF Broken
<1>3. OutputAsLocal'
    BY <1>0, <1>2 DEF OutputAsLocal, SameLine
<1> QED
    BY <1>1, <1>3

LEMMA MsgsKept ==
    ASSUME \A i \in 1 .. Len(msgs) : MsgOK(i), args' = args, plan' = plan, msgs' = msgs,
           exec' = exec \/ exec # "done"
    PROVE  \A i \in 1 .. Len(msgs') : MsgOK(i)'
<1>0. Files' = Files
    BY Unmoved
<1>1. SUFFICES ASSUME NEW i \in 1 .. Len(msgs) PROVE MsgOK(i)'
    OBVIOUS
<1>2. MsgOK(i)
    OBVIOUS
<1> QED
    BY <1>0, <1>2 DEF MsgOK

(* A message that may be sent.                                             *)
NewOK(m) ==
    /\ m \in Msgs
    /\ m.type = "TaskDone" => plan.exists /\ m.code = plan.code
    /\ m.type = "TaskFailed" => ~plan.exists
    /\ m.type = "TaskOutput" /\ m.output = "File" => m.idx \in Files /\ m.content[1] = m.idx

LEMMA MsgsAdd ==
    ASSUME msgs \in Seq(Msgs), \A i \in 1 .. Len(msgs) : MsgOK(i), args' = args, plan' = plan, exec # "done",
           NEW m, NewOK(m), msgs' = Append(msgs, m), m.type \in {"TaskDone", "TaskFailed"} => exec' = "done"
    PROVE  msgs' \in Seq(Msgs) /\ \A i \in 1 .. Len(msgs') : MsgOK(i)'
<1>0. Files' = Files
    BY Unmoved
<1>1. PICK n \in Nat : n = Len(msgs)
    BY LenProperties
<1>2. /\ msgs' \in Seq(Msgs) /\ Len(msgs') = n + 1 /\ msgs'[n + 1] = m
      /\ \A i \in 1 .. n : msgs'[i] = msgs[i]
    BY <1>1, AppendFacts DEF NewOK
<1>3. ASSUME NEW i \in 1 .. n PROVE MsgOK(i)'
  <2>1. MsgOK(i) /\ msgs'[i] = msgs[i]
      BY <1>1, <1>2
  <2>2. msgs[i].type \notin {"TaskDone", "TaskFailed"}
      BY <2>1 DEF MsgOK
  <2> QED
      BY <1>0, <2>1, <2>2 DEF MsgOK
<1>4. MsgOK(n + 1)'
    BY <1>0, <1>2 DEF MsgOK, NewOK
<1>5. \A i \in 1 .. n + 1 : i \in 1 .. n \/ i = n + 1
    OBVIOUS
<1> QED
    BY <1>2, <1>3, <1>4, <1>5

LEMMA MsgsTail ==
    ASSUME msgs \in Seq(Msgs), msgs # <<>>, \A i \in 1 .. Len(msgs) : MsgOK(i), args' = args, plan' = plan,
           exec' = exec, msgs' = Tail(msgs)
    PROVE  msgs' \in Seq(Msgs) /\ \A i \in 1 .. Len(msgs') : MsgOK(i)'
<1>0. Files' = Files
    BY Unmoved
<1>1. PICK n \in Nat : n = Len(msgs) /\ n # 0
    BY TailFacts
<1>2. /\ msgs' \in Seq(Msgs) /\ Len(msgs') = n - 1
      /\ \A i \in 1 .. n - 1 : msgs'[i] = msgs[i + 1]
    BY <1>1, TailFacts
<1>3. ASSUME NEW i \in 1 .. n - 1 PROVE MsgOK(i)'
  <2>1. i + 1 \in 1 .. n /\ msgs'[i] = msgs[i + 1] /\ (i + 1 = n => i = n - 1) /\ MsgOK(i + 1)
      BY <1>1, <1>2
  <2>2. PICK m : m = msgs[i + 1]
      OBVIOUS
  <2>3. msgs'[i] = m
      BY <2>1, <2>2
  <2>4. /\ m.type \in {"TaskDone", "TaskFailed"} => i + 1 = n /\ exec = "done"
        /\ m.type = "TaskDone" => plan.exists /\ m.code = plan.code
        /\ m.type = "TaskFailed" => ~plan.exists
        /\ m.type = "TaskOutput" /\ m.output = "File" => m.idx \in Files /\ m.content[1] = m.idx
      BY <1>1, <2>1, <2>2 DEF MsgOK
  <2> QED
      BY <1>0, <1>2, <2>1, <2>3, <2>4 DEF MsgOK
<1> QED
    BY <1>2, <1>3

LEMMA Parts ==
    ASSUME TaskInv
    PROVE  /\ TypeOK /\ Phases /\ NextOK /\ FilesAsLocal /\ OutputAsLocal
           /\ \A i \in 1 .. Len(msgs) : MsgOK(i)
           /\ \A s \in Streams : PipeOK(s)
           /\ client # "ended" => ClientOK
           /\ msgs \in Seq(Msgs) /\ args \in CommandLines /\ OutputCount \in Nat /\ PlanOK
    BY LineFacts DEF TaskInv, TypeOK

LEMMA NextKept ==
    ASSUME NextOK, args' = args, plan' = plan, next' = next
    PROVE  NextOK'
    BY Unmoved DEF NextOK

-----------------------------------------------------------------------------
(* The steps.                                                              *)

LEMMA ClientStartsKeeps ==
    ASSUME TaskInv, ClientStarts
    PROVE  TaskInv'
<1>0. /\ TypeOK /\ Phases /\ NextOK /\ FilesAsLocal /\ OutputAsLocal /\ ClientOK
      /\ \A i \in 1 .. Len(msgs) : MsgOK(i)
      /\ \A s \in Streams : PipeOK(s)
    BY Parts DEF ClientStarts
<1>1. /\ args' = args /\ plan' = plan /\ fs' = fs /\ opened' = opened /\ seen' = seen /\ exit' = exit
      /\ exec' = exec /\ names' = names /\ next' = next /\ done' = done /\ tmp' = tmp /\ child' = child
      /\ todo' = todo /\ pipe' = pipe /\ msgs' = msgs
      /\ client' = IF KeepLocal THEN "local" ELSE "remote"
    BY DEF ClientStarts, execVars, childVars
<1>2. client' \in {"local", "remote"} /\ (client' = "remote" => ~KeepLocal)
    BY <1>1
<1>3. Files' = Files /\ OutputCount' = OutputCount /\ KeepLocal' = KeepLocal /\ PlanOK' = PlanOK
      /\ \A k : Writes(k)' = Writes(k) /\ Content(k)' = Content(k)
    BY <1>1, Unmoved
<1>4. TypeOK'
    BY <1>0, <1>1, <1>2, <1>3 DEF TypeOK
<1>5. Phases'
    BY <1>0, <1>1, <1>2, <1>3 DEF Phases, Apart, Produced, BothDone, AllWritten
<1>6. (\A s \in Streams : PipeOK(s)') /\ \A s \in Streams : Passed(s)' = Passed(s)
    BY <1>0, <1>1, PipeKept
<1>7. ClientOK'
    BY <1>0, <1>1, <1>6, ClientKept
<1>8. NextOK' /\ \A i \in 1 .. Len(msgs') : MsgOK(i)'
    BY <1>0, <1>1, NextKept, MsgsKept
<1>9. FilesAsLocal' /\ OutputAsLocal'
    BY <1>2 DEF FilesAsLocal, OutputAsLocal
<1> QED
    BY <1>4, <1>5, <1>6, <1>7, <1>8, <1>9 DEF TaskInv

LEMMA RunLocalKeeps ==
    ASSUME TaskInv, RunLocal
    PROVE  TaskInv'
<1>0. /\ TypeOK /\ Phases /\ NextOK /\ PlanOK
      /\ \A i \in 1 .. Len(msgs) : MsgOK(i)
      /\ \A s \in Streams : PipeOK(s)
    BY Parts
<1>1. /\ args' = args /\ plan' = plan /\ opened' = opened
      /\ exec' = exec /\ names' = names /\ next' = next /\ done' = done /\ tmp' = tmp /\ child' = child
      /\ todo' = todo /\ pipe' = pipe /\ msgs' = msgs
      /\ client' = "ended" /\ fs' = LocalFiles /\ seen' = plan.lines
      /\ exit' = IF plan.code = Signal THEN Panic ELSE ExitCode(plan.code)
    BY DEF RunLocal, execVars, childVars
<1>3. Files' = Files /\ OutputCount' = OutputCount /\ KeepLocal' = KeepLocal /\ PlanOK' = PlanOK
      /\ LocalFiles' = LocalFiles /\ \A k : Writes(k)' = Writes(k) /\ Content(k)' = Content(k)
    BY <1>1, Unmoved
<1>2. plan.lines \in [Streams -> Seq(LineSet)] /\ plan.code \in 0 .. 255 \cup {Signal}
    BY <1>0, PlanFacts
<1>4. TypeOK'
    BY <1>0, <1>1, <1>2, <1>3 DEF TypeOK
<1>5. Phases'
    BY <1>0, <1>1, <1>3 DEF Phases, Apart, Produced, BothDone, AllWritten
<1>6. \A s \in Streams : PipeOK(s)'
    BY <1>0, <1>1, PipeKept
<1>8. NextOK' /\ \A i \in 1 .. Len(msgs') : MsgOK(i)'
    BY <1>0, <1>1, NextKept, MsgsKept
<1>9. FilesAsLocal'
  <2>1. plan.code # Signal => exit' = plan.code
    <3>1. SUFFICES ASSUME plan.code # Signal PROVE exit' = plan.code
        OBVIOUS
    <3>2. PICK c \in 0 .. 255 : c = plan.code
        BY <1>2, <3>1
    <3>3. ExitCode(c) = c
        BY DEF ExitCode
    <3> QED
        BY <1>1, <3>1, <3>2, <3>3
  <2> QED
      BY <1>1, <1>3, <2>1 DEF FilesAsLocal
<1>10. OutputAsLocal'
    BY <1>1 DEF OutputAsLocal, SameLine
<1> QED
    BY <1>1, <1>4, <1>5, <1>6, <1>8, <1>9, <1>10 DEF TaskInv

LEMMA SentFacts ==
    ASSUME OutputCount \in Nat, PlanOK, NextOK, NEW k \in Files
    PROVE  Sent(k) \in Nat
<1>1. Size(k) \in Nat /\ k \in Nat
    BY PlanFacts DEF Files
<1>2. next[1] \in Nat /\ next[2] - 1 \in Nat
    BY DEF NextOK
<1> QED
    BY <1>1, <1>2 DEF Sent

LEMMA GotFacts ==
    ASSUME ClientOK, NEW k \in Files
    PROVE  Got(k) \in Nat
<1>1. fs[UserFile(k)] \in Seq(Blocks)
    BY DEF ClientOK, FileOK
<1> QED
    BY <1>1, LenProperties DEF Got

(* A message more.                                                         *)
LEMMA ClientAppend ==
    ASSUME TypeOK, NextOK, OutputCount \in Nat, \A s \in Streams : PipeOK(s), ClientOK,
           args' = args, plan' = plan, fs' = fs, opened' = opened, seen' = seen,
           NEW m \in Msgs, msgs' = Append(msgs, m),
           \A s \in Streams : IF IsLine(m, s) THEN /\ m.content = AsSent(plan.lines[s][Passed(s) + 1])
                                                   /\ Passed(s)' = Passed(s) + 1
                                              ELSE Passed(s)' = Passed(s),
           \A k \in Files : IF IsBlock(m, k) THEN m.content[2] = Sent(k) + 1 /\ Sent(k)' = Sent(k) + 1
                                             ELSE Sent(k)' = Sent(k)
    PROVE  ClientOK'
<1>0. /\ Files' = Files /\ UserFiles' = UserFiles /\ PlanOK /\ msgs \in Seq(Msgs)
      /\ \A k : UserFile(k)' = UserFile(k)
    BY Unmoved DEF TypeOK
<1>1. fs' \in [UserFiles' -> Seq(Blocks)]
    BY <1>0 DEF ClientOK
<1>2. ASSUME NEW s \in Streams PROVE SeenOK(s)'
  <2>1. SeenOK(s)
      BY DEF ClientOK
  <2>2. Len(seen[s]) \in Nat /\ Passed(s) \in Nat
      BY StreamFacts
  <2>3. /\ IsLine(m, s) /\ m.content = AsSent(plan.lines[s][Passed(s) + 1]) =>
              Lined(Append(msgs, m), s, plan.lines[s], Len(seen[s]), Passed(s) + 1)
        /\ ~IsLine(m, s) => Lined(Append(msgs, m), s, plan.lines[s], Len(seen[s]), Passed(s))
      BY <1>0, <2>1, <2>2, LinedAppend DEF SeenOK
  <2>4. Lined(Append(msgs, m), s, plan.lines[s], Len(seen[s]), Passed(s)')
      BY <2>3
  <2> QED
      BY <2>1, <2>4 DEF SeenOK
<1>3. ASSUME NEW k \in Files PROVE FileOK(k)'
  <2>1. FileOK(k)
      BY DEF ClientOK
  <2>2. Sent(k) \in Nat /\ Got(k) \in Nat
      BY <1>0, SentFacts, GotFacts
  <2>3. Got(k)' = Got(k)
      BY <1>0 DEF Got
  <2>4. /\ IsBlock(m, k) /\ m.content[2] = Sent(k) + 1 => Filed(Append(msgs, m), k, Got(k), Sent(k) + 1)
        /\ ~IsBlock(m, k) => Filed(Append(msgs, m), k, Got(k), Sent(k))
      BY <1>0, <2>1, <2>2, FiledAppend DEF FileOK
  <2>5. Filed(Append(msgs, m), k, Got(k), Sent(k)')
      BY <2>4
  <2>6. UserFile(k)' = UserFile(k)
      BY <1>0
  <2> QED
      BY <2>1, <2>3, <2>5, <2>6 DEF FileOK
<1> QED
    BY <1>0, <1>1, <1>2, <1>3 DEF ClientOK

LEMMA ExecStartsKeeps ==
    ASSUME TaskInv, ExecStarts
    PROVE  TaskInv'
<1>0. /\ TypeOK /\ Phases /\ NextOK /\ FilesAsLocal /\ OutputAsLocal /\ ClientOK
      /\ \A i \in 1 .. Len(msgs) : MsgOK(i)
      /\ \A s \in Streams : PipeOK(s)
      /\ msgs \in Seq(Msgs) /\ args \in CommandLines /\ OutputCount \in Nat
    BY Parts DEF ExecStarts
<1>1. /\ args' = args /\ plan' = plan /\ fs' = fs /\ client' = client /\ opened' = opened /\ seen' = seen
      /\ exit' = exit /\ next' = next /\ done' = done /\ tmp' = tmp /\ todo' = todo /\ pipe' = pipe
      /\ exec = "idle" /\ client = "remote"
    BY DEF ExecStarts, clientVars
<1>2. \/ /\ plan.exists /\ exec' = "streams" /\ names' = Redirect /\ child' = "running" /\ msgs' = msgs
      \/ /\ ~plan.exists /\ exec' = "done" /\ names' = names /\ child' = child
         /\ msgs' = Append(msgs, [type |-> "TaskFailed"])
    BY DEF ExecStarts
<1>3. Files' = Files /\ OutputCount' = OutputCount /\ KeepLocal' = KeepLocal /\ PlanOK' = PlanOK
      /\ \A k : Writes(k)' = Writes(k) /\ Content(k)' = Content(k)
    BY <1>1, Unmoved
<1>4. (\A s \in Streams : PipeOK(s)') /\ \A s \in Streams : Passed(s)' = Passed(s)
    BY <1>0, <1>1, PipeKept
<1>5. NextOK' /\ FilesAsLocal' /\ OutputAsLocal'
    BY <1>0, <1>1, NextKept, FinalKept
<1>6. CASE /\ plan.exists /\ exec' = "streams" /\ names' = Redirect /\ child' = "running" /\ msgs' = msgs
  <2>1. TypeOK'
      BY <1>0, <1>1, <1>3, <1>6 DEF TypeOK
  <2>2. Apart'
      BY <1>0, <1>3, <1>6, RedirectApart DEF Apart
  <2>3. child = "none" /\ DOMAIN tmp = {} /\ next = <<1, 1>> /\ (client = "remote" => ~KeepLocal)
      BY <1>0, <1>1 DEF Phases
  <2>4. Phases'
      BY <1>1, <1>3, <1>6, <2>2, <2>3 DEF Phases
  <2>5. ClientOK'
      BY <1>0, <1>1, <1>4, <1>6, ClientKept
  <2>6. \A i \in 1 .. Len(msgs') : MsgOK(i)'
      BY <1>0, <1>1, <1>6, MsgsKept
  <2> QED
      BY <1>4, <1>5, <2>1, <2>4, <2>5, <2>6 DEF TaskInv
<1>7. CASE /\ ~plan.exists /\ exec' = "done" /\ names' = names /\ child' = child
           /\ msgs' = Append(msgs, [type |-> "TaskFailed"])
  <2>0. PICK m : m = [type |-> "TaskFailed"]
      OBVIOUS
  <2>1. m \in Msgs /\ m.type = "TaskFailed" /\ \A s : ~IsLine(m, s) /\ ~IsBlock(m, s)
      BY <2>0 DEF Msgs, IsLine, IsBlock
  <2>2. NewOK(m)
      BY <1>7, <2>1 DEF NewOK
  <2>3. msgs' \in Seq(Msgs) /\ \A i \in 1 .. Len(msgs') : MsgOK(i)'
      BY <1>0, <1>1, <1>7, <2>0, <2>2, MsgsAdd
  <2>4. TypeOK'
      BY <1>0, <1>1, <1>3, <1>7, <2>3 DEF TypeOK
  <2>5. child = "none" /\ DOMAIN tmp = {} /\ (client = "remote" => ~KeepLocal)
      BY <1>0, <1>1 DEF Phases
  <2>6. Phases'
      BY <1>1, <1>3, <1>7, <2>5 DEF Phases
  <2>7. \A k \in Files : Sent(k)' = Sent(k)
      BY <1>1, Unmoved DEF Sent
  <2>8. ClientOK'
      BY <1>0, <1>1, <1>4, <1>7, <2>0, <2>1, <2>7, ClientAppend
  <2> QED
      BY <1>4, <1>5, <2>3, <2>4, <2>6, <2>8 DEF TaskInv
<1> QED
    BY <1>2, <1>6, <1>7

LEMMA ExecWaitsKeeps ==
    ASSUME TaskInv, ExecWaits
    PROVE  TaskInv'
<1>0. /\ TypeOK /\ Phases /\ NextOK /\ FilesAsLocal /\ OutputAsLocal /\ (client # "ended" => ClientOK)
      /\ \A i \in 1 .. Len(msgs) : MsgOK(i)
      /\ \A s \in Streams : PipeOK(s)
    BY Parts
<1>1. /\ args' = args /\ plan' = plan /\ fs' = fs /\ client' = client /\ opened' = opened /\ seen' = seen
      /\ exit' = exit /\ names' = names /\ next' = next /\ done' = done /\ tmp' = tmp /\ child' = child
      /\ todo' = todo /\ pipe' = pipe /\ msgs' = msgs
      /\ exec = "streams" /\ exec' = "files" /\ BothDone /\ child = "exited"
    BY DEF ExecWaits, clientVars, childVars
<1>3. Files' = Files /\ OutputCount' = OutputCount /\ KeepLocal' = KeepLocal /\ PlanOK' = PlanOK
      /\ \A k : Writes(k)' = Writes(k) /\ Content(k)' = Content(k)
    BY <1>1, Unmoved
<1>4. (\A s \in Streams : PipeOK(s)') /\ \A s \in Streams : Passed(s)' = Passed(s)
    BY <1>0, <1>1, PipeKept
<1>5. NextOK' /\ FilesAsLocal' /\ OutputAsLocal' /\ \A i \in 1 .. Len(msgs') : MsgOK(i)'
    BY <1>0, <1>1, NextKept, FinalKept, MsgsKept
<1>6. TypeOK'
    BY <1>0, <1>1, <1>3 DEF TypeOK
<1>7. Phases'
  <2>1. BothDone'
      BY <1>1 DEF BothDone
  <2>2. Apart' /\ Produced' /\ AllWritten' /\ plan.exists /\ (client = "remote" => ~KeepLocal)
      BY <1>0, <1>1, <1>3 DEF Phases, Apart, Produced, AllWritten
  <2> QED
      BY <1>1, <1>3, <2>1, <2>2 DEF Phases
<1>8. client' # "ended" => ClientOK'
    BY <1>0, <1>1, <1>4, ClientKept
<1> QED
    BY <1>4, <1>5, <1>6, <1>7, <1>8 DEF TaskInv

LEMMA ChildExitsKeeps ==
    ASSUME TaskInv, ChildExits
    PROVE  TaskInv'
<1>0. /\ TypeOK /\ Phases /\ NextOK /\ FilesAsLocal /\ OutputAsLocal /\ (client # "ended" => ClientOK)
      /\ \A i \in 1 .. Len(msgs) : MsgOK(i)
      /\ \A s \in Streams : PipeOK(s)
      /\ OutputCount \in Nat
    BY Parts
<1>1. /\ args' = args /\ plan' = plan /\ fs' = fs /\ client' = client /\ opened' = opened /\ seen' = seen
      /\ exit' = exit /\ exec' = exec /\ names' = names /\ next' = next /\ done' = done
      /\ todo' = todo /\ pipe' = pipe /\ msgs' = msgs
      /\ child = "running" /\ child' = "exited"
    BY DEF ChildExits, clientVars, execVars
<1>2. tmp' = After(tmp, LAMBDA k : names[k])
    BY DEF ChildExits
<1>3. Files' = Files /\ OutputCount' = OutputCount /\ KeepLocal' = KeepLocal /\ PlanOK' = PlanOK
      /\ \A k : Writes(k)' = Writes(k) /\ Content(k)' = Content(k)
    BY <1>1, Unmoved
<1>4. (\A s \in Streams : PipeOK(s)') /\ \A s \in Streams : Passed(s)' = Passed(s)
    BY <1>0, <1>1, PipeKept
<1>5. NextOK' /\ FilesAsLocal' /\ OutputAsLocal' /\ \A i \in 1 .. Len(msgs') : MsgOK(i)'
    BY <1>0, <1>1, NextKept, FinalKept, MsgsKept
<1>6. TypeOK'
    BY <1>0, <1>1, <1>3 DEF TypeOK
<1>7. Phases'
  <2>1. Apart /\ DOMAIN tmp = {}
      BY <1>0, <1>1 DEF Phases
  <2>2. PICK t : t = After(tmp, LAMBDA k : names[k])
      OBVIOUS
  <2>3. \A k \in Files : /\ names[k] \in DOMAIN t <=> Writes(k)
                         /\ Writes(k) => t[names[k]] = Content(k)
      BY <1>0, <2>1, <2>2, TmpAfter
  <2>a. tmp' = t
      BY <1>2, <2>2
  <2>4. Produced'
      BY <1>1, <1>3, <2>3, <2>a DEF Produced
  <2>5. Apart' /\ (BothDone' <=> BothDone) /\ AllWritten'
      BY <1>1, <1>3, <2>1 DEF Apart, BothDone, AllWritten, ChildExits
  <2> QED
      BY <1>0, <1>1, <1>3, <2>4, <2>5 DEF Phases
<1>8. client' # "ended" => ClientOK'
    BY <1>0, <1>1, <1>4, ClientKept
<1> QED
    BY <1>4, <1>5, <1>6, <1>7, <1>8 DEF TaskInv

LEMMA TextFacts ==
    ASSUME NEW q \in Seq(LineSet), q # <<>>
    PROVE  /\ Tail(q) \in Seq(LineSet) /\ Len(Tail(q)) = Len(q) - 1 /\ Len(q) \in Nat \ {0}
           /\ \A i \in 1 .. Len(q) - 1 : Tail(q)[i] = q[i + 1]
           /\ Head(q) = q[1] /\ Head(q) \in LineSet
    OBVIOUS

LEMMA TextAppend ==
    ASSUME NEW q \in Seq(LineSet), NEW v \in LineSet
    PROVE  /\ Append(q, v) \in Seq(LineSet) /\ Len(Append(q, v)) = Len(q) + 1 /\ Len(q) \in Nat
           /\ Append(q, v)[Len(q) + 1] = v
           /\ \A i \in 1 .. Len(q) : Append(q, v)[i] = q[i]
    BY AppendProperties, LenProperties

(* A line as it is sent.                                                   *)
LEMMA SentLine ==
    ASSUME NEW line \in LineSet
    PROVE  AsSent(line) \in LineSet /\ AsSent(line).text = line.text /\ AsSent(line).end = "lf"
    BY DEF AsSent, Line, LineSet

LEMMA ChildWritesPipe ==
    ASSUME TypeOK, NEW s \in Streams, PipeOK(s), plan' = plan, done'[s] = done[s], todo[s] # <<>>,
           pipe'[s] = Append(pipe[s], Head(todo[s])), todo'[s] = Tail(todo[s])
    PROVE  PipeOK(s)' /\ Passed(s)' = Passed(s)
<1>1. /\ pipe[s] \in Seq(LineSet) /\ todo[s] \in Seq(LineSet) /\ Len(plan.lines[s]) \in Nat
      /\ Read(s) = Len(plan.lines[s]) - Len(pipe[s]) - Len(todo[s])
    BY StreamFacts
<1>2. PICK r \in Nat, n \in Nat, m \in Nat : r = Read(s) /\ n = Len(pipe[s]) /\ m = Len(todo[s])
    BY <1>1, LenProperties DEF PipeOK
<1>3. PICK line : line = plan.lines[s]
    OBVIOUS
<1>4. /\ Len(pipe'[s]) = n + 1 /\ pipe'[s][n + 1] = todo[s][1] /\ \A i \in 1 .. n : pipe'[s][i] = pipe[s][i]
      /\ Len(todo'[s]) = m - 1 /\ m # 0 /\ \A i \in 1 .. m - 1 : todo'[s][i] = todo[s][i + 1]
    BY <1>1, <1>2, TextFacts, TextAppend
<1>5. Read(s)' = r
  <2>1. PICK l \in Nat : l = Len(plan.lines[s])
      BY <1>1
  <2>2. r = l - n - m
      BY <1>1, <1>2, <2>1
  <2>3. l - (n + 1) - (m - 1) = r
      BY <2>2
  <2>4. Len(pipe'[s]) = n + 1 /\ Len(todo'[s]) = m - 1
      BY <1>2, <1>4
  <2>5. Read(s)' = l - Len(pipe'[s]) - Len(todo'[s])
      BY <2>1 DEF Read
  <2> QED
      BY <2>3, <2>4, <2>5
<1>6. Passed(s)' = Passed(s)
    BY <1>2, <1>5 DEF Passed
<1>7. /\ \A i \in 1 .. n : pipe[s][i] = line[r + i]
      /\ \A i \in 1 .. m : todo[s][i] = line[r + n + i]
    BY <1>2, <1>3 DEF PipeOK
<1>8. \A i \in 1 .. n + 1 : pipe'[s][i] = line[r + i]
  <2>1. TAKE i \in 1 .. n + 1
  <2>2. CASE i \in 1 .. n
      BY <1>4, <1>7, <2>2
  <2>3. CASE i = n + 1
    <3>1. 1 \in 1 .. m /\ r + n + 1 = r + i
        BY <1>4, <2>3
    <3>2. todo[s][1] = line[r + n + 1]
        BY <1>7, <3>1
    <3> QED
        BY <1>4, <2>3, <3>1, <3>2
  <2>4. i \in 1 .. n \/ i = n + 1
      OBVIOUS
  <2> QED
      BY <2>2, <2>3, <2>4
<1>9. \A i \in 1 .. m - 1 : todo'[s][i] = line[r + (n + 1) + i]
  <2>1. TAKE i \in 1 .. m - 1
  <2>2. i + 1 \in 1 .. m /\ r + n + (i + 1) = r + (n + 1) + i
      BY <1>4
  <2>3. todo[s][i + 1] = line[r + n + (i + 1)]
      BY <1>7, <2>2
  <2> QED
      BY <1>4, <2>2, <2>3
<1> QED
    BY <1>2, <1>3, <1>4, <1>5, <1>6, <1>8, <1>9 DEF PipeOK

LEMMA ChildWritesKeeps ==
    ASSUME TaskInv, NEW x \in Streams, ChildWrites(x)
    PROVE  TaskInv'
<1>0. /\ TypeOK /\ Phases /\ NextOK /\ FilesAsLocal /\ OutputAsLocal /\ (client # "ended" => ClientOK)
      /\ \A i \in 1 .. Len(msgs) : MsgOK(i)
      /\ \A s \in Streams : PipeOK(s)
    BY Parts
<1>1. /\ args' = args /\ plan' = plan /\ fs' = fs /\ client' = client /\ opened' = opened /\ seen' = seen
      /\ exit' = exit /\ exec' = exec /\ names' = names /\ next' = next /\ done' = done /\ tmp' = tmp
      /\ child' = child /\ msgs' = msgs /\ child = "running" /\ todo[x] # <<>>
      /\ pipe' = [pipe EXCEPT ![x] = Append(pipe[x], Head(todo[x]))]
      /\ todo' = [todo EXCEPT ![x] = Tail(todo[x])]
    BY DEF ChildWrites, clientVars, execVars
<1>2. /\ pipe[x] \in Seq(LineSet) /\ todo[x] \in Seq(LineSet)
      /\ pipe \in [Streams -> Seq(LineSet)] /\ todo \in [Streams -> Seq(LineSet)]
    BY <1>0 DEF TypeOK
<1>3. Files' = Files /\ OutputCount' = OutputCount /\ KeepLocal' = KeepLocal /\ PlanOK' = PlanOK
      /\ \A k : Writes(k)' = Writes(k) /\ Content(k)' = Content(k)
    BY <1>1, Unmoved
<1>4. /\ pipe'[x] = Append(pipe[x], Head(todo[x])) /\ todo'[x] = Tail(todo[x])
      /\ \A s \in Streams : s # x => pipe'[s] = pipe[s] /\ todo'[s] = todo[s]
    BY <1>1, <1>2
<1>5. ASSUME NEW s \in Streams PROVE PipeOK(s)' /\ Passed(s)' = Passed(s)
  <2>1. CASE s = x
      BY <1>0, <1>1, <1>4, <2>1, ChildWritesPipe
  <2>2. CASE s # x
      BY <1>0, <1>1, <1>4, <2>2, PipeKept
  <2> QED
      BY <2>1, <2>2
<1>6. TypeOK'
  <2>1. pipe'[x] \in Seq(LineSet) /\ todo'[x] \in Seq(LineSet)
      BY <1>1, <1>2, <1>4, TextFacts, TextAppend
  <2>2. pipe' \in [Streams -> Seq(LineSet)] /\ todo' \in [Streams -> Seq(LineSet)]
      BY <1>1, <1>2, <1>4, <2>1
  <2> QED
      BY <1>0, <1>1, <1>3, <2>2 DEF TypeOK
<1>7. Phases'
    BY <1>0, <1>1, <1>3 DEF Phases, Apart, BothDone
<1>8. NextOK' /\ FilesAsLocal' /\ OutputAsLocal' /\ \A i \in 1 .. Len(msgs') : MsgOK(i)'
    BY <1>0, <1>1, NextKept, FinalKept, MsgsKept
<1>9. client' # "ended" => ClientOK'
    BY <1>0, <1>1, <1>5, ClientKept
<1> QED
    BY <1>5, <1>6, <1>7, <1>8, <1>9 DEF TaskInv

(* A line is read.                                                         *)
LEMMA ReadPipe ==
    ASSUME TypeOK, NEW s \in Streams, PipeOK(s), plan' = plan, pipe[s] # <<>>, ~done[s],
           pipe'[s] = Tail(pipe[s]), todo'[s] = todo[s], done'[s] = ~Utf8(Head(pipe[s]))
    PROVE  /\ PipeOK(s)'
           /\ Passed(s)' = IF Utf8(Head(pipe[s])) THEN Passed(s) + 1 ELSE Passed(s)
           /\ Head(pipe[s]) = plan.lines[s][Passed(s) + 1]
<1>1. /\ pipe[s] \in Seq(LineSet) /\ todo[s] \in Seq(LineSet) /\ Len(plan.lines[s]) \in Nat
      /\ Read(s) = Len(plan.lines[s]) - Len(pipe[s]) - Len(todo[s])
    BY StreamFacts
<1>2. PICK r \in Nat, n \in Nat, m \in Nat : r = Read(s) /\ n = Len(pipe[s]) /\ m = Len(todo[s])
    BY <1>1, LenProperties DEF PipeOK
<1>3. PICK line : line = plan.lines[s]
    OBVIOUS
<1>4. /\ Len(pipe'[s]) = n - 1 /\ n # 0 /\ Head(pipe[s]) = pipe[s][1]
      /\ \A i \in 1 .. n - 1 : pipe'[s][i] = pipe[s][i + 1]
    BY <1>1, <1>2, TextFacts
<1>5. Read(s)' = r + 1
  <2>1. PICK l \in Nat : l = Len(plan.lines[s])
      BY <1>1
  <2>2. r = l - n - m
      BY <1>1, <1>2, <2>1
  <2>3. l - (n - 1) - m = r + 1
      BY <2>2
  <2>4. Len(pipe'[s]) = n - 1 /\ Len(todo'[s]) = m
      BY <1>2, <1>4
  <2>5. Read(s)' = l - Len(pipe'[s]) - Len(todo'[s])
      BY <2>1 DEF Read
  <2> QED
      BY <2>3, <2>4, <2>5
<1>6. /\ \A i \in 1 .. n : pipe[s][i] = line[r + i]
      /\ \A i \in 1 .. m : todo[s][i] = line[r + n + i]
      /\ \A i \in 1 .. r : Utf8(line[i])
      /\ Passed(s) = r
    BY <1>2, <1>3 DEF PipeOK
<1>7. Head(pipe[s]) = line[r + 1]
  <2>1. 1 \in 1 .. n
      BY <1>4
  <2> QED
      BY <1>4, <1>6, <2>1
<1>8. Passed(s)' = IF Utf8(line[r + 1]) THEN r + 1 ELSE r
  <2>1. r + 1 > 0 /\ (r + 1) - 1 = r
      OBVIOUS
  <2>2. Passed(s)' = IF r + 1 > 0 /\ ~Utf8(line[r + 1]) THEN (r + 1) - 1 ELSE r + 1
      BY <1>3, <1>5 DEF Passed
  <2> QED
      BY <2>1, <2>2
<1>9. \A i \in 1 .. n - 1 : pipe'[s][i] = line[(r + 1) + i]
  <2>1. TAKE i \in 1 .. n - 1
  <2>2. i + 1 \in 1 .. n /\ r + (i + 1) = (r + 1) + i
      BY <1>4
  <2>3. pipe[s][i + 1] = line[r + (i + 1)]
      BY <1>6, <2>2
  <2> QED
      BY <1>4, <2>2, <2>3
<1>10. \A i \in 1 .. m : todo'[s][i] = line[(r + 1) + (n - 1) + i]
  <2>1. TAKE i \in 1 .. m
  <2>2. (r + 1) + (n - 1) + i = r + n + i
      OBVIOUS
  <2> QED
      BY <1>6, <2>2
<1>11. \A i \in 1 .. Passed(s)' : Utf8(line[i])
  <2>1. CASE Utf8(line[r + 1])
    <3>1. \A i \in 1 .. r + 1 : i \in 1 .. r \/ i = r + 1
        OBVIOUS
    <3> QED
        BY <1>6, <1>8, <2>1, <3>1
  <2>2. CASE ~Utf8(line[r + 1])
      BY <1>6, <1>8, <2>2
  <2> QED
      BY <2>1, <2>2
<1>12. /\ ~done'[s] => Passed(s)' = r + 1
       /\ done'[s] => Passed(s)' < r + 1
  <2>1. done'[s] <=> ~Utf8(line[r + 1])
      BY <1>7
  <2>2. r < r + 1
      OBVIOUS
  <2>3. CASE Utf8(line[r + 1])
      BY <1>8, <2>1, <2>3
  <2>4. CASE ~Utf8(line[r + 1])
      BY <1>8, <2>1, <2>2, <2>4
  <2> QED
      BY <2>3, <2>4
<1>13. Read(s)' \in Nat
    BY <1>5
<1>14. PipeOK(s)'
  <2>1. Len(pipe'[s]) = n - 1 /\ Len(todo'[s]) = m /\ plan'.lines[s] = line
      BY <1>2, <1>3, <1>4
  <2>2. \A i \in 1 .. Len(pipe'[s]) : pipe'[s][i] = plan'.lines[s][Read(s)' + i]
      BY <1>5, <1>9, <2>1
  <2>3. \A i \in 1 .. Len(todo'[s]) : todo'[s][i] = plan'.lines[s][Read(s)' + Len(pipe'[s]) + i]
      BY <1>5, <1>10, <2>1
  <2>4. \A i \in 1 .. Passed(s)' : Utf8(plan'.lines[s][i])
      BY <1>11, <2>1
  <2>5. /\ ~done'[s] => Passed(s)' = Read(s)'
        /\ done'[s] => Passed(s)' < Read(s)'
      BY <1>5, <1>12
  <2> QED
      BY <1>13, <2>2, <2>3, <2>4, <2>5 DEF PipeOK
<1> QED
    BY <1>3, <1>6, <1>7, <1>8, <1>14

(* The stream ends.                                                        *)
LEMMA EndPipe ==
    ASSUME TypeOK, NEW s \in Streams, PipeOK(s), plan' = plan, pipe[s] = <<>>, todo[s] = <<>>, ~done[s],
           pipe'[s] = pipe[s], todo'[s] = todo[s], done'[s] = TRUE
    PROVE  PipeOK(s)' /\ Passed(s)' = Passed(s)
<1>1. Read(s) = Len(plan.lines[s]) - Len(pipe[s]) - Len(todo[s]) /\ Len(plan.lines[s]) \in Nat
    BY StreamFacts
<1>2. Len(pipe[s]) = 0 /\ Len(todo[s]) = 0
    OBVIOUS
<1>3. Read(s) = Len(plan.lines[s])
    BY <1>1, <1>2
<1>4. Read(s)' = Read(s)
    BY DEF Read
<1>5. Passed(s)' = Passed(s)
    BY <1>4 DEF Passed
<1> QED
    BY <1>3, <1>4, <1>5 DEF PipeOK

LEMMA ReadLineKeeps ==
    ASSUME TaskInv, NEW x \in Streams, ReadLine(x)
    PROVE  TaskInv'
<1>0. /\ TypeOK /\ Phases /\ NextOK /\ FilesAsLocal /\ OutputAsLocal /\ (client # "ended" => ClientOK)
      /\ \A i \in 1 .. Len(msgs) : MsgOK(i)
      /\ \A s \in Streams : PipeOK(s)
      /\ msgs \in Seq(Msgs) /\ OutputCount \in Nat
    BY Parts
<1>1. /\ args' = args /\ plan' = plan /\ fs' = fs /\ client' = client /\ opened' = opened /\ seen' = seen
      /\ exit' = exit /\ exec' = exec /\ names' = names /\ next' = next /\ tmp' = tmp
      /\ child' = child /\ todo' = todo /\ exec = "streams" /\ ~done[x]
    BY DEF ReadLine, clientVars, childVars
<1>2. /\ pipe[x] \in Seq(LineSet)
      /\ pipe \in [Streams -> Seq(LineSet)] /\ done \in [Streams -> BOOLEAN]
    BY <1>0 DEF TypeOK
<1>3. Files' = Files /\ OutputCount' = OutputCount /\ KeepLocal' = KeepLocal /\ PlanOK' = PlanOK
      /\ \A k : Writes(k)' = Writes(k) /\ Content(k)' = Content(k)
    BY <1>1, Unmoved
<1>4. Phases'
    BY <1>0, <1>1, <1>3 DEF Phases, Apart, Produced, AllWritten
<1>5. NextOK' /\ FilesAsLocal' /\ OutputAsLocal'
    BY <1>0, <1>1, NextKept, FinalKept
<1>6. \A k \in Files : Sent(k)' = Sent(k)
    BY <1>1, Unmoved DEF Sent
<1>7. CASE /\ pipe[x] # <<>> /\ Utf8(Head(pipe[x]))
           /\ msgs' = Append(msgs, [type |-> "TaskOutput", output |-> x, content |-> AsSent(Head(pipe[x]))])
           /\ pipe' = [pipe EXCEPT ![x] = Tail(pipe[x])]
           /\ done' = done
  <2>a. PICK sent \in LineSet : sent = AsSent(Head(pipe[x]))
      BY <1>2, <1>7, TextFacts, SentLine
  <2>0. PICK m : m = [type |-> "TaskOutput", output |-> x, content |-> sent]
      OBVIOUS
  <2>1. /\ m \in Msgs /\ m.type = "TaskOutput" /\ m.output = x /\ m.output # "File" /\ m.content = sent
      BY <2>0 DEF Msgs, StreamMsgs, Streams
  <2>2. /\ \A s : IsLine(m, s) <=> s = x
        /\ \A k : ~IsBlock(m, k)
      BY <2>1 DEF IsLine, IsBlock
  <2>3. NewOK(m)
      BY <2>1 DEF NewOK
  <2>4. msgs' = Append(msgs, m)
      BY <1>7, <2>0, <2>a
  <2>5. msgs' \in Seq(Msgs) /\ \A i \in 1 .. Len(msgs') : MsgOK(i)'
      BY <1>0, <1>1, <2>1, <2>3, <2>4, MsgsAdd
  <2>6. pipe'[x] = Tail(pipe[x]) /\ \A s \in Streams : s # x => pipe'[s] = pipe[s]
      BY <1>2, <1>7
  <2>7. ASSUME NEW s \in Streams
        PROVE  /\ PipeOK(s)'
               /\ IF IsLine(m, s) THEN m.content = AsSent(plan.lines[s][Passed(s) + 1]) /\ Passed(s)' = Passed(s) + 1
                                  ELSE Passed(s)' = Passed(s)
    <3>1. CASE s = x
      <4>1. done'[x] = ~Utf8(Head(pipe[x]))
          BY <1>1, <1>2, <1>7
      <4>2. PipeOK(x)' /\ Passed(x)' = Passed(x) + 1 /\ Head(pipe[x]) = plan.lines[x][Passed(x) + 1]
          BY <1>0, <1>1, <1>7, <2>6, <4>1, ReadPipe
      <4> QED
          BY <2>1, <2>2, <2>a, <3>1, <4>2
    <3>2. CASE s # x
      <4>1. PipeOK(s)' /\ Passed(s)' = Passed(s)
          BY <1>0, <1>1, <1>7, <2>6, <3>2, PipeKept
      <4> QED
          BY <2>2, <3>2, <4>1
    <3> QED
        BY <3>1, <3>2
  <2>8. pipe' \in [Streams -> Seq(LineSet)]
    <3>1. Tail(pipe[x]) \in Seq(LineSet)
        BY <1>2, <1>7, TextFacts
    <3> QED
        BY <1>2, <1>7, <3>1
  <2>9. TypeOK'
      BY <1>0, <1>1, <1>3, <1>7, <2>5, <2>8 DEF TypeOK
  <2>10. client # "ended" => ClientOK'
      BY <1>0, <1>1, <1>6, <2>1, <2>2, <2>4, <2>7, ClientAppend
  <2> QED
      BY <1>1, <1>4, <1>5, <2>5, <2>7, <2>9, <2>10 DEF TaskInv
<1>8. CASE /\ pipe[x] # <<>> /\ ~Utf8(Head(pipe[x]))
           /\ done' = [done EXCEPT ![x] = TRUE]
           /\ pipe' = [pipe EXCEPT ![x] = Tail(pipe[x])]
           /\ msgs' = msgs
  <2>1. /\ pipe'[x] = Tail(pipe[x]) /\ \A s \in Streams : s # x => pipe'[s] = pipe[s] /\ done'[s] = done[s]
        /\ done'[x] = ~Utf8(Head(pipe[x]))
      BY <1>2, <1>8
  <2>2. ASSUME NEW s \in Streams PROVE PipeOK(s)' /\ Passed(s)' = Passed(s)
    <3>1. CASE s = x
        BY <1>0, <1>1, <1>8, <2>1, <3>1, ReadPipe
    <3>2. CASE s # x
        BY <1>0, <1>1, <2>1, <3>2, PipeKept
    <3> QED
        BY <3>1, <3>2
  <2>3. pipe' \in [Streams -> Seq(LineSet)] /\ done' \in [Streams -> BOOLEAN]
    <3>1. Tail(pipe[x]) \in Seq(LineSet)
        BY <1>2, <1>8, TextFacts
    <3> QED
        BY <1>2, <1>8, <3>1
  <2>4. TypeOK'
      BY <1>0, <1>1, <1>3, <1>8, <2>3 DEF TypeOK
  <2>5. client # "ended" => ClientOK'
      BY <1>0, <1>1, <1>8, <2>2, ClientKept
  <2>6. \A i \in 1 .. Len(msgs') : MsgOK(i)'
      BY <1>0, <1>1, <1>8, MsgsKept
  <2> QED
      BY <1>1, <1>4, <1>5, <2>2, <2>4, <2>5, <2>6 DEF TaskInv
<1>9. CASE /\ pipe[x] = <<>> /\ child = "exited"
           /\ done' = [done EXCEPT ![x] = TRUE]
           /\ msgs' = msgs /\ pipe' = pipe
  <2>1. /\ \A s \in Streams : s # x => done'[s] = done[s]
        /\ done'[x] = TRUE /\ todo[x] = <<>>
      BY <1>0, <1>2, <1>9 DEF Phases, AllWritten
  <2>2. ASSUME NEW s \in Streams PROVE PipeOK(s)' /\ Passed(s)' = Passed(s)
    <3>1. CASE s = x
        BY <1>0, <1>1, <1>9, <2>1, <3>1, EndPipe
    <3>2. CASE s # x
        BY <1>0, <1>1, <1>9, <2>1, <3>2, PipeKept
    <3> QED
        BY <3>1, <3>2
  <2>3. done' \in [Streams -> BOOLEAN]
      BY <1>2, <1>9
  <2>4. TypeOK'
      BY <1>0, <1>1, <1>3, <1>9, <2>3 DEF TypeOK
  <2>5. client # "ended" => ClientOK'
      BY <1>0, <1>1, <1>9, <2>2, ClientKept
  <2>6. \A i \in 1 .. Len(msgs') : MsgOK(i)'
      BY <1>0, <1>1, <1>9, MsgsKept
  <2> QED
      BY <1>1, <1>4, <1>5, <2>2, <2>4, <2>5, <2>6 DEF TaskInv
<1> QED
    BY <1>7, <1>8, <1>9 DEF ReadLine, NextLine, Utf8

LEMMA SendDoneKeeps ==
    ASSUME TaskInv, SendDone
    PROVE  TaskInv'
<1>0. /\ TypeOK /\ Phases /\ NextOK /\ FilesAsLocal /\ OutputAsLocal /\ (client # "ended" => ClientOK)
      /\ \A i \in 1 .. Len(msgs) : MsgOK(i)
      /\ \A s \in Streams : PipeOK(s)
      /\ msgs \in Seq(Msgs) /\ OutputCount \in Nat /\ PlanOK
    BY Parts
<1>1. /\ args' = args /\ plan' = plan /\ fs' = fs /\ client' = client /\ opened' = opened /\ seen' = seen
      /\ exit' = exit /\ names' = names /\ next' = next /\ done' = done /\ tmp' = tmp
      /\ child' = child /\ todo' = todo /\ pipe' = pipe
      /\ exec = "files" /\ exec' = "done" /\ next[1] > OutputCount
      /\ msgs' = Append(msgs, [type |-> "TaskDone", code |-> plan.code])
    BY DEF SendDone, clientVars, childVars
<1>2. plan.exists /\ BothDone /\ child = "exited" /\ plan.code \in ExitCodes
    BY <1>0, <1>1 DEF Phases, PlanOK
<1>3. Files' = Files /\ OutputCount' = OutputCount /\ KeepLocal' = KeepLocal /\ PlanOK' = PlanOK
      /\ \A k : Writes(k)' = Writes(k) /\ Content(k)' = Content(k)
    BY <1>1, Unmoved
<1>4. NextOK' /\ FilesAsLocal' /\ OutputAsLocal'
    BY <1>0, <1>1, NextKept, FinalKept
<1>5. (\A s \in Streams : PipeOK(s)') /\ \A s \in Streams : Passed(s)' = Passed(s)
    BY <1>0, <1>1, PipeKept
<1>6. \A k \in Files : Sent(k)' = Sent(k)
    BY <1>1, Unmoved DEF Sent
<1>7. PICK m : m = [type |-> "TaskDone", code |-> plan.code]
    OBVIOUS
<1>8. /\ m \in Msgs /\ m.type = "TaskDone" /\ m.code = plan.code
      /\ \A s : ~IsLine(m, s) /\ ~IsBlock(m, s)
    BY <1>2, <1>7 DEF Msgs, IsLine, IsBlock
<1>9. NewOK(m)
    BY <1>2, <1>8 DEF NewOK
<1>10. msgs' \in Seq(Msgs) /\ \A i \in 1 .. Len(msgs') : MsgOK(i)'
    BY <1>0, <1>1, <1>7, <1>9, MsgsAdd
<1>11. TypeOK'
    BY <1>0, <1>1, <1>3, <1>10 DEF TypeOK
<1>12. next[1] = OutputCount + 1
    BY <1>0, <1>1 DEF NextOK
<1>13. Phases'
  <2>1. Apart' /\ Produced' /\ AllWritten' /\ BothDone' /\ (client = "remote" => ~KeepLocal)
      BY <1>0, <1>1, <1>2, <1>3 DEF Phases, Apart, Produced, AllWritten, BothDone
  <2> QED
      BY <1>1, <1>2, <1>3, <1>12, <2>1 DEF Phases
<1>14. client # "ended" => ClientOK'
    BY <1>0, <1>1, <1>5, <1>6, <1>7, <1>8, ClientAppend
<1> QED
    BY <1>1, <1>4, <1>5, <1>10, <1>11, <1>13, <1>14 DEF TaskInv

LEMMA SendBlockKeeps ==
    ASSUME TaskInv, SendBlock
    PROVE  TaskInv'
<1>0. /\ TypeOK /\ Phases /\ NextOK /\ FilesAsLocal /\ OutputAsLocal /\ (client # "ended" => ClientOK)
      /\ \A i \in 1 .. Len(msgs) : MsgOK(i)
      /\ \A s \in Streams : PipeOK(s)
      /\ msgs \in Seq(Msgs) /\ OutputCount \in Nat /\ PlanOK
    BY Parts
<1>1. /\ args' = args /\ plan' = plan /\ fs' = fs /\ client' = client /\ opened' = opened /\ seen' = seen
      /\ exit' = exit /\ exec' = exec /\ names' = names /\ done' = done /\ tmp' = tmp
      /\ child' = child /\ todo' = todo /\ pipe' = pipe
      /\ exec = "files" /\ next[1] <= OutputCount
    BY DEF SendBlock, clientVars, childVars
<1>2. PICK k \in Files, b \in Nat \ {0} : k = next[1] /\ b = next[2] /\ b <= Size(k) + 1
    BY <1>0, <1>1 DEF NextOK, Files
<1>3. PICK file : file = IF names[k] \in DOMAIN tmp THEN tmp[names[k]] ELSE <<>>
    OBVIOUS
<1>4. \/ /\ b <= Len(file)
         /\ msgs' = Append(msgs, [type |-> "TaskOutput", output |-> "File", idx |-> k, content |-> file[b]])
         /\ next' = <<k, b + 1>>
      \/ b > Len(file) /\ next' = <<k + 1, 1>> /\ msgs' = msgs
    BY <1>2, <1>3 DEF SendBlock
<1>5. PICK n \in Nat : n = Size(k)
    BY <1>0, PlanFacts
<1>6. Len(file) = n /\ \A i \in 1 .. n : file[i] = <<k, i>>
  <2>1. /\ names[k] \in DOMAIN tmp <=> Writes(k)
        /\ Writes(k) => tmp[names[k]] = Content(k)
      BY <1>0, <1>1 DEF Phases, Produced
  <2>2. CASE Writes(k)
    <3>1. file = [i \in 1 .. n |-> <<k, i>>]
        BY <1>0, <1>3, <1>5, <2>1, <2>2, PlanFacts
    <3> QED
        BY <3>1
  <2>3. CASE ~Writes(k)
      BY <1>3, <1>5, <2>1, <2>3 DEF Size
  <2> QED
      BY <2>2, <2>3
<1>7. /\ Files' = Files /\ OutputCount' = OutputCount /\ KeepLocal' = KeepLocal /\ PlanOK' = PlanOK
      /\ \A l : Writes(l)' = Writes(l) /\ Content(l)' = Content(l) /\ Size(l)' = Size(l)
    BY <1>1, Unmoved
<1>8. FilesAsLocal' /\ OutputAsLocal'
    BY <1>0, <1>1, FinalKept
<1>9. (\A s \in Streams : PipeOK(s)') /\ \A s \in Streams : Passed(s)' = Passed(s)
    BY <1>0, <1>1, PipeKept
<1>10. Phases'
    BY <1>0, <1>1, <1>7 DEF Phases, Apart, Produced, AllWritten, BothDone
<1>11. k \in Nat /\ k >= 1 /\ k <= OutputCount /\ \A l \in Files : l \in Nat
    BY <1>0 DEF Files
<1>12. CASE /\ b <= Len(file)
            /\ msgs' = Append(msgs, [type |-> "TaskOutput", output |-> "File", idx |-> k, content |-> file[b]])
            /\ next' = <<k, b + 1>>
  <2>1. file[b] = <<k, b>> /\ b <= n
      BY <1>6, <1>12
  <2>2. PICK m : m = [type |-> "TaskOutput", output |-> "File", idx |-> k, content |-> <<k, b>>]
      OBVIOUS
  <2>3. m \in Msgs /\ m.type = "TaskOutput" /\ m.output = "File" /\ m.idx = k /\ m.content = <<k, b>>
      BY <1>11, <2>2 DEF Msgs, FileMsgs, Blocks
  <2>4. /\ m.content[1] = k /\ m.content[2] = b
        /\ \A s \in Streams : ~IsLine(m, s)
        /\ \A l : IsBlock(m, l) <=> l = k
      BY <2>3 DEF IsLine, IsBlock, Streams
  <2>5. NewOK(m)
      BY <2>3, <2>4 DEF NewOK
  <2>6. msgs' = Append(msgs, m)
      BY <1>12, <2>1, <2>2
  <2>7. msgs' \in Seq(Msgs) /\ \A i \in 1 .. Len(msgs') : MsgOK(i)'
      BY <1>0, <1>1, <2>3, <2>5, <2>6, MsgsAdd
  <2>8. next'[1] = k /\ next'[2] = b + 1 /\ next' \in Nat \X Nat
      BY <1>11, <1>12
  <2>9. NextOK'
      BY <1>0, <1>5, <1>7, <1>11, <2>1, <2>8 DEF NextOK
  <2>10. ASSUME NEW l \in Files
         PROVE  IF IsBlock(m, l) THEN m.content[2] = Sent(l) + 1 /\ Sent(l)' = Sent(l) + 1
                                 ELSE Sent(l)' = Sent(l)
    <3>1. CASE l = k
      <4>1. Sent(k) = b - 1 /\ Sent(k)' = (b + 1) - 1
          BY <1>2, <1>11, <2>8 DEF Sent
      <4>2. (b - 1) + 1 = b /\ (b + 1) - 1 = b
          OBVIOUS
      <4> QED
          BY <2>4, <3>1, <4>1, <4>2
    <3>2. CASE l # k
      <4>1. Sent(l)' = Sent(l)
          BY <1>2, <1>7, <2>8, <3>2 DEF Sent
      <4> QED
          BY <2>4, <3>2, <4>1
    <3> QED
        BY <3>1, <3>2
  <2>11. TypeOK'
      BY <1>0, <1>1, <1>7, <2>7, <2>8 DEF TypeOK
  <2>12. \A s \in Streams : ~IsLine(m, s) /\ Passed(s)' = Passed(s)
      BY <1>9, <2>4
  <2>13. client # "ended" => ClientOK'
      BY <1>0, <1>1, <2>3, <2>6, <2>10, <2>12, ClientAppend
  <2> QED
      BY <1>1, <1>8, <1>9, <1>10, <2>7, <2>9, <2>11, <2>13 DEF TaskInv
<1>13. CASE b > Len(file) /\ next' = <<k + 1, 1>> /\ msgs' = msgs
  <2>1. b = n + 1
      BY <1>2, <1>5, <1>6, <1>13
  <2>2. next'[1] = k + 1 /\ next'[2] = 1 /\ next' \in Nat \X Nat
      BY <1>11, <1>13
  <2>3. NextOK'
    <3>1. k + 1 \in 1 .. OutputCount + 1
        BY <1>0, <1>11
    <3>2. k + 1 \in Files => Size(k + 1) \in Nat
        BY <1>0, PlanFacts
    <3>3. k + 1 \in Files => 1 <= Size(k + 1) + 1
        BY <3>2
    <3> QED
        BY <1>7, <2>2, <3>1, <3>3 DEF NextOK
  <2>4. ASSUME NEW l \in Files PROVE Sent(l)' = Sent(l)
    <3>1. l \in Nat /\ Sent(l)' = IF l < k + 1 THEN Size(l) ELSE IF l = k + 1 THEN 1 - 1 ELSE 0
        BY <1>7, <1>11, <2>2 DEF Sent
    <3>2. Sent(l) = IF l < k THEN Size(l) ELSE IF l = k THEN b - 1 ELSE 0
        BY <1>2 DEF Sent
    <3>3. CASE l < k
        BY <1>11, <3>1, <3>2, <3>3
    <3>4. CASE l = k
        BY <1>5, <1>11, <2>1, <3>1, <3>2, <3>4
    <3>5. CASE l > k
        BY <1>11, <3>1, <3>2, <3>5
    <3> QED
        BY <1>11, <3>1, <3>3, <3>4, <3>5
  <2>5. TypeOK'
      BY <1>0, <1>1, <1>7, <1>13, <2>2 DEF TypeOK
  <2>6. \A i \in 1 .. Len(msgs') : MsgOK(i)'
      BY <1>0, <1>1, <1>13, MsgsKept
  <2>7. client # "ended" => ClientOK'
      BY <1>0, <1>1, <1>9, <1>13, <2>4, ClientSame
  <2> QED
      BY <1>1, <1>8, <1>9, <1>10, <2>3, <2>5, <2>6, <2>7 DEF TaskInv
<1> QED
    BY <1>4, <1>12, <1>13

-----------------------------------------------------------------------------
(* The client reads.                                                       *)

LEMMA SeenTail ==
    ASSUME TypeOK, NEW s \in Streams, PipeOK(s), SeenOK(s), msgs # <<>>, msgs' = Tail(msgs), plan' = plan,
           Passed(s)' = Passed(s), IsLine(Head(msgs), s) => Head(msgs).content \in LineSet,
           seen'[s] = IF IsLine(Head(msgs), s) THEN Append(seen[s], Head(msgs).content) ELSE seen[s]
    PROVE  SeenOK(s)'
<1>0. msgs \in Seq(Msgs) /\ seen[s] \in Seq(LineSet) /\ Len(seen[s]) \in Nat /\ Passed(s) \in Nat
    BY StreamFacts DEF TypeOK
<1>1. PICK line : line = plan.lines[s]
    OBVIOUS
<1>2. PICK n \in Nat : n = Len(seen[s])
    BY <1>0
<1>3. Lined(msgs, s, line, n, Passed(s)) /\ \A i \in 1 .. n : seen[s][i] = AsSent(line[i])
    BY <1>1, <1>2 DEF SeenOK
<1>4. /\ IsLine(Head(msgs), s) => /\ Lined(Tail(msgs), s, line, n + 1, Passed(s))
                                  /\ Head(msgs).content = AsSent(line[n + 1])
      /\ ~IsLine(Head(msgs), s) => Lined(Tail(msgs), s, line, n, Passed(s))
    BY <1>0, <1>3, LinedTail
<1>5. CASE IsLine(Head(msgs), s)
  <2>1. PICK v \in LineSet : v = Head(msgs).content /\ v = AsSent(line[n + 1])
      BY <1>4, <1>5
  <2>2. seen'[s] = Append(seen[s], v)
      BY <1>5, <2>1
  <2>a. PICK old \in Seq(LineSet), new \in Seq(LineSet) : old = seen[s] /\ new = Append(old, v)
      BY <1>0, TextAppend
  <2>b. Len(new) = Len(old) + 1 /\ new[Len(old) + 1] = v /\ \A i \in 1 .. Len(old) : new[i] = old[i]
      BY <2>a, TextAppend
  <2>3. /\ Len(seen'[s]) = n + 1 /\ seen'[s][n + 1] = v
        /\ \A i \in 1 .. n : seen'[s][i] = seen[s][i]
      BY <1>2, <2>2, <2>a, <2>b
  <2>4. \A i \in 1 .. n + 1 : i \in 1 .. n \/ i = n + 1
      OBVIOUS
  <2>5. \A i \in 1 .. n + 1 : seen'[s][i] = AsSent(line[i])
      BY <1>3, <2>1, <2>3, <2>4
  <2>6. Lined(msgs', s, line, Len(seen'[s]), Passed(s)')
      BY <1>4, <1>5, <2>3
  <2> QED
      BY <1>1, <2>3, <2>5, <2>6 DEF SeenOK
<1>6. CASE ~IsLine(Head(msgs), s)
  <2>1. Lined(msgs', s, line, Len(seen'[s]), Passed(s)') /\ seen'[s] = seen[s]
      BY <1>2, <1>4, <1>6
  <2> QED
      BY <1>1, <1>2, <1>3, <2>1 DEF SeenOK
<1> QED
    BY <1>5, <1>6

(* The first n blocks of a file.                                           *)
UpToBlock(file, k, n) == file \in Seq(Blocks) /\ Len(file) = n /\ \A i \in 1 .. n : file[i] = <<k, i>>

LEMMA BlockWritten ==
    ASSUME NEW old, NEW k \in Nat, NEW b \in Nat, b > 0, UpToBlock(old, k, b - 1)
    PROVE  UpToBlock(Append(old, <<k, b>>), k, b)
<1>0. old \in Seq(Blocks) /\ Len(old) = b - 1 /\ \A i \in 1 .. Len(old) : old[i] = <<k, i>>
    BY DEF UpToBlock
<1>1. PICK n \in Nat : n = Len(old)
    BY <1>0
<1>2. PICK v \in Blocks : v = <<k, b>>
    BY DEF Blocks
<1>3. /\ Append(old, v) \in Seq(Blocks) /\ Len(Append(old, v)) = n + 1 /\ Append(old, v)[n + 1] = v
      /\ \A i \in 1 .. n : Append(old, v)[i] = old[i]
    BY <1>0, <1>1, AppendProperties
<1>4. b = n + 1
    BY <1>0, <1>1
<1>5. \A i \in 1 .. n + 1 : i \in 1 .. n \/ i = n + 1
    OBVIOUS
<1>6. \A i \in 1 .. n + 1 : Append(old, v)[i] = <<k, i>>
    BY <1>0, <1>1, <1>2, <1>3, <1>4, <1>5
<1> QED
    BY <1>2, <1>3, <1>4, <1>6 DEF UpToBlock

(* A file of which the head of msgs is no block.                           *)
LEMMA FileTail ==
    ASSUME TypeOK, NextOK, OutputCount \in Nat, ClientOK, args' = args, plan' = plan, next' = next,
           msgs # <<>>, msgs' = Tail(msgs), NEW k \in Files, ~IsBlock(Head(msgs), k),
           fs'[UserFile(k)] = fs[UserFile(k)], k \in opened' <=> k \in opened
    PROVE  FileOK(k)'
<1>0. FileOK(k) /\ msgs \in Seq(Msgs) /\ PlanOK
    BY DEF ClientOK, TypeOK
<1>1. Sent(k) \in Nat /\ Got(k) \in Nat
    BY <1>0, SentFacts, GotFacts
<1>2. UserFile(k)' = UserFile(k) /\ Sent(k)' = Sent(k)
    BY Unmoved DEF Sent
<1>3. Got(k)' = Got(k)
    BY <1>2 DEF Got
<1>4. Filed(Tail(msgs), k, Got(k), Sent(k))
    BY <1>0, <1>1, FiledTail DEF FileOK
<1> QED
    BY <1>0, <1>2, <1>3, <1>4 DEF FileOK

(* The file of the block at the head of msgs.                              *)
LEMMA FileHead ==
    ASSUME TypeOK, NextOK, OutputCount \in Nat, ClientOK, args' = args, plan' = plan, next' = next,
           msgs # <<>>, msgs' = Tail(msgs), NEW k \in Files, IsBlock(Head(msgs), k),
           Head(msgs).content[1] = k, Head(msgs).content \in Blocks,
           fs'[UserFile(k)] = WriteTo(fs[UserFile(k)], k \in opened, Head(msgs).content), k \in opened'
    PROVE  FileOK(k)'
<1>0. FileOK(k) /\ msgs \in Seq(Msgs) /\ PlanOK /\ k \in Nat
    BY DEF ClientOK, TypeOK, Files
<1>1. Sent(k) \in Nat /\ Got(k) \in Nat
    BY <1>0, SentFacts, GotFacts
<1>2. UserFile(k)' = UserFile(k) /\ Sent(k)' = Sent(k)
    BY Unmoved DEF Sent
<1>3. Head(msgs).content[2] = Got(k) + 1 /\ Filed(Tail(msgs), k, Got(k) + 1, Sent(k))
    BY <1>0, <1>1, FiledTail DEF FileOK
<1>4. PICK b \in Nat : b = Got(k) + 1
    BY <1>1
<1>5. Head(msgs).content = <<k, b>>
    BY <1>3, <1>4 DEF Blocks
<1>6. PICK old \in Seq(Blocks) : /\ old = IF k \in opened THEN fs[UserFile(k)] ELSE <<>>
                                 /\ Len(old) = Got(k)
  <2>1. CASE k \in opened
      BY <1>0, <2>1 DEF FileOK, Got
  <2>2. CASE k \notin opened
    <3>1. Got(k) = 0
        BY <2>2 DEF Got
    <3>2. <<>> \in Seq(Blocks) /\ Len(<<>>) = 0
        BY EmptySeq
    <3> QED
        BY <2>2, <3>1, <3>2
  <2> QED
      BY <2>1, <2>2
<1>7. Len(old) = b - 1
    BY <1>1, <1>4, <1>6
<1>8. \A i \in 1 .. Len(old) : old[i] = <<k, i>>
  <2>1. CASE k \in opened
      BY <1>0, <1>6, <2>1 DEF FileOK
  <2>2. CASE k \notin opened
    <3>1. 1 .. Len(old) = {}
        BY <1>6, <2>2
    <3> QED
        BY <3>1
  <2> QED
      BY <2>1, <2>2
<1>9. PICK new : new = Append(old, <<k, b>>)
    OBVIOUS
<1>10. new \in Seq(Blocks) /\ Len(new) = b /\ \A i \in 1 .. b : new[i] = <<k, i>>
  <2>0. b > 0
      BY <1>1, <1>4
  <2>1. UpToBlock(old, k, b - 1)
    <3>1. \A i \in 1 .. b - 1 : old[i] = <<k, i>>
        BY <1>7, <1>8, Zenon
    <3> QED
        BY <1>6, <1>7, <3>1 DEF UpToBlock
  <2>2. UpToBlock(new, k, b)
      BY <1>0, <1>9, <2>0, <2>1, BlockWritten
  <2> QED
      BY <2>2 DEF UpToBlock
<1>11. fs'[UserFile(k)] = new
  <2>1. WriteTo(fs[UserFile(k)], k \in opened, <<k, b>>) = Append(old, <<k, b>>)
      BY <1>6 DEF WriteTo
  <2> QED
      BY <1>5, <1>9, <2>1
<1>12. Got(k)' = b
    BY <1>2, <1>10, <1>11 DEF Got
<1>13. b > 0 /\ Filed(msgs', k, b, Sent(k))
    BY <1>1, <1>3, <1>4
<1> QED
    BY <1>2, <1>10, <1>11, <1>12, <1>13 DEF FileOK

(* At the end of msgs, the client has all that was sent.                   *)
LEMMA AllRead ==
    ASSUME TaskInv, client = "remote", msgs # <<>>, Head(msgs).type = "TaskDone"
    PROVE  /\ plan.exists /\ Head(msgs).code = plan.code
           /\ \A s \in Streams : done[s] /\ Len(seen[s]) = Passed(s)
           /\ \A k \in Files : Got(k) = Size(k)
<1>0. /\ TypeOK /\ Phases /\ NextOK /\ ClientOK /\ msgs \in Seq(Msgs) /\ OutputCount \in Nat /\ PlanOK
      /\ \A i \in 1 .. Len(msgs) : MsgOK(i)
      /\ \A s \in Streams : PipeOK(s)
    BY Parts
<1>1. Head(msgs) = msgs[1] /\ 1 \in 1 .. Len(msgs)
    BY <1>0, TailFacts
<1>2. Len(msgs) = 1 /\ exec = "done" /\ plan.exists /\ Head(msgs).code = plan.code
    BY <1>0, <1>1 DEF MsgOK
<1>3. BothDone /\ next[1] = OutputCount + 1
    BY <1>0, <1>2 DEF Phases
<1>4. \A i \in 1 .. Len(msgs) : msgs[i].type = "TaskDone"
    BY <1>1, <1>2
<1>5. ASSUME NEW s \in Streams PROVE Len(seen[s]) = Passed(s)
  <2>1. OfStream(msgs, s) = {}
      BY <1>4 DEF OfStream
  <2>2. PICK at : Numbered(at, {}, Len(seen[s]), Passed(s))
      BY <1>0, <2>1 DEF ClientOK, SeenOK, Lined
  <2>3. Len(seen[s]) \in Nat /\ Passed(s) \in Nat
      BY <1>0, StreamFacts
  <2> QED
      BY <2>2, <2>3, NumberedNone
<1>6. ASSUME NEW k \in Files PROVE Got(k) = Size(k)
  <2>1. OfFile(msgs, k) = {}
      BY <1>4 DEF OfFile
  <2>2. PICK at : Numbered(at, {}, Got(k), Sent(k))
      BY <1>0, <2>1 DEF ClientOK, FileOK, Filed
  <2>3. Got(k) \in Nat /\ Sent(k) \in Nat
      BY <1>0, SentFacts, GotFacts
  <2>4. k \in Nat /\ k < OutputCount + 1
      BY <1>0 DEF Files
  <2>5. Sent(k) = Size(k)
      BY <1>3, <2>4 DEF Sent
  <2> QED
      BY <2>2, <2>3, <2>5, NumberedNone
<1> QED
    BY <1>2, <1>3, <1>5, <1>6 DEF BothDone

LEMMA LessTwo ==
    ASSUME NEW l \in Nat, NEW a \in Nat, NEW b \in Nat, NEW r, r = l - a - b
    PROVE  r <= l
    OBVIOUS

(* What the client has seen of a stream that is done.                      *)
LEMMA SeenAll ==
    ASSUME TypeOK, NEW s \in Streams, PipeOK(s), SeenOK(s), done[s], Len(seen[s]) = Passed(s), ~KeepLocal
    PROVE  /\ \/ Len(seen[s]) = Len(plan.lines[s])
              \/ \E i \in Broken(s) : Len(seen[s]) = i - 1 /\ \A j \in Broken(s) : i <= j
           /\ \A i \in 1 .. Len(seen[s]) : SameLine(seen[s][i], plan.lines[s][i])
<1>0. /\ plan.lines[s] \in Seq(LineSet)
      /\ Len(plan.lines[s]) \in Nat /\ Len(pipe[s]) \in Nat /\ Len(todo[s]) \in Nat
      /\ Read(s) = Len(plan.lines[s]) - Len(pipe[s]) - Len(todo[s])
      /\ Passed(s) \in Nat
    BY StreamFacts
<1>1. PICK line \in Seq(LineSet) : line = plan.lines[s]
    BY <1>0
<1>2. PICK r \in Nat, p \in Nat : r = Read(s) /\ p = Passed(s)
    BY <1>0 DEF PipeOK
<1>3. /\ Len(seen[s]) = p /\ \A i \in 1 .. p : Utf8(line[i])
      /\ p < r \/ r = Len(line)
    BY <1>1, <1>2 DEF PipeOK
<1>4. r <= Len(line) /\ Len(line) \in Nat
  <2>1. PICK a \in Nat, b \in Nat, l \in Nat : a = Len(pipe[s]) /\ b = Len(todo[s]) /\ l = Len(line)
      BY <1>0, <1>1
  <2>2. r = l - a - b
      BY <1>0, <1>1, <1>2, <2>1
  <2>3. r <= l
      BY <2>2, LessTwo
  <2> QED
      BY <2>1, <2>3
<1>5. p = IF r > 0 /\ ~Utf8(line[r]) THEN r - 1 ELSE r
    BY <1>1, <1>2 DEF Passed
<1>6. \/ Len(seen[s]) = Len(plan.lines[s])
      \/ \E i \in Broken(s) : Len(seen[s]) = i - 1 /\ \A j \in Broken(s) : i <= j
  <2>1. CASE p < r
    <3>1. p = r - 1 /\ r > 0 /\ ~Utf8(line[r])
        BY <1>5, <2>1
    <3>2. r \in Broken(s)
        BY <1>1, <1>4, <3>1 DEF Broken, Utf8
    <3>3. \A j \in Broken(s) : r <= j
      <4>1. TAKE j \in Broken(s)
      <4>2. j \in 1 .. Len(line) /\ ~Utf8(line[j])
          BY <1>1 DEF Broken, Utf8
      <4>3. ~(j \in 1 .. p)
          BY <1>3, <4>2
      <4> QED
          BY <3>1, <4>2, <4>3
    <3> QED
        BY <1>3, <3>1, <3>2, <3>3
  <2>2. CASE ~(p < r)
      BY <1>1, <1>3, <1>4, <1>5, <2>2
  <2> QED
      BY <2>1, <2>2
<1>7. p <= Len(line)
    BY <1>4, <1>5
<1>8. ASSUME NEW i \in 1 .. Len(seen[s]) PROVE SameLine(seen[s][i], plan.lines[s][i])
  <2>1. i \in 1 .. Len(line)
      BY <1>3, <1>4, <1>7, <1>8
  <2>2. line[i] \in LineSet
      BY <2>1
  <2>3. seen[s][i] = AsSent(line[i])
      BY <1>1, <1>8 DEF SeenOK
  <2> QED
      BY <1>1, <2>2, <2>3, SentLine DEF SameLine
<1> QED
    BY <1>6, <1>8

(* A file of which the client has every block.                             *)
AsLocal(n) == fs[n] = LocalFiles[n] \/ (LocalFiles[n] = <<>> /\ fs[n] = Old)

LEMMA FinalFiles ==
    ASSUME TypeOK, ClientOK, NEW k \in Files, Got(k) = Size(k)
    PROVE  AsLocal(UserFile(k))
<1>0. FileOK(k) /\ PlanOK /\ args \in CommandLines
    BY DEF ClientOK, TypeOK
<1>1. Size(k) \in Nat /\ (Writes(k) => Content(k) = [b \in 1 .. Size(k) |-> <<k, b>>])
    BY <1>0, PlanFacts
<1>2. LocalFiles[UserFile(k)] = IF Writes(k) THEN Content(k) ELSE Old
    BY <1>0, LocalAfter
<1>3. CASE k \in opened
  <2>1. PICK file \in Seq(Blocks) : file = fs[UserFile(k)]
      BY <1>0 DEF FileOK
  <2>2. PICK n : n = Len(file)
      OBVIOUS
  <2>3. n = Size(k) /\ n > 0 /\ \A b \in 1 .. n : file[b] = <<k, b>>
      BY <1>0, <1>3, <2>1, <2>2 DEF FileOK, Got
  <2>4. Writes(k)
      BY <2>3 DEF Size
  <2>5. file = [b \in 1 .. n |-> file[b]]
      BY <2>2
  <2>6. file = [b \in 1 .. n |-> <<k, b>>]
      BY <2>3, <2>5
  <2>7. LocalFiles[UserFile(k)] = [b \in 1 .. n |-> <<k, b>>]
      BY <1>1, <1>2, <2>3, <2>4
  <2> QED
      BY <2>1, <2>6, <2>7 DEF AsLocal
<1>4. CASE k \notin opened
  <2>1. fs[UserFile(k)] = Old /\ Size(k) = 0
      BY <1>0, <1>4 DEF FileOK, Got
  <2>2. CASE Writes(k)
    <3>1. LocalFiles[UserFile(k)] = [b \in 1 .. 0 |-> <<k, b>>]
        BY <1>1, <1>2, <2>1, <2>2
    <3>2. [b \in 1 .. 0 |-> <<k, b>>] = <<>>
        OBVIOUS
    <3> QED
        BY <2>1, <3>1, <3>2 DEF AsLocal
  <2>3. CASE ~Writes(k)
      BY <1>2, <2>1, <2>3 DEF AsLocal
  <2> QED
      BY <2>2, <2>3
<1> QED
    BY <1>3, <1>4

(* What every step of the client that takes a message leaves alone.        *)
LEMMA ReadKeeps ==
    ASSUME TaskInv, client = "remote", msgs # <<>>, msgs' = Tail(msgs),
           UNCHANGED <<args, plan, execVars, tmp, childVars, pipe>>
    PROVE  /\ msgs' \in Seq(Msgs) /\ NextOK' /\ PlanOK'
           /\ \A i \in 1 .. Len(msgs') : MsgOK(i)'
           /\ \A s \in Streams : PipeOK(s)' /\ Passed(s)' = Passed(s)
           /\ client' \in {"remote", "ended"} => Phases'
<1>0. /\ args' = args /\ plan' = plan /\ exec' = exec /\ names' = names /\ next' = next /\ done' = done
      /\ tmp' = tmp /\ child' = child /\ todo' = todo /\ pipe' = pipe
    BY DEF execVars, childVars
<1>1. /\ TypeOK /\ Phases /\ NextOK /\ msgs \in Seq(Msgs) /\ OutputCount \in Nat /\ PlanOK
      /\ \A i \in 1 .. Len(msgs) : MsgOK(i)
      /\ \A s \in Streams : PipeOK(s)
    BY Parts
<1>2. msgs' \in Seq(Msgs) /\ \A i \in 1 .. Len(msgs') : MsgOK(i)'
    BY <1>0, <1>1, MsgsTail
<1>3. NextOK'
    BY <1>0, <1>1, NextKept
<1>4. \A s \in Streams : PipeOK(s)' /\ Passed(s)' = Passed(s)
    BY <1>0, <1>1, PipeKept
<1>5. /\ OutputCount' = OutputCount /\ Files' = Files /\ KeepLocal' = KeepLocal /\ PlanOK' = PlanOK
      /\ \A k : Writes(k)' = Writes(k) /\ Content(k)' = Content(k)
    BY <1>0, Unmoved
<1>6. Apart' = Apart /\ Produced' = Produced /\ AllWritten' = AllWritten /\ BothDone' = BothDone
    BY <1>0, <1>5 DEF Apart, Produced, AllWritten, BothDone
<1>7. ASSUME client' \in {"remote", "ended"} PROVE Phases'
  <2>1. client' = "remote" => ~KeepLocal
      BY <1>1 DEF Phases
  <2> QED
      BY <1>0, <1>1, <1>5, <1>6, <2>1 DEF Phases
<1> QED
    BY <1>1, <1>2, <1>3, <1>4, <1>5, <1>7


(* The message the client takes.                                           *)
LEMMA HeadFacts ==
    ASSUME TaskInv, msgs # <<>>
    PROVE  /\ Head(msgs) \in Msgs
           /\ \A s \in Streams : IsLine(Head(msgs), s) => Head(msgs).content \in LineSet
           /\ Head(msgs).type = "TaskFailed" => ~plan.exists
           /\ Head(msgs).type = "TaskOutput" /\ Head(msgs).output = "File" =>
                 Head(msgs).idx \in Files /\ Head(msgs).content[1] = Head(msgs).idx
<1>0. msgs \in Seq(Msgs) /\ \A i \in 1 .. Len(msgs) : MsgOK(i)
    BY Parts
<1>1. Head(msgs) = msgs[1] /\ msgs[1] \in Msgs /\ 1 \in 1 .. Len(msgs)
    BY <1>0, TailFacts
<1>2. MsgOK(1)
    BY <1>0, <1>1
<1>3. \A s \in Streams : IsLine(msgs[1], s) => msgs[1].content \in LineSet
    BY <1>1 DEF IsLine, Msgs, StreamMsgs, FileMsgs, Streams
<1> QED
    BY <1>1, <1>2, <1>3 DEF MsgOK

(* A line, or a TaskDone without a code: no file is touched.               *)
LEMMA ReadLineOrNone ==
    ASSUME TaskInv, client = "remote", msgs # <<>>, msgs' = Tail(msgs),
           UNCHANGED <<args, plan, execVars, tmp, childVars, pipe, client, fs, opened>>,
           ~(Head(msgs).type = "TaskOutput" /\ Head(msgs).output = "File"),
           seen' \in [Streams -> Seq(LineSet)],
           \A s \in Streams : seen'[s] = IF IsLine(Head(msgs), s) THEN Append(seen[s], Head(msgs).content)
                                         ELSE seen[s]
    PROVE  TaskInv'
<1>0. /\ TypeOK /\ NextOK /\ ClientOK /\ OutputCount \in Nat /\ \A s \in Streams : PipeOK(s)
    BY Parts
<1>1. /\ args' = args /\ plan' = plan /\ exec' = exec /\ names' = names /\ next' = next /\ done' = done
      /\ tmp' = tmp /\ child' = child /\ todo' = todo /\ pipe' = pipe /\ client' = client /\ fs' = fs
      /\ opened' = opened
    BY DEF execVars, childVars
<1>2. /\ msgs' \in Seq(Msgs) /\ NextOK' /\ PlanOK' /\ Phases'
      /\ \A i \in 1 .. Len(msgs') : MsgOK(i)'
      /\ \A s \in Streams : PipeOK(s)' /\ Passed(s)' = Passed(s)
    BY <1>1, ReadKeeps
<1>3. Files' = Files /\ UserFiles' = UserFiles /\ \A k : UserFile(k)' = UserFile(k)
    BY <1>1, Unmoved
<1>4. TypeOK'
    BY <1>0, <1>1, <1>2, <1>3 DEF TypeOK
<1>5. ASSUME NEW s \in Streams PROVE SeenOK(s)'
  <2>1. SeenOK(s) /\ PipeOK(s) /\ Passed(s)' = Passed(s)
      BY <1>0, <1>2 DEF ClientOK
  <2>2. IsLine(Head(msgs), s) => Head(msgs).content \in LineSet
      BY HeadFacts
  <2> QED
      BY <1>0, <1>1, <2>1, <2>2, SeenTail
<1>6. ASSUME NEW k \in Files PROVE FileOK(k)'
  <2>1. ~IsBlock(Head(msgs), k)
      BY DEF IsBlock
  <2> QED
      BY <1>0, <1>1, <2>1, FileTail
<1>7. ClientOK'
    BY <1>0, <1>1, <1>3, <1>5, <1>6 DEF ClientOK
<1>8. FilesAsLocal' /\ OutputAsLocal'
    BY <1>1 DEF FilesAsLocal, OutputAsLocal
<1> QED
    BY <1>2, <1>4, <1>7, <1>8 DEF TaskInv

(* A block of a file.                                                      *)
LEMMA ReadBlock ==
    ASSUME TaskInv, client = "remote", msgs # <<>>, msgs' = Tail(msgs),
           UNCHANGED <<args, plan, execVars, tmp, childVars, pipe, client, seen>>,
           NEW m, m = Head(msgs), m.type = "TaskOutput", m.output = "File",
           fs' = [fs EXCEPT ![UserFile(m.idx)] = WriteTo(@, m.idx \in opened, m.content)],
           opened' = opened \cup {m.idx}
    PROVE  TaskInv'
<1>0. /\ TypeOK /\ NextOK /\ ClientOK /\ OutputCount \in Nat /\ args \in CommandLines
      /\ \A s \in Streams : PipeOK(s)
    BY Parts
<1>1. /\ args' = args /\ plan' = plan /\ exec' = exec /\ names' = names /\ next' = next /\ done' = done
      /\ tmp' = tmp /\ child' = child /\ todo' = todo /\ pipe' = pipe /\ client' = client /\ seen' = seen
    BY DEF execVars, childVars
<1>2. /\ msgs' \in Seq(Msgs) /\ NextOK' /\ PlanOK' /\ Phases'
      /\ \A i \in 1 .. Len(msgs') : MsgOK(i)'
      /\ \A s \in Streams : PipeOK(s)' /\ Passed(s)' = Passed(s)
    BY <1>1, ReadKeeps
<1>3. Files' = Files /\ UserFiles' = UserFiles /\ \A k : UserFile(k)' = UserFile(k)
    BY <1>1, Unmoved
<1>4. PICK k \in Files : k = m.idx /\ m.content[1] = k
    BY HeadFacts
<1>5. m \in Msgs
    BY HeadFacts
<1>6. m.content \in Blocks
    BY <1>5 DEF Msgs, StreamMsgs, FileMsgs, Streams
<1>7. fs \in [UserFiles -> Seq(Blocks)] /\ UserFile(k) \in UserFiles
    BY <1>0 DEF ClientOK, UserFiles, Files
<1>8. /\ fs' \in [UserFiles -> Seq(Blocks)]
      /\ fs'[UserFile(k)] = WriteTo(fs[UserFile(k)], k \in opened, m.content)
      /\ \A n \in UserFiles : n # UserFile(k) => fs'[n] = fs[n]
  <2>1. fs[UserFile(k)] \in Seq(Blocks) /\ <<>> \in Seq(Blocks)
      BY <1>7, EmptySeq
  <2>2. WriteTo(fs[UserFile(k)], k \in opened, m.content) \in Seq(Blocks)
    <3>1. PICK old \in Seq(Blocks) : old = IF k \in opened THEN fs[UserFile(k)] ELSE <<>>
        BY <2>1
    <3>2. Append(old, m.content) \in Seq(Blocks)
        BY <1>6, AppendProperties
    <3> QED
        BY <3>1, <3>2 DEF WriteTo
  <2>3. PICK n \in UserFiles : n = UserFile(k)
      BY <1>7
  <2>4. PICK new \in Seq(Blocks) : new = WriteTo(fs[n], k \in opened, m.content)
      BY <2>2, <2>3
  <2>5. fs' = [fs EXCEPT ![n] = new]
      BY <1>4, <2>3, <2>4
  <2>6. fs' \in [UserFiles -> Seq(Blocks)] /\ fs'[n] = new /\ \A o \in UserFiles : o # n => fs'[o] = fs[o]
      BY <1>7, <2>5
  <2> QED
      BY <2>3, <2>4, <2>6
<1>9. opened' = opened \cup {k} /\ opened' \subseteq Files
    BY <1>0, <1>4 DEF TypeOK
<1>10. TypeOK'
    BY <1>0, <1>1, <1>2, <1>3, <1>9 DEF TypeOK
<1>11. ASSUME NEW s \in Streams PROVE SeenOK(s)'
  <2>1. SeenOK(s) /\ PipeOK(s) /\ Passed(s)' = Passed(s)
      BY <1>0, <1>2 DEF ClientOK
  <2>2. ~IsLine(Head(msgs), s)
      BY DEF IsLine, Streams
  <2> QED
      BY <1>0, <1>1, <2>1, <2>2, SeenTail
<1>12. FileOK(k)'
  <2>1. IsBlock(Head(msgs), k)
      BY <1>4 DEF IsBlock
  <2>2. k \in opened'
      BY <1>9
  <2> QED
      BY <1>0, <1>1, <1>4, <1>6, <1>8, <2>1, <2>2, FileHead
<1>13. ASSUME NEW l \in Files, l # k PROVE FileOK(l)'
  <2>1. ~IsBlock(Head(msgs), l)
      BY <1>4, <1>13 DEF IsBlock
  <2>2. UserFile(l) # UserFile(k)
      BY <1>0, <1>13, UserFilesApart
  <2>3. UserFile(l) \in UserFiles
      BY DEF UserFiles, Files
  <2>4. fs'[UserFile(l)] = fs[UserFile(l)]
      BY <1>8, <2>2, <2>3
  <2>5. l \in opened' <=> l \in opened
      BY <1>9, <1>13
  <2> QED
      BY <1>0, <1>1, <2>1, <2>4, <2>5, FileTail
<1>14. \A l \in Files : FileOK(l)'
    BY <1>12, <1>13
<1>15. ClientOK'
    BY <1>3, <1>8, <1>11, <1>14 DEF ClientOK
<1>16. FilesAsLocal' /\ OutputAsLocal'
    BY <1>1 DEF FilesAsLocal, OutputAsLocal
<1> QED
    BY <1>2, <1>10, <1>15, <1>16 DEF TaskInv


(* TaskDone and TaskFailed, which end the client.                          *)
LEMMA ReadEnd ==
    ASSUME TaskInv, client = "remote", msgs # <<>>, msgs' = Tail(msgs),
           UNCHANGED <<args, plan, execVars, tmp, childVars, pipe, fs, opened, seen>>, client' = "ended",
           NEW m, m = Head(msgs),
           \/ m.type = "TaskDone" /\ m.code # Signal /\ exit' = ExitCode(m.code)
           \/ m.type = "TaskFailed"
    PROVE  TaskInv'
<1>0. /\ TypeOK /\ NextOK /\ Phases /\ ClientOK /\ OutputCount \in Nat /\ args \in CommandLines /\ PlanOK
      /\ \A s \in Streams : PipeOK(s)
    BY Parts
<1>1. /\ args' = args /\ plan' = plan /\ exec' = exec /\ names' = names /\ next' = next /\ done' = done
      /\ tmp' = tmp /\ child' = child /\ todo' = todo /\ pipe' = pipe /\ fs' = fs /\ opened' = opened
      /\ seen' = seen
    BY DEF execVars, childVars
<1>2. /\ msgs' \in Seq(Msgs) /\ NextOK' /\ PlanOK' /\ Phases'
      /\ \A i \in 1 .. Len(msgs') : MsgOK(i)'
      /\ \A s \in Streams : PipeOK(s)'
    BY <1>1, ReadKeeps
<1>3. /\ Files' = Files /\ UserFiles' = UserFiles /\ LocalFiles' = LocalFiles /\ KeepLocal' = KeepLocal
    BY <1>1, Unmoved
<1>4. TypeOK'
    BY <1>0, <1>1, <1>2, <1>3 DEF TypeOK
<1>5. FilesAsLocal' /\ OutputAsLocal'
  <2>1. CASE m.type = "TaskFailed"
    <3>1. ~plan.exists /\ ~KeepLocal
        BY <1>0, <2>1, HeadFacts DEF Phases
    <3> QED
        BY <1>1, <1>3, <3>1 DEF FilesAsLocal, OutputAsLocal
  <2>2. CASE m.type = "TaskDone" /\ m.code # Signal /\ exit' = ExitCode(m.code)
    <3>1. /\ m.code = plan.code
          /\ \A s \in Streams : done[s] /\ Len(seen[s]) = Passed(s)
          /\ \A k \in Files : Got(k) = Size(k)
        BY <2>2, AllRead
    <3>2. exit' = plan.code
      <4>1. PICK c \in 0 .. 255 : c = plan.code
          BY <1>0, <2>2, <3>1, PlanFacts
      <4>2. ExitCode(c) = c
          BY DEF ExitCode
      <4> QED
          BY <2>2, <3>1, <4>1, <4>2
    <3>3. \A k \in Files : AsLocal(UserFile(k))
        BY <1>0, <3>1, FinalFiles
    <3>4. \A n \in UserFiles : AsLocal(n)
        BY <3>3 DEF UserFiles, Files
    <3>5. FilesAsLocal'
        BY <1>1, <1>3, <3>2, <3>4 DEF FilesAsLocal, AsLocal
    <3>a. ~KeepLocal
        BY <1>0 DEF Phases
    <3>6. ASSUME NEW s \in Streams
          PROVE  /\ \/ Len(seen[s]) = Len(plan.lines[s])
                    \/ \E i \in Broken(s) : Len(seen[s]) = i - 1 /\ \A j \in Broken(s) : i <= j
                 /\ \A i \in 1 .. Len(seen[s]) : SameLine(seen[s][i], plan.lines[s][i])
      <4>1. PipeOK(s) /\ SeenOK(s) /\ done[s] /\ Len(seen[s]) = Passed(s)
          BY <1>0, <3>1 DEF ClientOK
      <4> QED
          BY <1>0, <3>a, <4>1, SeenAll
    <3>7. /\ \A s \in Streams : Broken(s)' = Broken(s)
          /\ \A shown, line : SameLine(shown, line) => SameLine(shown, line)'
        BY <1>1, <1>3 DEF Broken, SameLine
    <3>8. OutputAsLocal'
        BY <1>1, <1>3, <3>6, <3>7, <3>a DEF OutputAsLocal
    <3> QED
        BY <3>5, <3>8
  <2> QED
      BY <2>1, <2>2
<1> QED
    BY <1>2, <1>4, <1>5 DEF TaskInv

LEMMA ClientReadsKeeps ==
    ASSUME TaskInv, ClientReads
    PROVE  TaskInv'
<1>0. /\ client = "remote" /\ msgs # <<>> /\ msgs' = Tail(msgs)
      /\ UNCHANGED <<args, plan, execVars, tmp, childVars, pipe>>
    BY DEF ClientReads
<1>1. PICK m : m = Head(msgs)
    OBVIOUS
<1>2. m \in Msgs
    BY <1>0, <1>1, HeadFacts
<1>3. seen \in [Streams -> Seq(LineSet)]
    BY Parts DEF TypeOK
<1>4. CASE /\ m.type = "TaskOutput" /\ m.output # "File"
           /\ seen' = [seen EXCEPT ![m.output] = Append(@, m.content)]
           /\ UNCHANGED <<client, fs, opened, exit>>
  <2>1. m.output \in Streams /\ m.content \in LineSet
      BY <1>2, <1>4 DEF Msgs, StreamMsgs, FileMsgs
  <2>2. Append(seen[m.output], m.content) \in Seq(LineSet)
      BY <1>3, <2>1, TextAppend
  <2>3. /\ seen' \in [Streams -> Seq(LineSet)]
        /\ seen'[m.output] = Append(seen[m.output], m.content)
        /\ \A s \in Streams : s # m.output => seen'[s] = seen[s]
      BY <1>3, <1>4, <2>1, <2>2
  <2>4. \A s \in Streams : IsLine(m, s) <=> s = m.output
      BY <1>4 DEF IsLine
  <2>5. \A s \in Streams : seen'[s] = IF IsLine(m, s) THEN Append(seen[s], m.content) ELSE seen[s]
      BY <2>3, <2>4
  <2> QED
      BY <1>0, <1>1, <1>4, <2>3, <2>5, ReadLineOrNone
<1>5. CASE /\ m.type = "TaskOutput" /\ m.output = "File"
           /\ fs' = [fs EXCEPT ![UserFile(m.idx)] = WriteTo(@, m.idx \in opened, m.content)]
           /\ opened' = opened \cup {m.idx}
           /\ UNCHANGED <<client, seen, exit>>
    BY <1>0, <1>1, <1>5, ReadBlock
<1>6. CASE /\ m.type = "TaskDone" /\ m.code # Signal
           /\ client' = "ended" /\ exit' = ExitCode(m.code)
           /\ UNCHANGED <<fs, opened, seen>>
    BY <1>0, <1>1, <1>6, ReadEnd
<1>7. CASE /\ m.type = "TaskDone" /\ m.code = Signal
           /\ UNCHANGED <<client, fs, opened, seen, exit>>
  <2>1. \A s \in Streams : ~IsLine(m, s) /\ seen'[s] = seen[s]
      BY <1>7 DEF IsLine
  <2>2. seen' \in [Streams -> Seq(LineSet)]
      BY <1>3, <1>7
  <2> QED
      BY <1>0, <1>1, <1>7, <2>1, <2>2, ReadLineOrNone
<1>8. CASE /\ m.type = "TaskFailed"
           /\ client' = "ended" /\ exit' = ExitCode(-1)
           /\ UNCHANGED <<fs, opened, seen>>
    BY <1>0, <1>1, <1>8, ReadEnd
<1> QED
    BY <1>1, <1>4, <1>5, <1>6, <1>7, <1>8 DEF ClientReads

-----------------------------------------------------------------------------
(* The invariant, and the theorems.                                        *)

LEMMA TaskInitially ==
    Init => TaskInv
<1> SUFFICES ASSUME Init PROVE TaskInv
    OBVIOUS
<1>0. /\ args \in CommandLines /\ fs = [n \in UserFiles |-> Old] /\ client = "start" /\ opened = {}
      /\ seen = [s \in Streams |-> <<>>] /\ exec = "idle" /\ next = <<1, 1>> /\ tmp = [n \in {} |-> <<>>]
      /\ child = "none" /\ todo = plan.lines /\ pipe = [s \in Streams |-> <<>>]
      /\ done = [s \in Streams |-> FALSE] /\ msgs = <<>>
    BY DEF Init
<1>1. PlanOK
    BY DEF Init, PlanOK, Files
<1>2. OutputCount \in Nat
    BY <1>0, LineFacts
<1>3. plan.lines \in [Streams -> Seq(LineSet)] /\ \A k \in Files : Size(k) \in Nat
    BY <1>1, PlanFacts
<1>4. <<>> \in Seq(LineSet) /\ <<>> \in Seq(Msgs) /\ Len(<<>>) = 0 /\ Old \in Seq(Blocks)
  <2>1. <<0, 0>> \in Blocks
      BY DEF Blocks
  <2> QED
      BY <2>1 DEF Old
<1>5. TypeOK
    BY <1>0, <1>1, <1>3, <1>4 DEF TypeOK
<1>6. Phases
    BY <1>0 DEF Phases
<1>7. NextOK
  <2>1. 1 \in 1 .. OutputCount + 1 /\ 1 \in Nat \ {0}
      BY <1>2
  <2>2. 1 \in Files => 1 <= Size(1) + 1
      BY <1>3
  <2> QED
      BY <1>0, <2>1, <2>2 DEF NextOK
<1>8. 1 .. Len(msgs) = {}
    BY <1>0, <1>4
<1>9. ASSUME NEW s \in Streams PROVE Read(s) = 0 /\ PipeOK(s) /\ Passed(s) = 0
  <2>1. PICK n \in Nat : n = Len(plan.lines[s])
      BY <1>3
  <2>2. pipe[s] = <<>> /\ todo[s] = plan.lines[s] /\ ~done[s]
      BY <1>0
  <2>3. Read(s) = 0
    <3>1. Read(s) = n - 0 - n
        BY <1>4, <2>1, <2>2 DEF Read
    <3> QED
        BY <2>1, <3>1
  <2>4. Passed(s) = 0
      BY <2>3 DEF Passed
  <2>5. 1 .. Len(pipe[s]) = {} /\ 1 .. 0 = {}
      BY <1>4, <2>2
  <2>6. \A i \in 1 .. n : plan.lines[s][i] = plan.lines[s][0 + 0 + i]
      BY <2>1
  <2> QED
      BY <1>4, <2>1, <2>2, <2>3, <2>4, <2>5, <2>6 DEF PipeOK
<1>10. ASSUME NEW P, P = {}, NEW at PROVE Numbered(at, P, 0, 0)
    BY <1>10 DEF Numbered
<1>11. ASSUME NEW s \in Streams PROVE SeenOK(s)
  <2>1. seen[s] = <<>> /\ OfStream(msgs, s) = {}
      BY <1>0, <1>8 DEF OfStream
  <2>2. Lined(msgs, s, plan.lines[s], 0, 0)
    <3>1. PICK at : at = [i \in 1 .. Len(msgs) |-> 0]
        OBVIOUS
    <3>2. at \in [1 .. Len(msgs) -> Nat]
        BY <3>1
    <3> QED
        BY <1>10, <2>1, <3>2 DEF Lined
  <2>3. 1 .. Len(seen[s]) = {}
      BY <1>4, <2>1
  <2> QED
      BY <1>4, <1>9, <2>1, <2>2, <2>3 DEF SeenOK
<1>12. ASSUME NEW k \in Files PROVE FileOK(k)
  <2>1. fs[UserFile(k)] = Old /\ k \notin opened
      BY <1>0 DEF UserFiles, Files
  <2>2. Got(k) = 0 /\ Sent(k) = 0
      BY <1>0, <1>2, <2>1 DEF Got, Sent, Files
  <2>3. OfFile(msgs, k) = {}
      BY <1>8 DEF OfFile
  <2>4. Filed(msgs, k, 0, 0)
      BY <1>10, <2>3 DEF Filed
  <2> QED
      BY <1>4, <2>1, <2>2, <2>4 DEF FileOK
<1>13. ClientOK
  <2>1. fs \in [UserFiles -> Seq(Blocks)]
      BY <1>0, <1>4
  <2> QED
      BY <1>11, <1>12, <2>1 DEF ClientOK
<1>14. FilesAsLocal /\ OutputAsLocal
    BY <1>0 DEF FilesAsLocal, OutputAsLocal
<1> QED
    BY <1>5, <1>6, <1>7, <1>8, <1>9, <1>13, <1>14 DEF TaskInv

LEMMA StutterKeeps ==
    ASSUME TaskInv, UNCHANGED vars
    PROVE  TaskInv'
<1>0. /\ TypeOK /\ Phases /\ NextOK /\ FilesAsLocal /\ OutputAsLocal
      /\ \A i \in 1 .. Len(msgs) : MsgOK(i)
      /\ \A s \in Streams : PipeOK(s)
      /\ client # "ended" => ClientOK
    BY Parts
<1>1. /\ args' = args /\ plan' = plan /\ fs' = fs /\ opened' = opened /\ seen' = seen /\ exit' = exit
      /\ exec' = exec /\ names' = names /\ next' = next /\ done' = done /\ tmp' = tmp /\ child' = child
      /\ todo' = todo /\ pipe' = pipe /\ msgs' = msgs /\ client' = client
    BY DEF vars, clientVars, execVars, childVars
<1>2. Files' = Files /\ OutputCount' = OutputCount /\ KeepLocal' = KeepLocal /\ PlanOK' = PlanOK
      /\ \A k : Writes(k)' = Writes(k) /\ Content(k)' = Content(k)
    BY <1>1, Unmoved
<1>3. TypeOK'
    BY <1>0, <1>1, <1>2 DEF TypeOK
<1>4. Phases'
    BY <1>0, <1>1, <1>2 DEF Phases, Apart, Produced, BothDone, AllWritten
<1>5. (\A s \in Streams : PipeOK(s)') /\ \A s \in Streams : Passed(s)' = Passed(s)
    BY <1>0, <1>1, PipeKept
<1>6. client # "ended" => ClientOK'
    BY <1>0, <1>1, <1>5, ClientKept
<1>7. NextOK' /\ \A i \in 1 .. Len(msgs') : MsgOK(i)'
    BY <1>0, <1>1, NextKept, MsgsKept
<1>8. FilesAsLocal' /\ OutputAsLocal'
    BY <1>0, <1>1, FinalKept
<1> QED
    BY <1>1, <1>3, <1>4, <1>5, <1>6, <1>7, <1>8 DEF TaskInv

LEMMA TaskInvInductive ==
    TaskInv /\ [Next]_vars => TaskInv'
<1> SUFFICES ASSUME TaskInv, [Next]_vars PROVE TaskInv'
    OBVIOUS
<1>1. CASE ClientStarts
    BY <1>1, ClientStartsKeeps
<1>2. CASE RunLocal
    BY <1>2, RunLocalKeeps
<1>3. CASE ClientReads
    BY <1>3, ClientReadsKeeps
<1>4. CASE ExecStarts
    BY <1>4, ExecStartsKeeps
<1>5. CASE ExecWaits
    BY <1>5, ExecWaitsKeeps
<1>6. CASE SendBlock
    BY <1>6, SendBlockKeeps
<1>7. CASE SendDone
    BY <1>7, SendDoneKeeps
<1>8. ASSUME NEW s \in Streams, ReadLine(s) PROVE TaskInv'
    BY <1>8, ReadLineKeeps
<1>9. ASSUME NEW s \in Streams, ChildWrites(s) PROVE TaskInv'
    BY <1>9, ChildWritesKeeps
<1>10. CASE ChildExits
    BY <1>10, ChildExitsKeeps
<1>11. CASE UNCHANGED vars
    BY <1>11, StutterKeeps
<1> QED
    BY <1>1, <1>2, <1>3, <1>4, <1>5, <1>6, <1>7, <1>8, <1>9, <1>10, <1>11 DEF Next

LEMMA TaskInvariant ==
    Spec => []TaskInv
<1>1. Init => TaskInv
    BY TaskInitially
<1>2. TaskInv /\ [Next]_vars => TaskInv'
    BY TaskInvInductive
<1> QED
    BY <1>1, <1>2, PTL DEF Spec

(* However many output files a command has, whatever their names and       *)
(* sizes: a client that ends after the command ran has the exit code of    *)
(* the command, and every file is as the command alone would have left it  *)
(* or was made empty by the command and is as before.  This is about       *)
(* generate_unique_file and redirect_outputs, which must give every output *)
(* a file of its own, send_output_file, which sends the files block by     *)
(* block, and the LazyFiles that write_output opens.                       *)
THEOREM FilesMatch == Spec => []FilesAsLocal
<1>1. TaskInv => FilesAsLocal
    BY DEF TaskInv
<1> QED
    BY <1>1, TaskInvariant, PTL

(* Whatever a command writes: a client that ends after the command ran has *)
(* printed all lines of both streams, each in order, up to the first that  *)
(* is not UTF-8, with the text the command gave them; and they end as the  *)
(* command ended them, or all in "\n" if they come from an exec.  The loop *)
(* of run_task reads both pipes to their end before it sends TaskDone, and *)
(* pushes "\n" to what next_line() returns without its line end.           *)
THEOREM OutputMatches == Spec => []OutputAsLocal
<1>1. TaskInv => OutputAsLocal
    BY DEF TaskInv
<1> QED
    BY <1>1, TaskInvariant, PTL
=============================================================================
