---------------------------- MODULE StartupProof ----------------------------
(***************************************************************************)
(* Who finds, reaches and accepts whom, for any number of processes,       *)
(* directories and ports: the four invariants of Startup.                  *)
(***************************************************************************)
EXTENDS Startup, WellFoundedInduction, TLAPS

InitPhases == {"none", "create", "fill", "gone"}
ServerPhases == InitPhases \cup {"bind", "write", "serving"}
Calling == {"connect", "sent", "accepted", "refused"}
ClientPhases == Calling \cup {"none", "search", "gone"}
ExecPhases == Calling \cup {"none", "started", "gone"}
Phases == ServerPhases \cup ClientPhases \cup ExecPhases

Files == [by : Creators \cup {None}, exists : BOOLEAN, long : BOOLEAN]

PhaseOK ==
    /\ phase \in [Processes -> Phases]
    /\ phase[InitCmd] \in InitPhases
    /\ \A s \in Servers : phase[s] \in ServerPhases
    /\ \A c \in Clients : phase[c] \in ClientPhases
    /\ \A e \in Execs : phase[e] \in ExecPhases
DirOK ==
    /\ dir \in [Servers \cup Clients -> Dirs \cup {None}]
    /\ \A p \in Servers \cup Clients : phase[p] \notin {"none", "gone"} => dir[p] \in Dirs
TypeOK ==
    /\ PhaseOK /\ DirOK
    /\ keyFile \in Files
    /\ key \in [Processes -> Creators \cup {None}]
    /\ contact \in [Dirs -> Files]
    /\ \A d \in Dirs : contact[d].by # InitCmd
    /\ linked \subseteq Servers
    /\ port \in [Servers -> Ports \cup {None}]
    /\ callme \in [Remotes -> Servers \cup {None}]
    /\ retries \in [Remotes -> Nat]
    /\ link \in [Remotes -> Servers \cup {None}]
    /\ raced \in BOOLEAN
    /\ met \subseteq Servers
    /\ served \in [Clients -> Servers \cup {None}]
    /\ killed \subseteq Creators

(* As long as nobody has loaded the key in between, one process at most    *)
(* makes it, and does so before any server or exec has it; afterwards all  *)
(* have the key of the file, except clients that found none.               *)
Settled == keyFile.exists /\ MakingKey = {}
KeysAgree ==
    /\ \A p, q \in MakingKey : p = q
    /\ \A p \in Creators : phase[p] = "create" => ~keyFile.exists
    /\ \A p \in Creators : phase[p] = "fill" => keyFile = Opened(Absent)
    /\ \A s \in Servers : phase[s] \in {"bind", "write", "serving"} =>
          Settled /\ key[s] = KeyIn(keyFile)
    /\ \A e \in Execs : phase[e] # "none" => Settled
    /\ \A e \in Execs : phase[e] \in Calling => key[e] = KeyIn(keyFile)
    /\ \A c \in Clients : key[c] # DefaultKey => Settled /\ key[c] = KeyIn(keyFile)
Keys == (~keyFile.exists => keyFile = Absent) /\ (~raced => KeysAgree)

(* A contact file is by a server of its directory, and overlong because of *)
(* one that still serves there or was killed.                              *)
ContactBy(d) ==
    contact[d].by # None =>
        /\ contact[d].by \in Servers /\ contact[d].exists
        /\ dir[contact[d].by] = d /\ phase[contact[d].by] # "none"
ContactLong(d) ==
    contact[d].long =>
        \E t \in Servers \cap Long : dir[t] = d /\ (t \in killed \/ phase[t] = "serving")

(* Of two servers that run in one directory both have met another; one     *)
(* that has not has its file linked and, once written, as it wrote it.     *)
Alone ==
    /\ \A s, t \in Up : s # t /\ dir[s] = dir[t] => s \in met
    /\ \A s \in Servers \ met : phase[s] = "write" => s \in linked
    /\ \A s \in Servers \ met : phase[s] = "serving" => contact[dir[s]].by = s

(* A remote has an address and a connection when it should; a client has   *)
(* the address of a server above it.                                       *)
Called(x) ==
    /\ phase[x] \in {"none", "search"} => callme[x] = None
    /\ phase[x] \in Calling \cup {"started"} => callme[x] # None
    /\ phase[x] \in {"sent", "accepted", "refused"} => link[x] # None
    /\ phase[x] = "accepted" => callme[x] = link[x]
    /\ x \in Clients /\ callme[x] # None =>
          /\ dir[x] \in Dirs
          /\ phase[callme[x]] # "none" /\ dir[callme[x]] \in Above(dir[x])

(* What keeps the server s of a client c within its reach.                 *)
Reach(c, s) ==
    /\ phase[s] = "serving" /\ phase[c] \in {"search", "connect", "sent", "accepted"}
    /\ dir[c] \in Dirs /\ dir[s] \in Above(dir[c])
    /\ Readable(contact[dir[s]]) /\ contact[dir[s]].by = s /\ contact[dir[s]].exists
    /\ \A f \in Above(dir[c]) \ Above(dir[s]) : ~contact[f].exists
    /\ \A t \in Up : dir[t] \in Above(dir[c]) => t = s
    /\ key[c] = key[s]
    /\ phase[c] # "search" => callme[c] = s
    /\ phase[c] = "sent" => link[c] = s
Reached == \A c \in Clients : served[c] # None => Reach(c, served[c])

-----------------------------------------------------------------------------
(* Processes of different kinds are different.                             *)
LEMMA KindFacts ==
    /\ InitCmd \in Creators /\ InitCmd \in Processes /\ InitCmd # None
    /\ InitCmd \notin Servers /\ InitCmd \notin Remotes
    /\ \A s \in Servers : s \in Creators /\ s \in Processes /\ s # None /\ s \notin Remotes
    /\ \A x \in Remotes : x \in Processes /\ x \notin Creators /\ x # None
    /\ \A p \in Creators : p = InitCmd \/ p \in Servers
    /\ \A c \in Clients : c \in Remotes /\ c \notin Execs
    /\ \A e \in Execs : e \in Remotes /\ e \notin Clients
    /\ Creators \subseteq Processes /\ None \notin Dirs
    BY StartupAssumption DEF Creators, Remotes, Processes

(* The steps, one by one.                                                  *)
LEMMA NextCases ==
    ASSUME [Next]_vars, NEW G,
           UNCHANGED vars => G,
           InitEnvironment => G,
           \A p \in Creators : CreateKey(p) \/ FillKey(p) \/ Kill(p) => G,
           \A s \in Servers : ServerStart(s) \/ Bind(s) \/ WriteContact(s) \/ ServerEnds(s) => G,
           \A s \in Servers, e \in Execs : StartExec(s, e) => G,
           \A c \in Clients : ClientStart(c) \/ ReadContact(c) => G,
           \A e \in Execs : ExecStart(e) => G,
           \A x \in Remotes : Connect(x) \/ ConnectFails(x) \/ Check(x) \/ Disconnected(x) => G
    PROVE  G
    BY KindFacts DEF Next, CreatorStep, ServerStep, RemoteStep

(* What is read from and written to a file.                                *)
LEMMA FileFacts ==
    /\ Absent \in Files /\ ~Absent.exists /\ ~Absent.long /\ Absent.by = None
    /\ \A f \in Files : /\ Opened(f) \in Files /\ Opened(f).exists
                        /\ Opened(f).by = f.by /\ Opened(f).long = f.long
    /\ \A f \in Files, p \in Creators :
          /\ Written(f, p) \in Files /\ Written(f, p).exists /\ Written(f, p).by = p
          /\ Written(f, p).long = (f.long \/ p \in Long)
          /\ ~f.long => Readable(Written(f, p)) /\ KeyIn(Written(f, p)) = p
    /\ \A f \in Files : KeyIn(f) \in Creators \cup {None}
    /\ ~Readable(Absent)
  <1>1. Absent \in Files /\ ~Absent.exists /\ ~Absent.long /\ Absent.by = None
      BY DEF Absent, Files
  <1>2. \A f \in Files : /\ Opened(f) \in Files /\ Opened(f).exists
                         /\ Opened(f).by = f.by /\ Opened(f).long = f.long
      BY DEF Opened, Files
  <1>3. \A f \in Files, p \in Creators :
          /\ Written(f, p) \in Files /\ Written(f, p).exists /\ Written(f, p).by = p
          /\ Written(f, p).long = (f.long \/ p \in Long)
      BY DEF Written, Files
  <1>4. \A f \in Files, p \in Creators : ~f.long => Readable(Written(f, p)) /\ KeyIn(Written(f, p)) = p
    <2>1. ASSUME NEW f \in Files, NEW p \in Creators, ~f.long PROVE Readable(Written(f, p))
      <3>1. Written(f, p).by = p /\ Written(f, p).long = (f.long \/ p \in Long)
          BY <1>3
      <3>2. Written(f, p).long => p \in Long
          BY <2>1, <3>1
      <3> QED
          BY <3>1, <3>2, KindFacts DEF Readable
    <2> QED
        BY <1>3, <2>1 DEF KeyIn
  <1>5. \A f \in Files : KeyIn(f) \in Creators \cup {None}
      BY DEF KeyIn, DefaultKey, Files
  <1> QED
      BY <1>1, <1>2, <1>3, <1>4, <1>5 DEF Readable

(* The nearest of several is one of them, and none is nearer.              *)
LEMMA NearestFacts ==
    ASSUME NEW S, S \subseteq Nat, S # {}
    PROVE  Nearest(S) \in S /\ \A j \in S : Nearest(S) <= j
<1>1. PICK i \in S : \A j \in S : ~(<<j, i>> \in OpToRel(<, Nat))
    BY NatLessThanWellFounded, WFMin
<1>2. \A j \in S : ~(j < i)
    BY <1>1 DEF OpToRel
<1>3. \A j \in S : i <= j
    BY <1>2
<1> QED
    BY <1>3 DEF Nearest

(* What is found from a directory is a file above it, or none.             *)
LEMMA ContactFromFacts ==
    ASSUME contact \in [Dirs -> Files], NEW d \in Dirs
    PROVE  \/ ContactFrom(d) = Absent
           \/ \E f \in Above(d) : f \in Dirs /\ ContactFrom(d) = contact[f]
<1>1. Path[d] \in Seq(Dirs)
    BY StartupAssumption
<1>2. \A i \in 1 .. Len(Path[d]) : Path[d][i] \in Dirs /\ Path[d][i] \in Above(d)
    BY <1>1, KindFacts DEF Above
<1>3. ASSUME Holding(d) # {} PROVE Nearest(Holding(d)) \in 1 .. Len(Path[d])
  <2>1. Holding(d) \subseteq 1 .. Len(Path[d]) /\ 1 .. Len(Path[d]) \subseteq Nat
      BY <1>1 DEF Holding
  <2>2. Nearest(Holding(d)) \in Holding(d)
      BY <1>3, <2>1, NearestFacts
  <2> QED
      BY <2>1, <2>2
<1> QED
    BY <1>2, <1>3 DEF ContactFrom

(* A process of one kind passes through the phases of this kind.           *)
LEMMA PhaseStep ==
    ASSUME PhaseOK, NEW p \in Processes, NEW v, phase' = [phase EXCEPT ![p] = v],
           \/ p \in Creators /\ v \in InitPhases
           \/ p \in Servers /\ v \in ServerPhases
           \/ p \in Clients /\ v \in ClientPhases
           \/ p \in Execs /\ v \in ExecPhases
    PROVE  PhaseOK'
<1>1. v \in Phases
    BY DEF Phases, ServerPhases
<1>2. phase' \in [Processes -> Phases]
    BY <1>1 DEF PhaseOK
<1>3. \A q \in Processes : phase'[q] = IF q = p THEN v ELSE phase[q]
    BY DEF PhaseOK
<1>4. phase'[InitCmd] \in InitPhases
    BY <1>3, KindFacts DEF PhaseOK
<1>5. \A s \in Servers : phase'[s] \in ServerPhases
    BY <1>3, KindFacts DEF PhaseOK, ServerPhases
<1>6. \A c \in Clients : phase'[c] \in ClientPhases
    BY <1>3, KindFacts DEF PhaseOK
<1>7. \A e \in Execs : phase'[e] \in ExecPhases
    BY <1>3, KindFacts DEF PhaseOK
<1> QED
    BY <1>2, <1>4, <1>5, <1>6, <1>7 DEF PhaseOK

LEMMA PhaseOKStep == ASSUME PhaseOK, [Next]_vars PROVE PhaseOK'
<1> USE DEF InitPhases, ServerPhases, ClientPhases, ExecPhases, Calling
<1>1. UNCHANGED vars => PhaseOK'
    BY DEF vars, PhaseOK
<1>2. InitEnvironment => PhaseOK'
    BY KindFacts, PhaseStep DEF InitEnvironment, LoadKey
<1>3. ASSUME NEW p \in Creators, CreateKey(p) \/ FillKey(p) \/ Kill(p) PROVE PhaseOK'
    BY <1>3, KindFacts, PhaseStep DEF CreateKey, FillKey, Kill, Move, Gone
<1>4. ASSUME NEW s \in Servers, ServerStart(s) \/ Bind(s) \/ WriteContact(s) \/ ServerEnds(s)
      PROVE  PhaseOK'
    BY <1>4, KindFacts, PhaseStep DEF ServerStart, LoadKey, Bind, WriteContact, ServerEnds, Move, Gone
<1>5. ASSUME NEW s \in Servers, NEW e \in Execs, StartExec(s, e) PROVE PhaseOK'
    BY <1>5, KindFacts, PhaseStep DEF StartExec, Move
<1>6. ASSUME NEW c \in Clients, ClientStart(c) \/ ReadContact(c) PROVE PhaseOK'
    BY <1>6, KindFacts, PhaseStep DEF ClientStart, LoadKey, ReadContact, Move, RemoteGone, Gone
<1>7. ASSUME NEW e \in Execs, ExecStart(e) PROVE PhaseOK'
    BY <1>7, KindFacts, PhaseStep DEF ExecStart, LoadKey
<1>8. ASSUME NEW x \in Remotes, Connect(x) \/ ConnectFails(x) \/ Check(x) \/ Disconnected(x) PROVE PhaseOK'
  <2>1. x \in Clients \/ x \in Execs
      BY DEF Remotes
  <2>2. \/ \E v \in {"sent", "accepted", "refused", "gone"} : phase' = [phase EXCEPT ![x] = v]
        \/ phase' = phase
      BY <1>8 DEF Connect, ConnectFails, Check, Disconnected, Move, RemoteGone, Gone
  <2>3. CASE phase' = phase
      BY <2>3 DEF PhaseOK
  <2> QED
      BY <2>1, <2>2, <2>3, KindFacts, PhaseStep
<1> QED
    BY <1>1, <1>2, <1>3, <1>4, <1>5, <1>6, <1>7, <1>8, NextCases

LEMMA DirOKStep == ASSUME PhaseOK, DirOK, [Next]_vars PROVE DirOK'
<1> DEFINE Ran(p) == phase[p] \notin {"none", "gone"}
<1>0. ASSUME NEW q \in Processes, NEW v, phase' = [phase EXCEPT ![q] = v],
             \/ dir' = dir /\ (Ran(q) \/ v = "gone" \/ q \notin Servers \cup Clients)
             \/ q \in Servers \cup Clients /\ \E d \in Dirs : dir' = [dir EXCEPT ![q] = d]
      PROVE  DirOK'
  <2>1. \A p \in Servers \cup Clients : p \in Processes
      BY KindFacts
  <2>2. \A p \in Processes : phase'[p] = IF p = q THEN v ELSE phase[p]
      BY <1>0 DEF PhaseOK
  <2> QED
      BY <1>0, <2>1, <2>2 DEF DirOK
<1> HIDE DEF Ran
<1>1. UNCHANGED vars => DirOK'
    BY DEF vars, DirOK
<1>2. InitEnvironment => DirOK'
    BY <1>0, KindFacts DEF InitEnvironment, LoadKey
<1>3. ASSUME NEW p \in Creators, CreateKey(p) \/ FillKey(p) \/ Kill(p) PROVE DirOK'
    BY <1>0, <1>3, KindFacts DEF CreateKey, FillKey, Kill, Move, Gone, Ran
<1>4. ASSUME NEW s \in Servers, ServerStart(s) \/ Bind(s) \/ WriteContact(s) \/ ServerEnds(s)
      PROVE  DirOK'
  <2>1. CASE ServerStart(s)
    <3>1. \E v : phase' = [phase EXCEPT ![s] = v]
        BY <2>1 DEF ServerStart, LoadKey
    <3> QED
        BY <1>0, <2>1, <3>1, KindFacts DEF ServerStart
  <2> QED
      BY <1>0, <1>4, <2>1, KindFacts DEF Bind, WriteContact, ServerEnds, Move, Gone, Ran
<1>5. ASSUME NEW s \in Servers, NEW e \in Execs, StartExec(s, e) PROVE DirOK'
    BY <1>0, <1>5, KindFacts DEF StartExec, Move
<1>6. ASSUME NEW c \in Clients, ClientStart(c) \/ ReadContact(c) PROVE DirOK'
  <2>1. CASE ClientStart(c)
    <3>1. \E v : phase' = [phase EXCEPT ![c] = v]
        BY <2>1 DEF ClientStart, LoadKey
    <3> QED
        BY <1>0, <2>1, <3>1, KindFacts DEF ClientStart
  <2> QED
      BY <1>0, <1>6, <2>1, KindFacts DEF ReadContact, Move, RemoteGone, Gone, Ran
<1>7. ASSUME NEW e \in Execs, ExecStart(e) PROVE DirOK'
    BY <1>0, <1>7, KindFacts DEF ExecStart, LoadKey
<1>8. ASSUME NEW x \in Remotes, Connect(x) \/ ConnectFails(x) \/ Check(x) \/ Disconnected(x) PROVE DirOK'
  <2>1. CASE phase' = phase
      BY <1>8, <2>1 DEF Connect, ConnectFails, Check, Disconnected, Move, RemoteGone, Gone, DirOK
  <2>2. \/ dir' = dir /\ phase' = phase
        \/ dir' = dir /\ Ran(x) /\ \E v : phase' = [phase EXCEPT ![x] = v]
      BY <1>8 DEF Connect, ConnectFails, Check, Disconnected, Move, RemoteGone, Gone, Ran
  <2> QED
      BY <1>0, <2>1, <2>2, KindFacts
<1> QED
    BY <1>1, <1>2, <1>3, <1>4, <1>5, <1>6, <1>7, <1>8, NextCases

LEMMA TypeStep == ASSUME TypeOK, [Next]_vars PROVE TypeOK'
<1>0. PhaseOK' /\ DirOK' /\ KeyIn(keyFile) \in Creators \cup {None}
    BY PhaseOKStep, DirOKStep, FileFacts DEF TypeOK
<1> USE KindFacts
<1>1. UNCHANGED vars => TypeOK'
    BY <1>0 DEF vars, fileVars, netVars, ghosts, TypeOK
<1>2. ASSUME InitEnvironment PROVE TypeOK'
  <2>1. key' \in [Processes -> Creators \cup {None}] /\ raced' \in BOOLEAN
      BY <1>0, <1>2 DEF InitEnvironment, LoadKey, TypeOK
  <2> QED
      BY <1>0, <1>2, <2>1 DEF InitEnvironment, LoadKey, TypeOK, fileVars, netVars
<1>3. ASSUME NEW p \in Creators, CreateKey(p) \/ FillKey(p) \/ Kill(p) PROVE TypeOK'
  <2>1. CASE CreateKey(p)
      BY <1>0, <2>1, FileFacts DEF CreateKey, Move, TypeOK, netVars, ghosts
  <2>2. CASE FillKey(p)
      BY <1>0, <2>2, FileFacts DEF FillKey, Move, TypeOK, netVars, ghosts
  <2>3. CASE Kill(p)
      BY <1>0, <2>3 DEF Kill, Gone, TypeOK, netVars
  <2> QED
      BY <1>0, <1>3, <2>1, <2>2, <2>3
<1>4. ASSUME NEW s \in Servers, ServerStart(s) \/ Bind(s) \/ WriteContact(s) \/ ServerEnds(s)
      PROVE  TypeOK'
  <2>0. \A d \in Dirs, f \in Files :
            f.by # InitCmd => /\ [contact EXCEPT ![d] = f] \in [Dirs -> Files]
                              /\ \A g \in Dirs : [contact EXCEPT ![d] = f][g].by # InitCmd
      BY DEF TypeOK
  <2>1. CASE ServerStart(s)
    <3>1. key' \in [Processes -> Creators \cup {None}] /\ raced' \in BOOLEAN
        BY <1>0, <2>1 DEF ServerStart, LoadKey, TypeOK
    <3>2. met' \subseteq Servers /\ served' \in [Clients -> Servers \cup {None}]
        BY <2>1 DEF ServerStart, Up, TypeOK
    <3> QED
        BY <1>0, <2>1, <3>1, <3>2 DEF ServerStart, LoadKey, TypeOK, fileVars, netVars
  <2>2. CASE Bind(s)
    <3>1. dir[s] \in Dirs /\ contact[dir[s]] \in Files /\ contact[dir[s]].by # InitCmd
        BY <2>2 DEF Bind, Move, TypeOK, DirOK
    <3>2. contact' \in [Dirs -> Files] /\ \A d \in Dirs : contact'[d].by # InitCmd
        BY <2>0, <2>2, <3>1, FileFacts DEF Bind
    <3>3. port' \in [Servers -> Ports \cup {None}]
        BY <2>2 DEF Bind, TypeOK
    <3> QED
        BY <1>0, <2>2, <3>2, <3>3 DEF Bind, Move, TypeOK, ghosts
  <2>3. CASE WriteContact(s)
    <3>1. dir[s] \in Dirs /\ contact[dir[s]] \in Files
        BY <2>3 DEF WriteContact, Move, TypeOK, DirOK
    <3>2. contact' \in [Dirs -> Files] /\ \A d \in Dirs : contact'[d].by # InitCmd
      <4>1. Written(contact[dir[s]], s) \in Files /\ Written(contact[dir[s]], s).by # InitCmd
          BY <3>1, FileFacts
      <4> QED
          BY <2>0, <2>3, <3>1, <4>1 DEF WriteContact, TypeOK
    <3> QED
        BY <1>0, <2>3, <3>2 DEF WriteContact, Move, TypeOK, netVars, ghosts
  <2>4. CASE ServerEnds(s)
    <3>1. dir[s] \in Dirs
        BY <2>4 DEF ServerEnds, TypeOK, DirOK
    <3>2. contact' \in [Dirs -> Files] /\ \A d \in Dirs : contact'[d].by # InitCmd
        BY <2>0, <2>4, <3>1, FileFacts DEF ServerEnds, Cleanup
    <3> QED
        BY <1>0, <2>4, <3>2 DEF ServerEnds, Gone, Cleanup, TypeOK, netVars
  <2> QED
      BY <1>0, <1>4, <2>1, <2>2, <2>3, <2>4
<1>5. ASSUME NEW s \in Servers, NEW e \in Execs, StartExec(s, e) PROVE TypeOK'
    BY <1>0, <1>5 DEF StartExec, Move, TypeOK, fileVars, ghosts
<1>6. ASSUME NEW c \in Clients, ClientStart(c) \/ ReadContact(c) PROVE TypeOK'
  <2>1. CASE ClientStart(c)
      BY <1>0, <2>1 DEF ClientStart, LoadKey, ServersFor, TypeOK, fileVars, netVars
  <2>2. CASE ReadContact(c)
    <3>1. dir[c] \in Dirs
        BY <2>2, KindFacts DEF ReadContact, TypeOK, DirOK
    <3>2. Readable(ContactFrom(dir[c])) => ContactFrom(dir[c]).by \in Servers
        BY <3>1, ContactFromFacts, FileFacts DEF TypeOK, Readable, Files
    <3>3. callme' \in [Remotes -> Servers \cup {None}]
        BY <2>2, <3>2 DEF ReadContact, RemoteGone, TypeOK
    <3> QED
        BY <1>0, <2>2, <3>1, <3>3 DEF ReadContact, Move, RemoteGone, Gone, TypeOK, fileVars, ghosts
  <2> QED
      BY <1>0, <1>6, <2>1, <2>2
<1>7. ASSUME NEW e \in Execs, ExecStart(e) PROVE TypeOK'
    BY <1>0, <1>7 DEF ExecStart, LoadKey, TypeOK, fileVars, netVars
<1>8. ASSUME NEW x \in Remotes, Connect(x) \/ ConnectFails(x) \/ Check(x) \/ Disconnected(x) PROVE TypeOK'
  <2>0. x \in Clients \/ x \in Execs
      BY DEF Remotes
  <2>1. CASE Connect(x)
      BY <1>0, <2>0, <2>1 DEF Connect, Move, At, Listening, TypeOK, fileVars, ghosts
  <2>2. CASE ConnectFails(x)
      BY <1>0, <2>0, <2>2 DEF ConnectFails, RemoteGone, Gone, TypeOK, fileVars
  <2>3. CASE Check(x)
      BY <1>0, <2>0, <2>3 DEF Check, Move, TypeOK, fileVars, netVars, ghosts
  <2>4. CASE Disconnected(x)
      BY <1>0, <2>0, <2>4 DEF Disconnected, RemoteGone, Gone, TypeOK, fileVars
  <2> QED
      BY <1>0, <1>8, <2>1, <2>2, <2>3, <2>4
<1> QED
    BY <1>1, <1>2, <1>3, <1>4, <1>5, <1>6, <1>7, <1>8, NextCases

(* Who was killed is gone, and stays so.                                   *)
KilledGone == \A t \in killed : phase[t] = "gone"

LEMMA KilledGoneStep == ASSUME TypeOK, KilledGone, [Next]_vars PROVE KilledGone'
<1> USE DEF KilledGone
<1>0. ASSUME NEW q \in Processes, NEW v, phase[q] # "gone" \/ v = "gone", phase' = [phase EXCEPT ![q] = v],
             killed' = killed \/ (killed' = killed \cup {q} /\ v = "gone")
      PROVE  KilledGone'
  <2>1. \A p \in Processes : phase'[p] = IF p = q THEN v ELSE phase[p]
      BY <1>0 DEF TypeOK, PhaseOK
  <2> QED
      BY <1>0, <2>1, KindFacts DEF TypeOK
<1>1. UNCHANGED vars => KilledGone'
    BY DEF vars, ghosts
<1>2. InitEnvironment => KilledGone'
    BY <1>0, KindFacts DEF InitEnvironment, LoadKey
<1>3. ASSUME NEW p \in Creators, CreateKey(p) \/ FillKey(p) \/ Kill(p) PROVE KilledGone'
    BY <1>0, <1>3, KindFacts DEF CreateKey, FillKey, Kill, Move, Gone, ghosts
<1>4. ASSUME NEW s \in Servers, ServerStart(s) \/ Bind(s) \/ WriteContact(s) \/ ServerEnds(s)
      PROVE  KilledGone'
    BY <1>0, <1>4, KindFacts DEF ServerStart, LoadKey, Bind, WriteContact, ServerEnds, Move, Gone, ghosts
<1>5. ASSUME NEW s \in Servers, NEW e \in Execs, StartExec(s, e) PROVE KilledGone'
    BY <1>0, <1>5, KindFacts DEF StartExec, Move, ghosts
<1>6. ASSUME NEW c \in Clients, ClientStart(c) \/ ReadContact(c) PROVE KilledGone'
    BY <1>0, <1>6, KindFacts DEF ClientStart, LoadKey, ReadContact, Move, RemoteGone, Gone, ghosts
<1>7. ASSUME NEW e \in Execs, ExecStart(e) PROVE KilledGone'
    BY <1>0, <1>7, KindFacts DEF ExecStart, LoadKey
<1>8. ASSUME NEW x \in Remotes, Connect(x) \/ ConnectFails(x) \/ Check(x) \/ Disconnected(x) PROVE KilledGone'
  <2>1. CASE phase' = phase
      BY <1>8, <2>1 DEF Connect, ConnectFails, Check, Disconnected, Move, RemoteGone, Gone, ghosts
  <2>2. killed' = killed /\ \/ phase' = phase
                            \/ phase[x] # "gone" /\ \E v : phase' = [phase EXCEPT ![x] = v]
      BY <1>8 DEF Connect, ConnectFails, Check, Disconnected, Move, RemoteGone, Gone, ghosts
  <2> QED
      BY <1>0, <2>1, <2>2, KindFacts
<1> QED
    BY <1>1, <1>2, <1>3, <1>4, <1>5, <1>6, <1>7, <1>8, NextCases

(* No two servers listen at one port.                                      *)
PortsDiffer == \A s, t \in Listening : port[s] = port[t] => s = t

LEMMA PortsDifferStep == ASSUME TypeOK, PortsDiffer, [Next]_vars PROVE PortsDiffer'
<1> USE DEF PortsDiffer, Listening
<1>0. ASSUME NEW q \in Processes, NEW v, phase' = [phase EXCEPT ![q] = v], port' = port,
             q \in Servers => phase[q] = "write" \/ v \notin {"write", "serving"}
      PROVE  PortsDiffer'
  <2>1. \A s \in Servers : s \in Processes
      BY KindFacts
  <2>2. \A p \in Processes : phase'[p] = IF p = q THEN v ELSE phase[p]
      BY <1>0 DEF TypeOK, PhaseOK
  <2>3. \A s \in Servers : phase'[s] \in {"write", "serving"} => phase[s] \in {"write", "serving"}
      BY <1>0, <2>1, <2>2
  <2> QED
      BY <1>0, <2>3
<1>1. UNCHANGED vars => PortsDiffer'
    BY DEF vars, netVars
<1>2. InitEnvironment => PortsDiffer'
    BY <1>0, KindFacts DEF InitEnvironment, LoadKey, netVars
<1>3. ASSUME NEW p \in Creators, CreateKey(p) \/ FillKey(p) \/ Kill(p) PROVE PortsDiffer'
    BY <1>0, <1>3, KindFacts DEF CreateKey, FillKey, Kill, Move, Gone, netVars
<1>4. ASSUME NEW s \in Servers, ServerStart(s) \/ Bind(s) \/ WriteContact(s) \/ ServerEnds(s)
      PROVE  PortsDiffer'
  <2>1. CASE Bind(s)
    <3>1. PICK n \in Ports : port' = [port EXCEPT ![s] = n] /\ \A t \in Listening : port[t] # n
      <4>1. PICK n \in Ports \ {port[t] : t \in Listening} : port' = [port EXCEPT ![s] = n]
          BY <2>1, Zenon DEF Bind
      <4>2. \A t \in Listening : port[t] # n
          BY <4>1
      <4> QED
          BY <4>1, <4>2
    <3>2. phase[s] = "bind" /\ \A t \in Servers : phase'[t] = IF t = s THEN "write" ELSE phase[t]
        BY <2>1, KindFacts DEF Bind, Move, TypeOK, PhaseOK
    <3>3. \A t \in Servers : port'[t] = IF t = s THEN n ELSE port[t]
        BY <3>1 DEF TypeOK
    <3> QED
        BY <3>1, <3>2, <3>3
  <2> QED
      BY <1>0, <1>4, <2>1, KindFacts DEF ServerStart, LoadKey, WriteContact, ServerEnds, Move, Gone, netVars
<1>5. ASSUME NEW s \in Servers, NEW e \in Execs, StartExec(s, e) PROVE PortsDiffer'
    BY <1>0, <1>5, KindFacts DEF StartExec, Move
<1>6. ASSUME NEW c \in Clients, ClientStart(c) \/ ReadContact(c) PROVE PortsDiffer'
    BY <1>0, <1>6, KindFacts DEF ClientStart, LoadKey, ReadContact, Move, RemoteGone, Gone, netVars
<1>7. ASSUME NEW e \in Execs, ExecStart(e) PROVE PortsDiffer'
    BY <1>0, <1>7, KindFacts DEF ExecStart, LoadKey, netVars
<1>8. ASSUME NEW x \in Remotes, Connect(x) \/ ConnectFails(x) \/ Check(x) \/ Disconnected(x) PROVE PortsDiffer'
  <2>1. CASE phase' = phase
      BY <1>8, <2>1 DEF Connect, ConnectFails, Check, Disconnected, Move, RemoteGone, Gone, netVars
  <2>2. port' = port /\ (phase' = phase \/ \E v : phase' = [phase EXCEPT ![x] = v])
      BY <1>8 DEF Connect, ConnectFails, Check, Disconnected, Move, RemoteGone, Gone, netVars
  <2> QED
      BY <1>0, <2>1, <2>2, KindFacts
<1> QED
    BY <1>1, <1>2, <1>3, <1>4, <1>5, <1>6, <1>7, <1>8, NextCases

-----------------------------------------------------------------------------
(* What a step leaves alone, seen from one process.                        *)

Untouched(x) ==
    /\ phase'[x] = phase[x] /\ key'[x] = key[x]
    /\ callme'[x] = callme[x] /\ link'[x] = link[x]
    /\ x \in Clients => dir'[x] = dir[x]
OwnStep(x) ==
    \/ x \in Execs /\ ExecStart(x)
    \/ x \in Execs /\ \E s \in Servers : StartExec(s, x)
    \/ x \in Clients /\ (ClientStart(x) \/ ReadContact(x))
    \/ Connect(x) \/ ConnectFails(x) \/ Check(x) \/ Disconnected(x)

LEMMA RemoteCases ==
    ASSUME TypeOK, [Next]_vars, NEW x \in Remotes
    PROVE  Untouched(x) \/ OwnStep(x)
<1> DEFINE G == Untouched(x) \/ OwnStep(x)
<1> USE KindFacts DEF TypeOK, PhaseOK, DirOK
<1>1. UNCHANGED vars => Untouched(x)
    BY DEF vars, netVars, Untouched
<1>2. InitEnvironment => Untouched(x)
    BY DEF InitEnvironment, LoadKey, netVars, Untouched
<1>3. ASSUME NEW p \in Creators, CreateKey(p) \/ FillKey(p) \/ Kill(p) PROVE Untouched(x)
    BY <1>3 DEF CreateKey, FillKey, Kill, Move, Gone, netVars, Untouched
<1>4. ASSUME NEW s \in Servers, ServerStart(s) \/ Bind(s) \/ WriteContact(s) \/ ServerEnds(s)
      PROVE  Untouched(x)
    BY <1>4 DEF ServerStart, LoadKey, Bind, WriteContact, ServerEnds, Move, Gone, netVars, Untouched
<1>5. ASSUME NEW s \in Servers, NEW e \in Execs, StartExec(s, e) PROVE Untouched(x) \/ e = x
    BY <1>5 DEF StartExec, Move, Untouched
<1>6. ASSUME NEW c \in Clients, ClientStart(c) \/ ReadContact(c) PROVE Untouched(x) \/ c = x
  <2>1. CASE ClientStart(c)
      BY <2>1 DEF ClientStart, LoadKey, netVars, Untouched
  <2>2. CASE ReadContact(c)
      BY <2>2 DEF ReadContact, Move, RemoteGone, Gone, Untouched
  <2> QED
      BY <1>6, <2>1, <2>2
<1>7. ASSUME NEW e \in Execs, ExecStart(e) PROVE Untouched(x) \/ e = x
    BY <1>7 DEF ExecStart, LoadKey, netVars, Untouched
<1>8. ASSUME NEW y \in Remotes, Connect(y) \/ ConnectFails(y) \/ Check(y) \/ Disconnected(y)
      PROVE  Untouched(x) \/ y = x
  <2>1. CASE Connect(y)
      BY <2>1 DEF Connect, Move, Untouched
  <2>2. CASE ConnectFails(y)
      BY <2>2 DEF ConnectFails, RemoteGone, Gone, Untouched
  <2>3. CASE Check(y)
      BY <2>3 DEF Check, Move, netVars, Untouched
  <2>4. CASE Disconnected(y)
      BY <2>4 DEF Disconnected, RemoteGone, Gone, Untouched
  <2> QED
      BY <1>8, <2>1, <2>2, <2>3, <2>4
<1>9. \A p \in Creators : CreateKey(p) \/ FillKey(p) \/ Kill(p) => G
    BY <1>3
<1>10. \A s \in Servers : ServerStart(s) \/ Bind(s) \/ WriteContact(s) \/ ServerEnds(s) => G
    BY <1>4
<1>11. \A s \in Servers, e \in Execs : StartExec(s, e) => G
    BY <1>5 DEF OwnStep
<1>12. \A c \in Clients : ClientStart(c) \/ ReadContact(c) => G
    BY <1>6 DEF OwnStep
<1>13. \A e \in Execs : ExecStart(e) => G
    BY <1>7 DEF OwnStep
<1>14. \A y \in Remotes : Connect(y) \/ ConnectFails(y) \/ Check(y) \/ Disconnected(y) => G
    BY <1>8 DEF OwnStep
<1> HIDE DEF G
<1>15. G
    BY <1>1, <1>2, <1>9, <1>10, <1>11, <1>12, <1>13, <1>14, NextCases DEF G
<1> QED
    BY <1>15 DEF G

Resting(s) == phase'[s] = phase[s] /\ key'[s] = key[s] /\ dir'[s] = dir[s] /\ port'[s] = port[s]
OwnServerStep(s) ==
    \/ ServerStart(s) \/ CreateKey(s) \/ FillKey(s)
    \/ Bind(s) \/ WriteContact(s) \/ ServerEnds(s) \/ Kill(s)

LEMMA ServerCases ==
    ASSUME TypeOK, [Next]_vars, NEW s \in Servers
    PROVE  Resting(s) \/ OwnServerStep(s)
<1> DEFINE G == Resting(s) \/ OwnServerStep(s)
<1> USE KindFacts DEF TypeOK, PhaseOK, DirOK
<1>1. UNCHANGED vars => Resting(s)
    BY DEF vars, netVars, Resting
<1>2. InitEnvironment => Resting(s)
    BY DEF InitEnvironment, LoadKey, netVars, Resting
<1>3. ASSUME NEW p \in Creators, CreateKey(p) \/ FillKey(p) \/ Kill(p) PROVE Resting(s) \/ p = s
    BY <1>3 DEF CreateKey, FillKey, Kill, Move, Gone, netVars, Resting
<1>4. ASSUME NEW t \in Servers, ServerStart(t) \/ Bind(t) \/ WriteContact(t) \/ ServerEnds(t)
      PROVE  Resting(s) \/ t = s
    BY <1>4 DEF ServerStart, LoadKey, Bind, WriteContact, ServerEnds, Move, Gone, netVars, Resting
<1>5. ASSUME NEW t \in Servers, NEW e \in Execs, StartExec(t, e) PROVE Resting(s)
    BY <1>5 DEF StartExec, Move, Resting
<1>6. ASSUME NEW c \in Clients, ClientStart(c) \/ ReadContact(c) PROVE Resting(s)
    BY <1>6 DEF ClientStart, LoadKey, netVars, ReadContact, Move, RemoteGone, Gone, Resting
<1>7. ASSUME NEW e \in Execs, ExecStart(e) PROVE Resting(s)
    BY <1>7 DEF ExecStart, LoadKey, netVars, Resting
<1>8. ASSUME NEW y \in Remotes, Connect(y) \/ ConnectFails(y) \/ Check(y) \/ Disconnected(y)
      PROVE  Resting(s)
    BY <1>8 DEF Connect, ConnectFails, Check, Disconnected, Move, RemoteGone, Gone, netVars, Resting
<1>9. \A p \in Creators : CreateKey(p) \/ FillKey(p) \/ Kill(p) => G
    BY <1>3 DEF OwnServerStep
<1>10. \A t \in Servers : ServerStart(t) \/ Bind(t) \/ WriteContact(t) \/ ServerEnds(t) => G
    BY <1>4 DEF OwnServerStep
<1> HIDE DEF G
<1>11. G
    BY <1>1, <1>2, <1>5, <1>6, <1>7, <1>8, <1>9, <1>10, NextCases DEF G
<1> QED
    BY <1>11 DEF G

(* A server stays where it was started.                                    *)
LEMMA StaysPut ==
    ASSUME TypeOK, [Next]_vars, NEW s \in Servers, phase[s] # "none"
    PROVE  phase'[s] # "none" /\ dir'[s] = dir[s]
<1>1. CASE Resting(s)
    BY <1>1 DEF Resting
<1>2. CASE OwnServerStep(s)
    BY <1>2, KindFacts DEF OwnServerStep, ServerStart, LoadKey, CreateKey, FillKey, Bind, WriteContact,
           ServerEnds, Kill, Move, Gone, TypeOK, PhaseOK
<1> QED
    BY <1>1, <1>2, ServerCases

LEMMA AboveFacts ==
    ASSUME NEW d \in Dirs
    PROVE  d \in Above(d) /\ Above(d) \subseteq Dirs
<1>1. Path[d] \in Seq(Dirs) /\ Path[d] # <<>> /\ Path[d][1] = d /\ d # None
    BY StartupAssumption, KindFacts
<1>2. 1 \in 1 .. Len(Path[d]) /\ \A i \in 1 .. Len(Path[d]) : Path[d][i] \in Dirs
    BY <1>1
<1> QED
    BY <1>1, <1>2 DEF Above

LEMMA CalledStep ==
    ASSUME TypeOK, \A d \in Dirs : ContactBy(d), [Next]_vars, NEW x \in Remotes, Called(x)
    PROVE  Called(x)'
<1>0. /\ x \in Processes /\ phase \in [Processes -> Phases]
      /\ callme \in [Remotes -> Servers \cup {None}] /\ link \in [Remotes -> Servers \cup {None}]
    BY KindFacts DEF TypeOK, PhaseOK
<1>1. \A s \in Servers : phase[s] # "none" => phase'[s] # "none" /\ dir'[s] = dir[s]
    BY StaysPut
<1>2. CASE Untouched(x)
    BY <1>0, <1>1, <1>2 DEF Untouched, Called, Above
<1>3. CASE x \in Execs /\ (ExecStart(x) \/ \E s \in Servers : StartExec(s, x))
  <2>1. \/ phase[x] = "none" /\ phase'[x] = "started" /\ callme'[x] # None
        \/ phase[x] = "started" /\ phase'[x] = "connect" /\ callme'[x] = callme[x]
      BY <1>0, <1>3, KindFacts DEF ExecStart, LoadKey, StartExec, Move, netVars
  <2> QED
      BY <1>3, <2>1, KindFacts DEF Called, Calling
<1>4. CASE x \in Clients /\ ClientStart(x)
  <2>1. phase[x] = "none" /\ phase'[x] = "search" /\ callme'[x] = callme[x]
      BY <1>0, <1>4, KindFacts DEF ClientStart, LoadKey, netVars
  <2> QED
      BY <2>1 DEF Called, Calling
<1>5. CASE x \in Clients /\ ReadContact(x)
  <2>1. CASE Readable(ContactFrom(dir[x]))
    <3>1. /\ phase'[x] = "connect" /\ callme'[x] = ContactFrom(dir[x]).by /\ dir' = dir
          /\ dir[x] \in Dirs
        BY <1>0, <1>5, <2>1, KindFacts DEF ReadContact, Move, TypeOK, DirOK
    <3>2. PICK f \in Above(dir[x]) : f \in Dirs /\ ContactFrom(dir[x]) = contact[f]
        BY <2>1, <3>1, ContactFromFacts, FileFacts DEF TypeOK
    <3>3. /\ callme'[x] \in Servers /\ phase[callme'[x]] # "none"
          /\ dir[callme'[x]] = f
        BY <2>1, <3>1, <3>2 DEF Readable, ContactBy
    <3>4. phase'[callme'[x]] # "none" /\ dir'[callme'[x]] \in Above(dir'[x])
        BY <1>1, <3>1, <3>2, <3>3 DEF Above
    <3> QED
        BY <3>1, <3>3, <3>4, KindFacts DEF Called
  <2>2. CASE ~Readable(ContactFrom(dir[x]))
    <3>1. phase'[x] = "gone" /\ callme'[x] = None
        BY <1>0, <1>5, <2>2 DEF ReadContact, RemoteGone, Gone
    <3> QED
        BY <3>1 DEF Called, Calling
  <2> QED
      BY <2>1, <2>2
<1>6. CASE Connect(x)
  <2>1. /\ phase[x] = "connect" /\ phase'[x] = "sent" /\ callme'[x] = callme[x] /\ dir' = dir
        /\ link'[x] # None
      BY <1>0, <1>6, KindFacts DEF Connect, Move, At, Listening
  <2> QED
      BY <1>0, <1>1, <2>1 DEF Called, Calling, Above
<1>7. CASE ConnectFails(x)
  <2>1. \/ Untouched(x)
        \/ phase'[x] = "gone" /\ callme'[x] = None
      BY <1>0, <1>7 DEF ConnectFails, RemoteGone, Gone, Untouched
  <2> QED
      BY <1>2, <2>1 DEF Called, Calling
<1>8. CASE Check(x)
  <2>1. /\ phase[x] = "sent" /\ phase'[x] \in {"accepted", "refused"}
        /\ phase'[x] = "accepted" => callme[x] = link[x]
        /\ callme'[x] = callme[x] /\ link'[x] = link[x] /\ dir' = dir
      BY <1>0, <1>8 DEF Check, Move, CodeMatches, netVars
  <2> QED
      BY <1>0, <1>1, <2>1 DEF Called, Calling, Above
<1>9. CASE Disconnected(x)
  <2>1. phase'[x] = "gone" /\ callme'[x] = None
      BY <1>0, <1>9 DEF Disconnected, RemoteGone, Gone
  <2> QED
      BY <2>1 DEF Called, Calling
<1> QED
    BY <1>2, <1>3, <1>4, <1>5, <1>6, <1>7, <1>8, <1>9, RemoteCases DEF OwnStep

-----------------------------------------------------------------------------
(* The user key.                                                           *)

(* A step that neither loads nor makes the key.                            *)
LEMMA KeysKept ==
    ASSUME TypeOK, Keys, keyFile' = keyFile, raced' = raced,
           NEW q \in Processes, NEW v, phase' = [phase EXCEPT ![q] = v],
           key' = key \/ (v = "gone" /\ key' = [key EXCEPT ![q] = None]),
           q \in Creators => v \notin {"create", "fill"},
           q \in Servers /\ v \in {"bind", "write", "serving"} => phase[q] \in {"bind", "write", "serving"},
           q \in Execs /\ v \in Calling => phase[q] \in Calling,
           q \in Execs /\ phase[q] = "none" => raced \/ Settled
    PROVE  Keys'
<1>1. ASSUME ~raced PROVE KeysAgree'
  <2>0. KeysAgree
      BY <1>1 DEF Keys
  <2>1. \A p \in Processes : phase'[p] = IF p = q THEN v ELSE phase[p]
      BY DEF TypeOK, PhaseOK
  <2>2. \A p \in Processes : key'[p] = key[p] \/ (p = q /\ v = "gone" /\ key'[p] = None)
      BY DEF TypeOK
  <2>3. \A p \in Creators : phase'[p] \in {"create", "fill"} => phase'[p] = phase[p]
      BY <2>1, KindFacts
  <2>4. MakingKey' \subseteq MakingKey
      BY <2>3 DEF MakingKey
  <2>5. Settled => Settled'
      BY <2>4 DEF Settled
  <2>6. \A p, r \in MakingKey' : p = r
      BY <2>0, <2>4 DEF KeysAgree
  <2>7. \A p \in Creators : phase'[p] = "create" => ~keyFile'.exists
      BY <2>0, <2>3 DEF KeysAgree
  <2>8. \A p \in Creators : phase'[p] = "fill" => keyFile' = Opened(Absent)
      BY <2>0, <2>3 DEF KeysAgree
  <2>9. \A s \in Servers : phase'[s] \in {"bind", "write", "serving"} => Settled' /\ key'[s] = KeyIn(keyFile')
    <3> TAKE s \in Servers
    <3> HAVE phase'[s] \in {"bind", "write", "serving"}
    <3>1. phase[s] \in {"bind", "write", "serving"} /\ key'[s] = key[s]
        BY <2>1, <2>2, KindFacts
    <3> QED
        BY <2>0, <2>5, <3>1 DEF KeysAgree
  <2>10. \A e \in Execs : phase'[e] # "none" => Settled'
      BY <1>1, <2>0, <2>1, <2>5, KindFacts DEF KeysAgree
  <2>11. \A e \in Execs : phase'[e] \in Calling => key'[e] = KeyIn(keyFile')
    <3> TAKE e \in Execs
    <3> HAVE phase'[e] \in Calling
    <3>1. phase[e] \in Calling /\ key'[e] = key[e]
        BY <2>1, <2>2, KindFacts DEF Calling
    <3> QED
        BY <2>0, <3>1 DEF KeysAgree
  <2>12. \A c \in Clients : key'[c] # DefaultKey => Settled' /\ key'[c] = KeyIn(keyFile')
      BY <2>0, <2>2, <2>5, KindFacts DEF KeysAgree, DefaultKey
  <2> QED
      BY <2>6, <2>7, <2>8, <2>9, <2>10, <2>11, <2>12 DEF KeysAgree
<1> QED
    BY <1>1 DEF Keys

(* A process loads the key, or starts to make it.                          *)
LEMMA KeysLoad ==
    ASSUME TypeOK, Keys, NEW p \in Processes, NEW from, NEW to, LoadKey(p, from, to),
           to \notin {"create", "fill"},
           p \in Execs => phase[p] # "none"
    PROVE  Keys'
<1>0. keyFile' = keyFile /\ (~keyFile.exists => keyFile = Absent)
    BY DEF LoadKey, fileVars, Keys
<1>1. ASSUME ~raced' PROVE KeysAgree'
  <2>0. KeysAgree /\ MakingKey = {}
      BY <1>1 DEF Keys, LoadKey
  <2>1. \A q \in Creators : phase[q] \notin {"create", "fill"}
      BY <2>0 DEF MakingKey
  <2>2. CASE p \in Creators /\ ~keyFile.exists
    <3>1. key' = key /\ \A q \in Processes : phase'[q] = IF q = p THEN "create" ELSE phase[q]
        BY <2>2 DEF LoadKey, TypeOK, PhaseOK
    <3>2. ~Settled
        BY <2>2 DEF Settled
    <3>3. \A s \in Servers : phase[s] \notin {"bind", "write", "serving"}
        BY <2>0, <3>2 DEF KeysAgree
    <3>4. \A e \in Execs : phase[e] = "none"
        BY <2>0, <3>2 DEF KeysAgree
    <3>5. \A c \in Clients : key[c] = DefaultKey
        BY <2>0, <3>2 DEF KeysAgree
    <3>6. \A q \in Creators : phase'[q] # "fill" /\ (phase'[q] = "create" => q = p)
        BY <2>1, <3>1, KindFacts
    <3>7. \A s \in Servers : phase'[s] \notin {"bind", "write", "serving"}
        BY <3>1, <3>3, KindFacts
    <3>8. \A e \in Execs : phase'[e] = "none"
        BY <2>2, <3>1, <3>4, KindFacts
    <3> QED
        BY <1>0, <2>2, <3>1, <3>5, <3>6, <3>7, <3>8 DEF KeysAgree, MakingKey, Calling
  <2>3. CASE ~(p \in Creators /\ ~keyFile.exists)
    <3>1. \A q \in Processes : /\ phase'[q] = IF q = p THEN to ELSE phase[q]
                               /\ key'[q] = IF q = p THEN KeyIn(keyFile) ELSE key[q]
        BY <2>3 DEF LoadKey, TypeOK, PhaseOK
    <3>2. MakingKey' = {}
        BY <2>1, <3>1, KindFacts DEF MakingKey
    <3>3. keyFile.exists => Settled'
        BY <1>0, <3>2 DEF Settled
    <3>4. KeyIn(keyFile) # DefaultKey => keyFile.exists
        BY <1>0, FileFacts DEF KeyIn
    <3>5. \A s \in Servers : phase'[s] \in {"bind", "write", "serving"} => Settled' /\ key'[s] = KeyIn(keyFile')
      <4> TAKE s \in Servers
      <4>1. CASE s = p
          BY <1>0, <2>3, <3>1, <3>3, <4>1, KindFacts
      <4>2. CASE s # p
          BY <1>0, <2>0, <3>1, <3>3, <4>2, KindFacts DEF KeysAgree, Settled
      <4> QED
          BY <4>1, <4>2
    <3>6. \A e \in Execs : phase'[e] # "none" => Settled'
        BY <2>0, <3>1, <3>3, KindFacts DEF KeysAgree, Settled
    <3>7. \A e \in Execs : phase'[e] \in Calling => key'[e] = KeyIn(keyFile')
        BY <1>0, <2>0, <3>1, KindFacts DEF KeysAgree
    <3>8. \A c \in Clients : key'[c] # DefaultKey => Settled' /\ key'[c] = KeyIn(keyFile')
        BY <1>0, <2>0, <3>1, <3>3, <3>4, KindFacts DEF KeysAgree, Settled
    <3>9. \A q \in Creators : phase'[q] \notin {"create", "fill"}
        BY <3>2 DEF MakingKey
    <3> QED
        BY <3>2, <3>5, <3>6, <3>7, <3>8, <3>9 DEF KeysAgree
  <2> QED
      BY <2>2, <2>3
<1> QED
    BY <1>0, <1>1 DEF Keys

(* A process makes the key.                                                *)
LEMMA KeysMade ==
    ASSUME TypeOK, Keys, NEW p \in Creators, CreateKey(p) \/ FillKey(p)
    PROVE  Keys'
<1>0. /\ raced' = raced /\ phase[p] \in {"create", "fill"} /\ keyFile'.exists
      /\ \E v : phase' = [phase EXCEPT ![p] = v]
  <2>1. Opened(keyFile).exists /\ Written(keyFile, p).exists
      BY FileFacts DEF TypeOK
  <2>2. raced' = raced /\ phase[p] \in {"create", "fill"} /\ keyFile' \in {Opened(keyFile), Written(keyFile, p)}
      BY DEF CreateKey, FillKey, Move, ghosts
  <2> QED
      BY <2>1, <2>2 DEF CreateKey, FillKey, Move
<1>1. ASSUME ~raced PROVE KeysAgree'
  <2>0. KeysAgree /\ p \in MakingKey /\ ~Settled
      BY <1>0, <1>1 DEF Keys, MakingKey, Settled
  <2>1. \A q \in Creators : q # p => phase[q] \notin {"create", "fill"}
      BY <2>0 DEF KeysAgree, MakingKey
  <2>2. \A q \in Processes : q # p => phase'[q] = phase[q]
      BY <1>0 DEF TypeOK, PhaseOK
  <2>3. \A q \in Creators : q # p => phase'[q] \notin {"create", "fill"}
      BY <2>1, <2>2, KindFacts
  <2>4. \A q, r \in MakingKey' : q = r
      BY <2>3 DEF MakingKey
  <2>5. \A s \in Servers : s # p => phase'[s] \notin {"bind", "write", "serving"}
      BY <2>0, <2>2, KindFacts DEF KeysAgree
  <2>6. \A e \in Execs : phase'[e] = "none"
      BY <2>0, <2>2, KindFacts DEF KeysAgree
  <2>7. \A c \in Clients : key[c] = DefaultKey
      BY <2>0 DEF KeysAgree
  <2>8. CASE CreateKey(p)
    <3>1. phase[p] = "create" /\ phase'[p] = "fill" /\ key' = key /\ keyFile' = Opened(keyFile)
        BY <2>8, KindFacts DEF CreateKey, Move, TypeOK, PhaseOK
    <3>2. keyFile = Absent
        BY <2>0, <3>1 DEF Keys, KeysAgree
    <3> QED
        BY <2>3, <2>4, <2>5, <2>6, <2>7, <3>1, <3>2 DEF KeysAgree, Calling
  <2>9. CASE FillKey(p)
    <3>1. /\ phase[p] = "fill" /\ phase'[p] \in {"gone", "bind"} /\ keyFile' = Written(keyFile, p)
          /\ key' = [key EXCEPT ![p] = p]
        BY <2>9, KindFacts DEF FillKey, Move, TypeOK, PhaseOK
    <3>2. keyFile = Opened(Absent) /\ ~keyFile.long
        BY <2>0, <3>1, FileFacts DEF KeysAgree
    <3>3. KeyIn(keyFile') = p
        BY <3>1, <3>2, FileFacts DEF TypeOK
    <3>4. key'[p] = p /\ \A c \in Clients : key'[c] = key[c]
        BY <3>1, KindFacts DEF TypeOK
    <3>5. \A q \in Creators : phase'[q] \notin {"create", "fill"}
        BY <2>3, <3>1
    <3>6. Settled'
        BY <1>0, <3>5 DEF Settled, MakingKey
    <3> QED
        BY <2>4, <2>5, <2>6, <2>7, <3>3, <3>4, <3>5, <3>6 DEF KeysAgree, Calling
  <2> QED
      BY <2>8, <2>9
<1> QED
    BY <1>0, <1>1 DEF Keys

LEMMA KeysStep == ASSUME TypeOK, Keys, [Next]_vars PROVE Keys'
<1>1. UNCHANGED vars => Keys'
    BY DEF vars, fileVars, ghosts, Keys, KeysAgree, Settled, MakingKey
<1>2. InitEnvironment => Keys'
    BY KeysLoad, KindFacts DEF InitEnvironment
<1>3. ASSUME NEW p \in Creators, CreateKey(p) \/ FillKey(p) \/ Kill(p) PROVE Keys'
  <2>1. CASE Kill(p)
      BY <2>1, KeysKept, KindFacts DEF Kill, Gone
  <2> QED
      BY <1>3, <2>1, KeysMade
<1>4. ASSUME NEW s \in Servers, ServerStart(s) \/ Bind(s) \/ WriteContact(s) \/ ServerEnds(s)
      PROVE  Keys'
  <2>1. CASE ServerStart(s)
      BY <2>1, KeysLoad, KindFacts DEF ServerStart
  <2>2. CASE Bind(s)
      BY <2>2, KeysKept, KindFacts DEF Bind, Move, ghosts
  <2>3. CASE WriteContact(s)
      BY <2>3, KeysKept, KindFacts DEF WriteContact, Move, ghosts
  <2>4. CASE ServerEnds(s)
      BY <2>4, KeysKept, KindFacts DEF ServerEnds, Gone
  <2> QED
      BY <1>4, <2>1, <2>2, <2>3, <2>4
<1>5. ASSUME NEW s \in Servers, NEW e \in Execs, StartExec(s, e) PROVE Keys'
  <2>1. raced \/ Settled
      BY <1>5 DEF StartExec, Keys, KeysAgree
  <2> QED
      BY <1>5, <2>1, KeysKept, KindFacts DEF StartExec, Move, fileVars, ghosts, Calling
<1>6. ASSUME NEW c \in Clients, ClientStart(c) \/ ReadContact(c) PROVE Keys'
  <2>1. CASE ClientStart(c)
      BY <2>1, KeysLoad, KindFacts DEF ClientStart
  <2>2. CASE ReadContact(c)
    <3>1. /\ keyFile' = keyFile /\ raced' = raced
          /\ \/ phase' = [phase EXCEPT ![c] = "connect"] /\ key' = key
             \/ phase' = [phase EXCEPT ![c] = "gone"] /\ key' = [key EXCEPT ![c] = None]
        BY <2>2 DEF ReadContact, Move, RemoteGone, Gone, fileVars, ghosts
    <3> QED
        BY <3>1, KeysKept, KindFacts
  <2> QED
      BY <1>6, <2>1, <2>2
<1>7. ASSUME NEW e \in Execs, ExecStart(e) PROVE Keys'
  <2>1. phase[e] = "started"
      BY <1>7 DEF ExecStart, LoadKey
  <2> QED
      BY <1>7, <2>1, KeysLoad, KindFacts DEF ExecStart
<1>8. ASSUME NEW x \in Remotes, Connect(x) \/ ConnectFails(x) \/ Check(x) \/ Disconnected(x) PROVE Keys'
  <2>1. /\ keyFile' = keyFile /\ raced' = raced
        /\ \/ phase' = phase /\ key' = key
           \/ \E v \in Calling : phase' = [phase EXCEPT ![x] = v] /\ phase[x] \in Calling /\ key' = key
           \/ phase' = [phase EXCEPT ![x] = "gone"] /\ phase[x] \in Calling /\ key' = [key EXCEPT ![x] = None]
      BY <1>8 DEF Connect, ConnectFails, Check, Disconnected, Move, RemoteGone, Gone, fileVars, ghosts, Calling
  <2>2. CASE phase' = phase /\ key' = key
      BY <2>1, <2>2 DEF Keys, KeysAgree, Settled, MakingKey
  <2> QED
      BY <2>1, <2>2, KeysKept, KindFacts DEF Calling
<1> QED
    BY <1>1, <1>2, <1>3, <1>4, <1>5, <1>6, <1>7, <1>8, NextCases

(* RefusedOnlyByRace, as a step.                                           *)
LEMMA RefusedStep ==
    ASSUME TypeOK, TypeOK', Keys, RefusedOnlyByRace, [Next]_vars
    PROVE  RefusedOnlyByRace'
<1> SUFFICES ASSUME NEW x \in Remotes, phase'[x] = "refused", callme'[x] = link'[x], ~raced',
                    x \in Clients => key'[x] # DefaultKey
             PROVE  FALSE
    BY DEF RefusedOnlyByRace
<1>0. ~raced /\ x \in Processes /\ phase \in [Processes -> Phases]
  <2>1. raced => raced'
      BY DEF Next, InitEnvironment, CreatorStep, ServerStep, RemoteStep, ServerStart, LoadKey, CreateKey, FillKey, Kill,
             Bind, WriteContact, ServerEnds, StartExec, ClientStart, ReadContact, ExecStart, Connect, ConnectFails,
             Check, Disconnected, ghosts, vars
  <2> QED
      BY <2>1, KindFacts DEF TypeOK, PhaseOK
<1>1. CASE Untouched(x)
    BY <1>0, <1>1 DEF Untouched, RefusedOnlyByRace
<1>2. CASE Check(x)
  <2>1. /\ phase[x] = "sent" /\ link[x] \in Servers /\ phase[link[x]] = "serving"
        /\ callme[x] = link[x] /\ key[x] # key[link[x]] /\ key' = key
      BY <1>0, <1>2 DEF Check, Move, CodeMatches, netVars, TypeOK
  <2>2. key[link[x]] = KeyIn(keyFile)
      BY <1>0, <2>1 DEF Keys, KeysAgree
  <2>3. x \in Execs => key[x] = KeyIn(keyFile)
      BY <1>0, <2>1 DEF Keys, KeysAgree, Calling
  <2>4. x \in Clients => key[x] = KeyIn(keyFile)
      BY <1>0, <2>1 DEF Keys, KeysAgree
  <2> QED
      BY <2>1, <2>2, <2>3, <2>4 DEF Remotes
<1>3. CASE ClientStart(x) \/ ReadContact(x) \/ ExecStart(x) \/ \E s \in Servers : StartExec(s, x)
    BY <1>0, <1>3, KindFacts DEF ClientStart, LoadKey, ReadContact, ExecStart, StartExec, Move, RemoteGone, Gone
<1>4. CASE Connect(x) \/ ConnectFails(x) \/ Disconnected(x)
  <2>1. phase'[x] \in {"sent", "gone", "connect"}
      BY <1>0, <1>4 DEF Connect, ConnectFails, Disconnected, Move, RemoteGone, Gone
  <2> QED
      BY <2>1
<1> QED
    BY <1>1, <1>2, <1>3, <1>4, RemoteCases DEF OwnStep

-----------------------------------------------------------------------------
(* The contact files.                                                      *)

(* What may happen to the file of a directory.                             *)
LEMMA ContactCases ==
    ASSUME TypeOK, [Next]_vars, NEW d \in Dirs
    PROVE  \/ contact'[d] = contact[d]
           \/ \E s \in Servers : Bind(s) /\ dir[s] = d /\ contact'[d] = Opened(contact[d])
           \/ \E s \in Servers : /\ WriteContact(s) /\ dir[s] = d /\ s \in linked
                                 /\ contact'[d] = Written(contact[d], s)
           \/ \E s \in Servers : ServerEnds(s) /\ dir[s] = d /\ contact'[d] = Absent
<1>0. contact \in [Dirs -> Files]
    BY DEF TypeOK
<1>1. CASE contact' = contact
    BY <1>1
<1>2. ASSUME NEW s \in Servers, Bind(s) \/ WriteContact(s) \/ ServerEnds(s)
      PROVE  \/ contact'[d] = contact[d]
             \/ Bind(s) /\ dir[s] = d /\ contact'[d] = Opened(contact[d])
             \/ /\ WriteContact(s) /\ dir[s] = d /\ s \in linked
                /\ contact'[d] = Written(contact[d], s)
             \/ ServerEnds(s) /\ dir[s] = d /\ contact'[d] = Absent
  <2>1. CASE Bind(s)
      BY <1>0, <2>1 DEF Bind
  <2>2. CASE WriteContact(s)
      BY <1>0, <2>2 DEF WriteContact
  <2>3. CASE ServerEnds(s)
      BY <1>0, <2>3 DEF ServerEnds, Cleanup
  <2> QED
      BY <1>2, <2>1, <2>2, <2>3
<1>3. contact' = contact \/ \E s \in Servers : Bind(s) \/ WriteContact(s) \/ ServerEnds(s)
    BY DEF Next, InitEnvironment, CreatorStep, ServerStep, RemoteStep, ServerStart, LoadKey, CreateKey, FillKey, Kill,
           StartExec, ClientStart, ReadContact, ExecStart, Connect, ConnectFails,
           Check, Disconnected, fileVars, vars
<1> QED
    BY <1>1, <1>2, <1>3

LEMMA ContactByStep ==
    ASSUME TypeOK, [Next]_vars, NEW d \in Dirs, ContactBy(d)
    PROVE  ContactBy(d)'
<1>0. \A s \in Servers : phase[s] # "none" => phase'[s] # "none" /\ dir'[s] = dir[s]
    BY StaysPut
<1>1. contact[d] \in Files
    BY DEF TypeOK
<1>2. CASE contact'[d] = contact[d]
    BY <1>0, <1>2 DEF ContactBy
<1>3. CASE contact'[d] = Opened(contact[d])
  <2>1. contact'[d].by = contact[d].by /\ contact'[d].exists
      BY <1>1, <1>3, FileFacts
  <2> QED
      BY <1>0, <2>1 DEF ContactBy
<1>4. ASSUME NEW s \in Servers, WriteContact(s), dir[s] = d, contact'[d] = Written(contact[d], s)
      PROVE  ContactBy(d)'
  <2>1. contact'[d].by = s /\ contact'[d].exists
      BY <1>1, <1>4, FileFacts, KindFacts
  <2>2. phase[s] # "none"
      BY <1>4 DEF WriteContact, Move
  <2> QED
      BY <1>0, <1>4, <2>1, <2>2 DEF ContactBy
<1>5. CASE contact'[d] = Absent
    BY <1>5, FileFacts DEF ContactBy
<1> QED
    BY <1>2, <1>3, <1>4, <1>5, ContactCases

LEMMA KilledGrows == ASSUME [Next]_vars PROVE killed \subseteq killed'
    BY DEF Next, InitEnvironment, CreatorStep, ServerStep, RemoteStep, ServerStart, LoadKey, CreateKey, FillKey, Kill,
           Bind, WriteContact, ServerEnds, StartExec, ClientStart, ReadContact, ExecStart, Connect, ConnectFails,
           Check, Disconnected, ghosts, vars

(* A server that serves goes on with it, ends in order or is killed.       *)
LEMMA ServingCases ==
    ASSUME TypeOK, [Next]_vars, NEW s \in Servers, phase[s] = "serving"
    PROVE  \/ Resting(s)
           \/ ServerEnds(s) /\ contact'[dir[s]] = Absent
           \/ Kill(s) /\ s \in killed'
<1>1. CASE OwnServerStep(s)
  <2>1. ServerEnds(s) \/ Kill(s)
      BY <1>1 DEF OwnServerStep, ServerStart, LoadKey, CreateKey, FillKey, Bind, WriteContact, Move
  <2>2. dir[s] \in Dirs /\ contact \in [Dirs -> Files]
      BY DEF TypeOK, DirOK
  <2> QED
      BY <2>1, <2>2 DEF ServerEnds, Cleanup, Kill
<1> QED
    BY <1>1, ServerCases

LEMMA ContactLongStep ==
    ASSUME TypeOK, KilledGone, [Next]_vars, NEW d \in Dirs, ContactLong(d)
    PROVE  ContactLong(d)'
<1> SUFFICES ASSUME contact'[d].long
             PROVE  \E t \in Servers \cap Long : dir'[t] = d /\ (t \in killed' \/ phase'[t] = "serving")
    BY DEF ContactLong
<1>0. \A s \in Servers : phase[s] # "none" => phase'[s] # "none" /\ dir'[s] = dir[s]
    BY StaysPut
<1>1. contact[d] \in Files
    BY DEF TypeOK
<1>2. ASSUME contact[d].long
      PROVE  \E t \in Servers \cap Long : dir'[t] = d /\ (t \in killed' \/ phase'[t] = "serving")
  <2>1. PICK t \in Servers \cap Long : dir[t] = d /\ (t \in killed \/ phase[t] = "serving")
      BY <1>2 DEF ContactLong
  <2>2. CASE t \in killed
      BY <1>0, <2>1, <2>2, KilledGrows DEF KilledGone
  <2>3. CASE phase[t] = "serving"
    <3>1. dir'[t] = d
        BY <1>0, <2>1, <2>3
    <3>2. contact'[d] # Absent
        BY FileFacts
    <3>3. phase'[t] = "serving" \/ t \in killed'
        BY <2>1, <2>3, <3>2, ServingCases DEF Resting
    <3> QED
        BY <2>1, <3>1, <3>3
  <2> QED
      BY <2>1, <2>2, <2>3
<1>3. CASE contact'[d] = contact[d] \/ contact'[d] = Opened(contact[d])
    BY <1>1, <1>2, <1>3, FileFacts
<1>4. ASSUME NEW s \in Servers, WriteContact(s), dir[s] = d, contact'[d] = Written(contact[d], s)
      PROVE  \E t \in Servers \cap Long : dir'[t] = d /\ (t \in killed' \/ phase'[t] = "serving")
  <2>1. contact[d].long \/ s \in Long
    <3>1. Written(contact[d], s).long = (contact[d].long \/ s \in Long)
        BY <1>1, FileFacts, KindFacts
    <3> QED
        BY <1>4, <3>1
  <2>2. phase[s] = "write" /\ phase'[s] = "serving" /\ dir'[s] = dir[s]
      BY <1>4, KindFacts DEF WriteContact, Move, TypeOK, PhaseOK
  <2> QED
      BY <1>2, <1>4, <2>1, <2>2
<1>5. contact'[d] # Absent
    BY FileFacts
<1> QED
    BY <1>3, <1>4, <1>5, ContactCases

(* Servers that have met stay so for as long as they run.                  *)
LEMMA MetKept ==
    ASSUME TypeOK, [Next]_vars, NEW s \in met, phase'[s] # "gone"
    PROVE  s \in met'
<1>0. s \in Servers /\ s \in Processes /\ phase \in [Processes -> Phases]
    BY KindFacts DEF TypeOK, PhaseOK
<1>1. UNCHANGED vars => s \in met'
    BY DEF vars, ghosts
<1>2. InitEnvironment => s \in met'
    BY DEF InitEnvironment
<1>3. ASSUME NEW p \in Creators, CreateKey(p) \/ FillKey(p) \/ Kill(p) PROVE s \in met'
    BY <1>0, <1>3 DEF CreateKey, FillKey, Kill, Gone, ghosts
<1>4. ASSUME NEW t \in Servers, ServerStart(t) \/ Bind(t) \/ WriteContact(t) \/ ServerEnds(t)
      PROVE  s \in met'
    BY <1>0, <1>4 DEF ServerStart, Bind, WriteContact, ServerEnds, Gone, ghosts
<1>5. ASSUME NEW t \in Servers, NEW e \in Execs, StartExec(t, e) PROVE s \in met'
    BY <1>5 DEF StartExec, ghosts
<1>6. ASSUME NEW c \in Clients, ClientStart(c) \/ ReadContact(c) PROVE s \in met'
    BY <1>0, <1>6, KindFacts DEF ClientStart, ReadContact, RemoteGone, Gone, ghosts
<1>7. ASSUME NEW e \in Execs, ExecStart(e) PROVE s \in met'
    BY <1>7 DEF ExecStart
<1>8. ASSUME NEW x \in Remotes, Connect(x) \/ ConnectFails(x) \/ Check(x) \/ Disconnected(x) PROVE s \in met'
    BY <1>0, <1>8, KindFacts DEF Connect, ConnectFails, Check, Disconnected, RemoteGone, Gone, ghosts
<1> QED
    BY <1>1, <1>2, <1>3, <1>4, <1>5, <1>6, <1>7, <1>8, NextCases

(* A server gets up by being started.                                      *)
LEMMA UpCases ==
    ASSUME TypeOK, [Next]_vars, NEW s \in Up'
    PROVE  s \in Servers /\ (s \in Up \/ ServerStart(s))
<1>1. s \in Servers /\ phase'[s] \notin {"none", "gone"} /\ s \in Processes
    BY KindFacts DEF Up
<1>2. CASE Resting(s)
    BY <1>1, <1>2 DEF Resting, Up
<1>3. CASE OwnServerStep(s)
  <2>1. ServerStart(s) \/ phase[s] \notin {"none", "gone"}
      BY <1>1, <1>3 DEF OwnServerStep, CreateKey, FillKey, Bind, WriteContact, ServerEnds, Kill, Move
  <2> QED
      BY <1>1, <2>1 DEF Up
<1> QED
    BY <1>1, <1>2, <1>3, ServerCases

(* Only one process takes a step.                                          *)
LEMMA StartIsAlone ==
    ASSUME TypeOK, NEW s \in Servers, ServerStart(s), NEW t \in Servers, t # s
    PROVE  phase'[t] = phase[t] /\ dir'[t] = dir[t] /\ s \notin Up
    BY KindFacts DEF ServerStart, LoadKey, TypeOK, PhaseOK, DirOK, Up

LEMMA MetStep ==
    ASSUME TypeOK, Alone, [Next]_vars, NEW s \in Up', NEW t \in Up', s # t, dir'[s] = dir'[t]
    PROVE  s \in met'
<1>1. /\ s \in Servers /\ (s \in Up \/ ServerStart(s)) /\ phase'[s] # "gone"
      /\ t \in Servers /\ (t \in Up \/ ServerStart(t)) /\ phase'[t] # "gone"
    BY UpCases DEF Up
<1>2. CASE s \in Up /\ t \in Up
  <2>1. dir[s] = dir[t]
      BY <1>1, <1>2, StaysPut DEF Up
  <2> QED
      BY <1>1, <1>2, <2>1, MetKept DEF Alone
<1>3. CASE ServerStart(s)
  <2>1. t \in Up /\ dir'[t] = dir[t]
      BY <1>1, <1>3, StartIsAlone DEF Up
  <2>2. dir[t] = dir'[s] /\ dir \in [Servers \cup Clients -> Dirs \cup {None}]
      BY <2>1 DEF TypeOK, DirOK
  <2> QED
      BY <1>1, <1>3, <2>1, <2>2 DEF ServerStart
<1>4. CASE ServerStart(t)
  <2>1. s \in Up /\ dir'[s] = dir[s]
      BY <1>1, <1>4, StartIsAlone DEF Up
  <2>2. dir[s] = dir'[t] /\ dir \in [Servers \cup Clients -> Dirs \cup {None}]
      BY <2>1 DEF TypeOK, DirOK
  <2> QED
      BY <1>1, <1>4, <2>1, <2>2 DEF ServerStart
<1> QED
    BY <1>1, <1>2, <1>3, <1>4

(* The file of a server that runs can only be taken away by another one of *)
(* its directory.                                                          *)
LEMMA LinkedKept ==
    ASSUME TypeOK, [Next]_vars, NEW s \in linked
    PROVE  s \in linked' \/ Kill(s) \/ \E t \in Servers : ServerEnds(t) /\ dir[t] = dir[s]
    BY DEF Next, InitEnvironment, CreatorStep, ServerStep, RemoteStep, ServerStart, LoadKey, CreateKey, FillKey, Kill,
           Bind, WriteContact, ServerEnds, Cleanup, StartExec, ClientStart, ReadContact, ExecStart, Connect,
           ConnectFails, Check, Disconnected, fileVars, vars

LEMMA AloneStep ==
    ASSUME TypeOK, Alone, [Next]_vars
    PROVE  Alone'
<1>1. \A s, t \in Up' : s # t /\ dir'[s] = dir'[t] => s \in met'
    BY MetStep
<1>2. ASSUME NEW s \in Servers \ met', phase'[s] = "write" PROVE s \in linked'
  <2>0. s \notin met /\ s \in Processes
      BY <1>2, MetKept, KindFacts
  <2>1. CASE Resting(s)
    <3>1. s \in linked /\ s \in Up /\ phase[s] = "write"
        BY <1>2, <2>0, <2>1 DEF Resting, Alone, Up
    <3>2. ASSUME NEW t \in Servers, ServerEnds(t), dir[t] = dir[s] PROVE FALSE
      <4>1. t \in Up /\ t # s
          BY <3>1, <3>2 DEF ServerEnds, Up
      <4> QED
          BY <2>0, <3>1, <3>2, <4>1 DEF Alone
    <3>3. ~Kill(s)
        BY <1>2, <2>0 DEF Kill, Gone, TypeOK, PhaseOK
    <3> QED
        BY <3>1, <3>2, <3>3, LinkedKept
  <2>2. CASE OwnServerStep(s)
    <3>1. Bind(s)
        BY <1>2, <2>0, <2>2, KindFacts DEF OwnServerStep, ServerStart, LoadKey, CreateKey, FillKey, WriteContact,
               ServerEnds, Kill, Move, Gone, TypeOK, PhaseOK
    <3> QED
        BY <3>1 DEF Bind
  <2> QED
      BY <2>1, <2>2, ServerCases
<1>3. ASSUME NEW s \in Servers \ met', phase'[s] = "serving" PROVE contact'[dir'[s]].by = s
  <2>0. s \notin met /\ s \in Processes
      BY <1>3, MetKept, KindFacts
  <2>1. CASE Resting(s)
    <3>1. /\ s \in Up /\ phase[s] = "serving" /\ dir'[s] = dir[s] /\ dir[s] \in Dirs
          /\ contact[dir[s]].by = s /\ contact[dir[s]] \in Files
        BY <1>3, <2>0, <2>1 DEF Resting, Alone, Up, TypeOK, DirOK
    <3>2. ASSUME NEW t \in Servers, WriteContact(t) \/ ServerEnds(t), dir[t] = dir[s] PROVE FALSE
      <4>1. t \in Up
          BY <3>2 DEF WriteContact, ServerEnds, Move, Up
      <4>2. t = s
          BY <2>0, <3>1, <3>2, <4>1 DEF Alone
      <4> QED
          BY <1>3, <2>0, <3>1, <3>2, <4>2 DEF WriteContact, ServerEnds, Move, Gone, TypeOK, PhaseOK
    <3>3. contact'[dir[s]] = contact[dir[s]] \/ contact'[dir[s]] = Opened(contact[dir[s]])
        BY <3>1, <3>2, ContactCases
    <3> QED
        BY <3>1, <3>3, FileFacts
  <2>2. CASE OwnServerStep(s)
    <3>1. WriteContact(s)
        BY <1>3, <2>0, <2>2, KindFacts DEF OwnServerStep, ServerStart, LoadKey, CreateKey, FillKey, Bind,
               ServerEnds, Kill, Move, Gone, TypeOK, PhaseOK
    <3>2. phase[s] = "write" /\ dir' = dir /\ dir[s] \in Dirs /\ contact[dir[s]] \in Files
        BY <3>1 DEF WriteContact, Move, TypeOK, DirOK
    <3>3. s \in linked
        BY <2>0, <3>2 DEF Alone
    <3>4. contact'[dir[s]] = Written(contact[dir[s]], s)
        BY <3>1, <3>2, <3>3 DEF WriteContact, TypeOK
    <3> QED
        BY <3>2, <3>4, FileFacts, KindFacts
  <2> QED
      BY <2>1, <2>2, ServerCases
<1> QED
    BY <1>1, <1>2, <1>3 DEF Alone

-----------------------------------------------------------------------------
(* A client for which there is a server.                                   *)

(* What is above a directory that is above d.                              *)
LEMMA PathOf ==
    ASSUME NEW d \in Dirs
    PROVE  /\ Path[d] \in Seq(Dirs) /\ Len(Path[d]) \in Nat
           /\ \A i \in 1 .. Len(Path[d]) : Path[Path[d][i]] = SubSeq(Path[d], i, Len(Path[d]))
<1>1. Path[d] \in Seq(Dirs)
    BY StartupAssumption, Zenon
<1>2. \A i \in 1 .. Len(Path[d]) : Path[Path[d][i]] = SubSeq(Path[d], i, Len(Path[d]))
    BY StartupAssumption, Zenon
<1>3. Len(Path[d]) \in Nat
    BY <1>1
<1> QED
    BY <1>1, <1>2, <1>3, Zenon

(* No directory is above itself.                                           *)
LEMMA PathInjective ==
    ASSUME NEW d \in Dirs, NEW i \in 1 .. Len(Path[d]), NEW j \in 1 .. Len(Path[d]), Path[d][i] = Path[d][j]
    PROVE  i = j
<1>1. Path[d] \in Seq(Dirs) /\ Len(Path[d]) \in Nat
    BY PathOf
<1>2. SubSeq(Path[d], i, Len(Path[d])) = SubSeq(Path[d], j, Len(Path[d]))
    BY PathOf, Zenon
<1>3. /\ Len(SubSeq(Path[d], i, Len(Path[d]))) = Len(Path[d]) - i + 1
      /\ Len(SubSeq(Path[d], j, Len(Path[d]))) = Len(Path[d]) - j + 1
    BY <1>1
<1> QED
    BY <1>1, <1>2, <1>3

(* The search stops at a file with none below it.                          *)
LEMMA FindsNearest ==
    ASSUME NEW d \in Dirs, NEW e \in Above(d), contact[e].exists,
           \A f \in Above(d) \ Above(e) : ~contact[f].exists
    PROVE  ContactFrom(d) = contact[e]
<1>0. Path[d] \in Seq(Dirs) /\ d # None /\ \A f \in Dirs : f # None
    BY StartupAssumption
<1>a. e \in Dirs
    BY AboveFacts
<1>1. Path[d] \in Seq(Dirs) /\ Len(Path[d]) \in Nat /\ d # None /\ e \in Dirs /\ e # None
    BY <1>0, <1>a
<1>2. PICK i \in 1 .. Len(Path[d]) : Path[d][i] = e
    BY <1>1 DEF Above
<1>3. Path[e] = SubSeq(Path[d], i, Len(Path[d]))
    BY <1>2, PathOf, Zenon
<1>4. i \in Holding(d) /\ Holding(d) \subseteq Nat
    BY <1>2 DEF Holding
<1>5. ASSUME NEW j \in Holding(d) PROVE i <= j
  <2>1. j \in 1 .. Len(Path[d]) /\ contact[Path[d][j]].exists /\ Path[d][j] \in Above(d)
      BY <1>1, <1>5 DEF Holding, Above
  <2>2. PICK k \in 1 .. Len(Path[e]) : Path[e][k] = Path[d][j]
      BY <1>1, <2>1 DEF Above
  <2>3. Len(Path[e]) = Len(Path[d]) - i + 1
      BY <1>1, <1>2, <1>3
  <2>4. Path[e][k] = Path[d][i + k - 1] /\ i + k - 1 \in 1 .. Len(Path[d])
      BY <1>1, <1>2, <1>3, <2>2, <2>3
  <2>5. j = i + k - 1
      BY <2>1, <2>2, <2>4, PathInjective
  <2> QED
      BY <1>2, <2>2, <2>5
<1>6. Nearest(Holding(d)) \in Holding(d) /\ Nearest(Holding(d)) <= i /\ i <= Nearest(Holding(d))
    BY <1>4, <1>5, NearestFacts
<1>7. Nearest(Holding(d)) = i
    BY <1>4, <1>6
<1> QED
    BY <1>2, <1>4, <1>7 DEF ContactFrom

(* How a client comes to have, and keeps, a server.                        *)
LEMMA ServedCases ==
    ASSUME TypeOK, [Next]_vars, NEW c \in Clients, served'[c] # None
    PROVE  \/ ClientStart(c)
           \/ /\ served'[c] = served[c]
              /\ ~ServerEnds(served[c]) /\ ~Kill(served[c]) /\ ~RemoteGone(c)
              /\ \A s \in Servers : ServerStart(s) => dir'[s] \notin Above(dir[c])
<1>0. served \in [Clients -> Servers \cup {None}] /\ dir \in [Servers \cup Clients -> Dirs \cup {None}]
    BY DEF TypeOK, DirOK
<1>1. /\ ~ServerEnds(served[c]) /\ ~Kill(served[c]) /\ ~RemoteGone(c)
    BY <1>0 DEF ServerEnds, Kill, RemoteGone, Gone
<1>2. ASSUME NEW s \in Servers, ServerStart(s) PROVE dir'[s] \notin Above(dir[c])
  <2>1. PICK d \in Dirs : /\ dir' = [dir EXCEPT ![s] = d]
                          /\ served' = [b \in Clients |-> IF d \in Above(dir[b]) THEN None ELSE served[b]]
      BY <1>2 DEF ServerStart
  <2> QED
      BY <1>0, <2>1
<1>3. ASSUME NEW s \in Servers, ServerStart(s) PROVE served'[c] = served[c]
    BY <1>0, <1>3 DEF ServerStart
<1>4. ASSUME NEW p, Gone(p) PROVE served'[c] = served[c]
    BY <1>0, <1>4 DEF Gone
<1>5. ASSUME NEW b \in Clients, ClientStart(b) PROVE b = c \/ served'[c] = served[c]
    BY <1>0, <1>5 DEF ClientStart
<1>6. \/ served' = served
      \/ \E s \in Servers : ServerStart(s)
      \/ \E p \in Processes : Gone(p)
      \/ \E b \in Clients : ClientStart(b)
    BY KindFacts DEF Next, InitEnvironment, CreatorStep, ServerStep, RemoteStep, LoadKey, CreateKey, FillKey, Kill,
           Bind, WriteContact, ServerEnds, StartExec, ReadContact, ExecStart, Connect,
           ConnectFails, Check, Disconnected, RemoteGone, ghosts, vars
<1>7. ClientStart(c) \/ served'[c] = served[c]
    BY <1>3, <1>4, <1>5, <1>6
<1> QED
    BY <1>1, <1>2, <1>7

(* The surroundings of a client and its server stay as they are.           *)
LEMMA ReachKept ==
    ASSUME TypeOK, [Next]_vars, NEW c \in Clients, NEW s \in Servers, Reach(c, s), dir'[c] = dir[c],
           ~ServerEnds(s), ~Kill(s),
           \A t \in Servers : ServerStart(t) => dir'[t] \notin Above(dir[c])
    PROVE  /\ phase'[s] = "serving" /\ dir'[s] = dir[s] /\ key'[s] = key[s] /\ port'[s] = port[s]
           /\ \A f \in Above(dir[c]) : contact'[f] = contact[f]
           /\ \A t \in Up' : dir'[t] \in Above(dir[c]) => t = s
<1>1. phase'[s] = "serving" /\ dir'[s] = dir[s] /\ key'[s] = key[s] /\ port'[s] = port[s]
    BY ServingCases DEF Reach, Resting
<1>2. ASSUME NEW f \in Above(dir[c]) PROVE contact'[f] = contact[f]
  <2>1. f \in Dirs
      BY AboveFacts DEF Reach
  <2>2. ASSUME NEW t \in Servers, Bind(t) \/ WriteContact(t) \/ ServerEnds(t), dir[t] = f PROVE FALSE
    <3>1. t \in Up
        BY <2>2 DEF Bind, WriteContact, ServerEnds, Move, Up
    <3>2. t = s
        BY <1>2, <2>2, <3>1 DEF Reach
    <3> QED
        BY <2>2, <3>2 DEF Bind, WriteContact, Move, Reach
  <2> QED
      BY <2>1, <2>2, ContactCases
<1>3. ASSUME NEW t \in Up', dir'[t] \in Above(dir[c]) PROVE t = s
  <2>1. t \in Servers /\ t \in Up
      BY <1>3, UpCases
  <2>2. dir'[t] = dir[t]
      BY <2>1, StaysPut DEF Up
  <2> QED
      BY <1>3, <2>1, <2>2 DEF Reach
<1> QED
    BY <1>1, <1>2, <1>3

(* A client is started: there may be a server for it.                      *)
LEMMA ReachStart ==
    ASSUME TypeOK, \A d \in Dirs : ContactBy(d), NEW c \in Clients, ClientStart(c), served[c] = None,
           NEW s \in Servers, s = served'[c]
    PROVE  Reach(c, s)'
<1>0. c \in Processes /\ c \notin Creators /\ s # None /\ served \in [Clients -> Servers \cup {None}]
    BY KindFacts DEF TypeOK
<1>1. PICK d \in Dirs : dir' = [dir EXCEPT ![c] = d] /\ served'[c] \in ServersFor(d)
    BY <1>0 DEF ClientStart
<1>3. /\ phase' = [phase EXCEPT ![c] = "search"] /\ key' = [key EXCEPT ![c] = KeyIn(keyFile)]
      /\ contact' = contact
    BY <1>0 DEF ClientStart, LoadKey, fileVars
<1>4. phase'[c] = "search" /\ key'[c] = KeyIn(keyFile) /\ dir'[c] = d
    BY <1>0, <1>1, <1>3 DEF TypeOK, PhaseOK, DirOK
<1>5. \A t \in Servers : phase'[t] = phase[t] /\ key'[t] = key[t] /\ dir'[t] = dir[t]
    BY <1>1, <1>3, KindFacts DEF TypeOK, PhaseOK, DirOK
<1>6. /\ phase[s] = "serving" /\ key[s] = KeyIn(keyFile)
      /\ Readable(contact[dir[s]]) /\ contact[dir[s]].by = s
      /\ dir[s] \in Above(d)
      /\ \A f \in Above(d) \ Above(dir[s]) : ~contact[f].exists
      /\ \A t \in Up : dir[t] \in Above(d) => t = s
    BY <1>1 DEF ServersFor
<1>7. contact[dir[s]].exists
    BY <1>6, AboveFacts, KindFacts DEF ContactBy
<1>8. Up' = Up
    BY <1>5 DEF Up
<1>9. \A t \in Up' : dir'[t] \in Above(d) => t = s
    BY <1>5, <1>6, <1>8 DEF Up
<1>10. /\ phase'[s] = "serving" /\ key'[s] = KeyIn(keyFile) /\ dir'[s] = dir[s]
    BY <1>5, <1>6
<1>11. Above(dir[c])' = Above(d) /\ Above(dir[s])' = Above(dir[s]) /\ Readable(contact[dir[s]])'
    BY <1>3, <1>4, <1>6, <1>10 DEF Above, Readable
<1>12. Reach(c, s)'
    BY <1>3, <1>4, <1>6, <1>7, <1>9, <1>10, <1>11 DEF Reach
<1> QED
    BY <1>12

LEMMA ReachStep ==
    ASSUME TypeOK, PortsDiffer, [Next]_vars, NEW c \in Clients, NEW s \in Servers, Reach(c, s), ~RemoteGone(c),
           ~ServerEnds(s), ~Kill(s),
           \A t \in Servers : ServerStart(t) => dir'[t] \notin Above(dir[c])
    PROVE  Reach(c, s)'
<1> DEFINE Place == dir'[c] = dir[c] /\ key'[c] = key[c]
           Stage == /\ phase'[c] \in {"search", "connect", "sent", "accepted"}
                    /\ phase'[c] # "search" => callme'[c] = s
                    /\ phase'[c] = "sent" => link'[c] = s
<1>0. c \in Remotes /\ c \in Processes /\ phase \in [Processes -> Phases]
      /\ callme \in [Remotes -> Servers \cup {None}] /\ link \in [Remotes -> Servers \cup {None}]
    BY KindFacts DEF TypeOK, PhaseOK
<1>1. ASSUME Place, Stage PROVE Reach(c, s)'
  <2>1. /\ phase'[s] = "serving" /\ dir'[s] = dir[s] /\ key'[s] = key[s]
        /\ \A f \in Above(dir[c]) : contact'[f] = contact[f]
        /\ \A t \in Up' : dir'[t] \in Above(dir[c]) => t = s
      BY <1>1, ReachKept
  <2>2. contact'[dir[s]] = contact[dir[s]]
      BY <2>1 DEF Reach
  <2>3. \A f \in Above(dir[c]) \ Above(dir[s]) : ~contact'[f].exists
      BY <2>1 DEF Reach
  <2>4. Above(dir[c])' = Above(dir[c]) /\ Above(dir[s])' = Above(dir[s])
      BY <1>1, <2>1 DEF Above, Place
  <2>5. /\ dir'[c] \in Dirs /\ dir'[s] \in Above(dir[c])
        /\ Readable(contact[dir[s]])' /\ contact'[dir'[s]].by = s /\ contact'[dir'[s]].exists
        /\ \A f \in Above(dir[c])' \ Above(dir[s])' : ~contact'[f].exists
        /\ key'[c] = key'[s]
      BY <1>1, <2>1, <2>2, <2>3, <2>4 DEF Reach, Readable, Place
  <2> QED
      BY <1>1, <2>1, <2>4, <2>5 DEF Reach, Place, Stage
<1> HIDE DEF Place, Stage
<1>2. CASE Untouched(c)
    BY <1>1, <1>2 DEF Untouched, Place, Stage, Reach
<1>3. CASE ReadContact(c)
  <2>1. ContactFrom(dir[c]) = contact[dir[s]]
      BY FindsNearest DEF Reach
  <2>2. /\ Readable(contact[dir[s]]) /\ phase' = [phase EXCEPT ![c] = "connect"] /\ dir' = dir /\ key' = key
        /\ callme' = [callme EXCEPT ![c] = s]
      BY <1>3, <2>1 DEF ReadContact, Move, Reach
  <2> QED
      BY <1>0, <1>1, <2>2 DEF Place, Stage
<1>4. CASE Connect(c)
  <2>1. /\ phase[c] = "connect" /\ phase'[c] = "sent" /\ callme' = callme /\ dir' = dir /\ key' = key
        /\ callme[c] = s /\ \E t \in At(c) : link'[c] = t
      BY <1>0, <1>4 DEF Connect, Move, Reach
  <2>2. \A t \in At(c) : t = s
    <3>1. s \in Listening
        BY DEF Listening, Reach
    <3> QED
        BY <2>1, <3>1 DEF At, PortsDiffer
  <2> QED
      BY <1>1, <2>1, <2>2 DEF Place, Stage
<1>5. CASE ConnectFails(c)
  <2>1. UNCHANGED <<phase, dir, key, callme, link>>
      BY <1>5 DEF ConnectFails
  <2> QED
      BY <1>1, <2>1 DEF Place, Stage, Reach
<1>6. CASE Check(c)
  <2>1. /\ phase[c] = "sent" /\ callme' = callme /\ link' = link /\ dir' = dir /\ key' = key
        /\ phase'[c] = IF CodeMatches(link[c], c) /\ key[c] = key[link[c]] THEN "accepted" ELSE "refused"
      BY <1>0, <1>6 DEF Check, Move, netVars
  <2>2. callme[c] = s /\ link[c] = s /\ key[c] = key[s]
      BY <2>1 DEF Reach
  <2>3. phase'[c] = "accepted"
      BY <2>1, <2>2 DEF CodeMatches
  <2> QED
      BY <1>1, <2>1, <2>2, <2>3 DEF Place, Stage
<1>7. ~Disconnected(c) /\ ~ClientStart(c)
    BY DEF Disconnected, ClientStart, LoadKey, Reach
<1> QED
    BY <1>0, <1>2, <1>3, <1>4, <1>5, <1>6, <1>7, RemoteCases, KindFacts DEF OwnStep

LEMMA ReachedStep ==
    ASSUME TypeOK, TypeOK', PortsDiffer, \A d \in Dirs : ContactBy(d), Reached, [Next]_vars
    PROVE  Reached'
<1>1. ASSUME NEW c \in Clients, NEW s \in Servers, s = served'[c] PROVE Reach(c, s)'
  <2>0. served'[c] # None
      BY <1>1, KindFacts
  <2>1. CASE ClientStart(c)
    <3>1. phase[c] = "none"
        BY <2>1 DEF ClientStart, LoadKey
    <3>2. served[c] = None
        BY <3>1 DEF Reached, Reach
    <3> QED
        BY <1>1, <2>1, <3>2, ReachStart
  <2>2. CASE ~ClientStart(c)
    <3>1. /\ served[c] = s /\ ~ServerEnds(s) /\ ~Kill(s) /\ ~RemoteGone(c)
          /\ \A t \in Servers : ServerStart(t) => dir'[t] \notin Above(dir[c])
        BY <1>1, <2>0, <2>2, ServedCases
    <3>2. Reach(c, s)
        BY <3>1, KindFacts DEF Reached
    <3> QED
        BY <3>1, <3>2, ReachStep
  <2> QED
      BY <2>1, <2>2
<1>2. served' \in [Clients -> Servers \cup {None}]
    BY DEF TypeOK
<1> QED
    BY <1>1, <1>2 DEF Reached

-----------------------------------------------------------------------------
StartupInv ==
    /\ TypeOK /\ KilledGone /\ PortsDiffer /\ Keys
    /\ \A d \in Dirs : ContactBy(d) /\ ContactLong(d)
    /\ Alone
    /\ \A x \in Remotes : Called(x)
    /\ RefusedOnlyByRace
    /\ Reached

LEMMA StartupInvInit == Init => StartupInv
<1> SUFFICES ASSUME Init PROVE StartupInv
    OBVIOUS
<1>0. /\ \A p \in Processes : phase[p] = "none" /\ key[p] = None
      /\ \A x \in Remotes : callme[x] = None /\ link[x] = None
      /\ \A d \in Dirs : contact[d] = Absent
      /\ \A c \in Clients : served[c] = None
      /\ keyFile = Absent /\ killed = {} /\ ~raced
    BY DEF Init, DefaultKey
<1>1. TypeOK
  <2>1. PhaseOK
      BY KindFacts DEF Init, PhaseOK, Phases, InitPhases, ServerPhases, ClientPhases, ExecPhases, Calling
  <2>2. DirOK
      BY <1>0, KindFacts DEF Init, DirOK
  <2>3. contact \in [Dirs -> Files] /\ keyFile \in Files /\ \A d \in Dirs : contact[d].by # InitCmd
      BY <1>0, FileFacts, KindFacts DEF Init
  <2> QED
      BY <2>1, <2>2, <2>3 DEF Init, TypeOK, DefaultKey
<1>2. KilledGone /\ PortsDiffer
    BY <1>0, KindFacts DEF KilledGone, PortsDiffer, Listening
<1>3. Keys
    BY <1>0, KindFacts DEF Keys, KeysAgree, MakingKey, Calling, DefaultKey
<1>4. (\A d \in Dirs : ContactBy(d) /\ ContactLong(d)) /\ Alone
    BY <1>0, FileFacts, KindFacts DEF ContactBy, ContactLong, Alone, Up
<1>5. \A x \in Remotes : Called(x)
    BY <1>0, KindFacts DEF Called, Calling
<1>6. RefusedOnlyByRace /\ Reached
    BY <1>0, KindFacts DEF RefusedOnlyByRace, Reached
<1> QED
    BY <1>1, <1>2, <1>3, <1>4, <1>5, <1>6 DEF StartupInv

LEMMA StartupInvStep == StartupInv /\ [Next]_vars => StartupInv'
<1> SUFFICES ASSUME StartupInv, [Next]_vars PROVE StartupInv'
    OBVIOUS
<1>1. TypeOK /\ TypeOK'
    BY TypeStep DEF StartupInv
<1>2. KilledGone' /\ PortsDiffer' /\ Keys' /\ Alone'
    BY <1>1, KilledGoneStep, PortsDifferStep, KeysStep, AloneStep DEF StartupInv
<1>3. \A d \in Dirs : ContactBy(d)' /\ ContactLong(d)'
    BY <1>1, ContactByStep, ContactLongStep DEF StartupInv
<1>4. \A x \in Remotes : Called(x)'
    BY <1>1, CalledStep DEF StartupInv
<1>5. RefusedOnlyByRace' /\ Reached'
    BY <1>1, RefusedStep, ReachedStep DEF StartupInv
<1> QED
    BY <1>1, <1>2, <1>3, <1>4, <1>5 DEF StartupInv

LEMMA StartupInvHolds == Spec => []StartupInv
    BY StartupInvInit, StartupInvStep, PTL DEF Spec

(* The contact file of a server that has been alone in its directory is    *)
(* its own, and readable unless a killed one left a longer file: although  *)
(* write_server_contact_info does not truncate it and ServerConfigCleanup  *)
(* removes it whoever has written it.                                      *)
THEOREM OneServerFound == Spec => []ContactFound
<1>1. ASSUME StartupInv PROVE ContactFound
  <2> SUFFICES ASSUME NEW s \in Servers \ met, phase[s] = "serving"
               PROVE  /\ contact[dir[s]].by = s
                      /\ ~Readable(contact[dir[s]]) =>
                            \E t \in killed \cap Servers : dir[t] = dir[s] /\ t \in Long
      BY DEF ContactFound
  <2>1. contact[dir[s]].by = s /\ dir[s] \in Dirs /\ s # None
      BY <1>1, KindFacts DEF StartupInv, Alone, TypeOK, DirOK
  <2>2. ASSUME ~Readable(contact[dir[s]])
        PROVE  \E t \in killed \cap Servers : dir[t] = dir[s] /\ t \in Long
    <3>1. contact[dir[s]].long /\ s \notin Long
        BY <2>1, <2>2 DEF Readable
    <3>2. PICK t \in Servers \cap Long : dir[t] = dir[s] /\ (t \in killed \/ phase[t] = "serving")
        BY <1>1, <2>1, <3>1 DEF StartupInv, ContactLong
    <3>3. phase[t] # "serving"
        BY <1>1, <3>1, <3>2 DEF StartupInv, Alone, Up
    <3> QED
        BY <3>2, <3>3
  <2> QED
      BY <2>1, <2>2
<1> QED
    BY <1>1, StartupInvHolds, PTL

(* handle_connection accepts no remote of another server, however ports    *)
(* are used again and whichever contact file a client has read.            *)
THEOREM AcceptedByOwn == Spec => []OwnServer
<1>1. ASSUME StartupInv PROVE OwnServer
  <2> SUFFICES ASSUME NEW x \in Remotes, phase[x] = "accepted"
               PROVE  IF x \in Execs THEN link[x] = callme[x] ELSE dir[link[x]] \in Above(dir[x])
      BY DEF OwnServer
  <2>1. link[x] = callme[x] /\ callme[x] # None
      BY <1>1 DEF StartupInv, Called, Calling
  <2>2. x \notin Execs => dir[callme[x]] \in Above(dir[x])
      BY <1>1, <2>1 DEF StartupInv, Called, Remotes
  <2> QED
      BY <2>1, <2>2
<1> QED
    BY <1>1, StartupInvHolds, PTL

(* No remote that knows the server's code is refused, unless keys were     *)
(* loaded while load_user_private_key of another process made one, or a    *)
(* client was started before there was a key.                              *)
THEOREM RefusalByRace == Spec => []RefusedOnlyByRace
<1>1. StartupInv => RefusedOnlyByRace
    BY DEF StartupInv
<1> QED
    BY <1>1, StartupInvHolds, PTL

(* A client with a server above it reaches this server and is accepted,    *)
(* as long as the server serves and no other is started above the client.  *)
THEOREM ServerReached == Spec => []ServedInTheEnd
<1>1. ASSUME StartupInv PROVE ServedInTheEnd
  <2> SUFFICES ASSUME NEW c \in Clients, served[c] # None
               PROVE  /\ phase[c] \in {"search", "connect", "sent", "accepted"}
                      /\ callme[c] \in {None, served[c]}
      BY DEF ServedInTheEnd
  <2>1. Reach(c, served[c])
      BY <1>1 DEF StartupInv, Reached
  <2>2. phase[c] = "search" => callme[c] = None
      BY <1>1, KindFacts DEF StartupInv, Called
  <2> QED
      BY <2>1, <2>2 DEF Reach
<1> QED
    BY <1>1, StartupInvHolds, PTL
=============================================================================
