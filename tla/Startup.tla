------------------------------ MODULE Startup -------------------------------
(***************************************************************************)
(* How processes find each other: the user key in ~/.spraycc.private, the  *)
(* contact file in a server's directory, the ports, the retries of a       *)
(* client and the relay's check of a remote's first message.               *)
(*                                                                         *)
(* Every process of the model runs once.  It ends when its remote has been *)
(* accepted: what follows is in SprayCC.  A random key or access code is   *)
(* the name of the process that drew it.                                   *)
(***************************************************************************)
EXTENDS Integers, Sequences, FiniteSets

CONSTANTS
    Servers, Clients, Execs,
    InitCmd,        \* the process of `spraycc init`
    None,
    Ports,          \* what bind() chooses from; free again when a server ends
    Dirs,
    Path,           \* of a directory: itself, its parent, ... up to the root
    Second,         \* execs started by the second start command
    Long,           \* processes whose texts are two or more bytes longer than
                    \* those of the others
    MaxRetries,     \* of connect_w_retry: 5
    MaxKills        \* processes that are killed (a bound)

Creators == Servers \cup {InitCmd}      \* they create the user key if need be
Remotes == Clients \cup Execs
Processes == Creators \cup Remotes

ASSUME StartupAssumption ==
    /\ None \notin Processes \cup Dirs /\ InitCmd \notin Servers \cup Remotes
    /\ Servers \cap Remotes = {} /\ Clients \cap Execs = {}
    /\ Path \in [Dirs -> Seq(Dirs)]
    /\ \A d \in Dirs : Path[d] # <<>> /\ Path[d][1] = d
    /\ \A d \in Dirs : \A i \in 1 .. Len(Path[d]) :        \* PathBuf::pop
          Path[Path[d][i]] = SubSeq(Path[d], i, Len(Path[d]))
    /\ Long \subseteq Creators /\ Second \subseteq Execs
    /\ MaxRetries \in Nat /\ MaxKills \in Nat

VARIABLES
    phase,      \* of each process
    dir,        \* of a server and a client: the directory it was started in
    keyFile,    \* ~/.spraycc.private
    key,        \* of each process: the user key it has loaded
    contact,    \* of each directory: .spraycc-server
    linked,     \* servers whose open contact file is still in its directory
    port,       \* of a server, also after it has ended
    callme,     \* of a remote: whose address and access code it has
    retries,    \* of a client: connect_w_retry's count
    link,       \* of a remote: the server it is connected to
    raced,      \* ghost: a key was loaded while another process was making one
    met,        \* ghost: servers that run or have run beside one in their directory
    served,     \* ghost, of a client: the server that was there when it started
    killed      \* ghost: processes that were killed

fileVars == <<keyFile, contact, linked>>
netVars == <<port, callme, retries, link>>
ghosts == <<raced, met, served, killed>>
vars == <<phase, dir, key, fileVars, netVars, ghosts>>

Move(p, from, to) ==
    /\ phase[p] = from
    /\ phase' = [phase EXCEPT ![p] = to]
    /\ UNCHANGED dir

(* A process ends, and nothing remains of what it had in memory.           *)
Gone(p) ==
    /\ phase' = [phase EXCEPT ![p] = "gone"]
    /\ key' = [key EXCEPT ![p] = None]
    /\ met' = met \ {p}
    /\ served' = [c \in Clients |-> IF p \in {c, served[c]} THEN None ELSE served[c]]
    /\ UNCHANGED dir
RemoteGone(x) ==
    /\ Gone(x)
    /\ callme' = [callme EXCEPT ![x] = None]
    /\ link' = [link EXCEPT ![x] = None]
    /\ retries' = [retries EXCEPT ![x] = 0]

-----------------------------------------------------------------------------
(* Files.  They are opened with create and write but without truncate: a   *)
(* text that is written over a longer one leaves that one's end, which     *)
(* toml does not parse.                                                    *)

Absent == [by |-> None, exists |-> FALSE, long |-> FALSE]
Opened(file) == [file EXCEPT !.exists = TRUE]
Written(file, p) == [by |-> p, exists |-> TRUE, long |-> file.long \/ p \in Long]
Readable(file) == file.by # None /\ (file.long => file.by \in Long)

(* load_user_private_key gives the default key, 13, for a file that is     *)
(* absent, still empty or not readable.                                    *)
DefaultKey == None
KeyIn(file) == IF Readable(file) THEN file.by ELSE DefaultKey

MakingKey == {p \in Creators : phase[p] \in {"create", "fill"}}

(* The load, which each process does first (an exec and a client with      *)
(* create_if_not_present false).                                           *)
LoadKey(p, from, to) ==
    /\ phase[p] = from
    /\ IF p \in Creators /\ ~keyFile.exists
       THEN /\ phase' = [phase EXCEPT ![p] = "create"]
            /\ UNCHANGED key
       ELSE /\ phase' = [phase EXCEPT ![p] = to]
            /\ key' = [key EXCEPT ![p] = KeyIn(keyFile)]
    /\ raced' = (raced \/ MakingKey # {})
    /\ UNCHANGED <<fileVars, netVars, killed>>

(* write_user_private_key: open() creates the file, write_all() fills it.  *)
CreateKey(p) ==
    /\ Move(p, "create", "fill")
    /\ keyFile' = Opened(keyFile)
    /\ UNCHANGED <<key, contact, linked, netVars, ghosts>>

FillKey(p) ==
    /\ Move(p, "fill", IF p = InitCmd THEN "gone" ELSE "bind")
    /\ keyFile' = Written(keyFile, p)
    /\ key' = [key EXCEPT ![p] = p]
    /\ UNCHANGED <<contact, linked, netVars, ghosts>>

(* `spraycc init`.                                                         *)
InitEnvironment ==
    /\ LoadKey(InitCmd, "none", "gone")
    /\ UNCHANGED <<dir, met, served>>

-----------------------------------------------------------------------------
(* A server, from its start to its end.                                    *)

Above(d) == IF d = None THEN {} ELSE {Path[d][i] : i \in 1 .. Len(Path[d])}
Listening == {s \in Servers : phase[s] \in {"write", "serving"}}
Up == {s \in Servers : phase[s] \notin {"none", "gone"}}

ServerStart(s) ==
    /\ LoadKey(s, "none", "bind")
    /\ \E d \in Dirs :
          LET others == {t \in Up : dir[t] = d}
          IN  /\ dir' = [dir EXCEPT ![s] = d]
              /\ met' = IF others = {} THEN met ELSE met \cup others \cup {s}
              /\ served' = [c \in Clients |-> IF d \in Above(dir[c]) THEN None ELSE served[c]]

(* TcpListener::bind to port 0: the kernel chooses a free one.  Then       *)
(* write_server_contact_info opens the file,                               *)
Bind(s) ==
    /\ Move(s, "bind", "write")
    /\ \E n \in Ports \ {port[t] : t \in Listening} : port' = [port EXCEPT ![s] = n]
    /\ contact' = [contact EXCEPT ![dir[s]] = Opened(@)]
    /\ linked' = linked \cup {s}
    /\ UNCHANGED <<key, keyFile, callme, retries, link, ghosts>>

(* and fills it, unless another server has removed it by then.             *)
WriteContact(s) ==
    /\ Move(s, "write", "serving")
    /\ contact' = IF s \in linked THEN [contact EXCEPT ![dir[s]] = Written(@, s)] ELSE contact
    /\ UNCHANGED <<key, keyFile, linked, netVars, ghosts>>

(* ServerConfigCleanup removes the file, whoever has written it.           *)
LeaveContact(s) == UNCHANGED <<contact, linked>>                \* mutant
Cleanup(s) ==
    /\ contact' = [contact EXCEPT ![dir[s]] = Absent]
    /\ linked' = {t \in linked : dir[t] # dir[s]}

(* run() returns, by its own decision or with an error, or panics.         *)
ServerEnds(s) ==
    /\ phase[s] = "serving"
    /\ Gone(s)
    /\ Cleanup(s)
    /\ UNCHANGED <<keyFile, netVars, raced, killed>>

(* A server or `spraycc init` is killed when there is something to leave   *)
(* behind: an empty key file, or a contact file.                           *)
Kill(p) ==
    /\ phase[p] \in {"fill", "write", "serving"}
    /\ Cardinality(killed) < MaxKills
    /\ Gone(p)
    /\ linked' = linked \ {p}
    /\ killed' = killed \cup {p}
    /\ UNCHANGED <<keyFile, contact, netVars, raced>>

(* The start command of either queue, run by the cluster.                  *)
StartExec(s, e) ==
    /\ phase[s] = "serving"
    /\ Move(e, "none", "started")
    /\ callme' = [callme EXCEPT ![e] = s]
    /\ UNCHANGED <<key, fileVars, port, retries, link, ghosts>>

-----------------------------------------------------------------------------
(* Clients and execs.                                                      *)

(* read_server_contact_info: the nearest directory that has the file       *)
(* decides, readable or not.                                               *)
Holding(d) == {i \in 1 .. Len(Path[d]) : contact[Path[d][i]].exists}
Farthest(S) == CHOOSE i \in S : \A j \in S : i >= j             \* mutant
Nearest(S) == CHOOSE i \in S : \A j \in S : i <= j
ContactFrom(d) ==
    IF Holding(d) = {} THEN Absent ELSE contact[Path[d][Nearest(Holding(d))]]

(* The servers by which a client started in d should be served: theirs is  *)
(* the file to be found, and no other runs in d or above.                  *)
ServersFor(d) ==
    {s \in Servers :
        /\ phase[s] = "serving" /\ key[s] = KeyIn(keyFile)
        /\ Readable(contact[dir[s]]) /\ contact[dir[s]].by = s
        /\ dir[s] \in Above(d)
        /\ \A f \in Above(d) \ Above(dir[s]) : ~contact[f].exists
        /\ \A t \in Up : dir[t] \in Above(d) => t = s}

ClientStart(c) ==
    /\ LoadKey(c, "none", "search")
    /\ \E d \in Dirs :
          /\ dir' = [dir EXCEPT ![c] = d]
          /\ \/ ServersFor(d) = {} /\ UNCHANGED served
             \/ \E s \in ServersFor(d) : served' = [served EXCEPT ![c] = s]
    /\ UNCHANGED met

ReadContact(c) ==
    /\ phase[c] = "search"
    /\ LET file == ContactFrom(dir[c])
       IN  \/ /\ Readable(file)
              /\ Move(c, "search", "connect")
              /\ callme' = [callme EXCEPT ![c] = file.by]
              /\ UNCHANGED <<key, port, retries, link, ghosts>>
           \/ /\ ~Readable(file)
              /\ RemoteGone(c)
              /\ UNCHANGED <<port, raced, killed>>
    /\ UNCHANGED fileVars

ExecStart(e) ==
    /\ LoadKey(e, "started", "connect")
    /\ UNCHANGED <<dir, met, served>>

(* TcpStream::connect gets whoever listens at that port by now.            *)
At(x) == {s \in Listening : port[s] = port[callme[x]]}
Connect(x) ==
    /\ Move(x, "connect", "sent")
    /\ \E s \in At(x) : link' = [link EXCEPT ![x] = s]
    /\ UNCHANGED <<key, fileVars, port, callme, retries, ghosts>>

(* connect_w_retry tries the same address again; an exec gives up.         *)
ConnectFails(x) ==
    /\ phase[x] = "connect" /\ At(x) = {}
    /\ \/ /\ x \in Clients /\ retries[x] < MaxRetries
          /\ retries' = [retries EXCEPT ![x] = @ + 1]
          /\ UNCHANGED <<phase, dir, key, callme, link, met, served>>
       \/ /\ x \in Clients => retries[x] >= MaxRetries
          /\ RemoteGone(x)
    /\ UNCHANGED <<fileVars, port, raced, killed>>

NoCode(s, x) == TRUE                                            \* mutant
WholeCode(s, x) == callme[x] = s /\ x \notin Second                  \* mutant: the bit is not masked
(* The access code is that of this server; the last bit of an exec's code, *)
(* which says where it was started, does not count.                        *)
CodeMatches(s, x) == callme[x] = s

(* handle_connection reads the first message.  A remote whose codes do not *)
(* match becomes Dead in the loop but stays connected.                     *)
Check(x) ==
    /\ link[x] # None /\ phase[link[x]] = "serving"
    /\ Move(x, "sent",
            IF CodeMatches(link[x], x) /\ key[x] = key[link[x]] THEN "accepted" ELSE "refused")
    /\ UNCHANGED <<key, fileVars, netVars, ghosts>>

(* The server is gone: the remote's read returns None.                     *)
Disconnected(x) ==
    /\ phase[x] \in {"sent", "refused"}
    /\ phase[link[x]] = "gone"
    /\ RemoteGone(x)
    /\ UNCHANGED <<fileVars, port, raced, killed>>

-----------------------------------------------------------------------------
Init ==
    /\ phase = [p \in Processes |-> "none"]
    /\ dir = [p \in Servers \cup Clients |-> None]
    /\ keyFile = Absent
    /\ key = [p \in Processes |-> DefaultKey]
    /\ contact = [d \in Dirs |-> Absent]
    /\ linked = {}
    /\ port = [s \in Servers |-> None]
    /\ callme = [x \in Remotes |-> None]
    /\ retries = [x \in Remotes |-> 0]
    /\ link = [x \in Remotes |-> None]
    /\ raced = FALSE
    /\ met = {}
    /\ served = [c \in Clients |-> None]
    /\ killed = {}

CreatorStep(p) == CreateKey(p) \/ FillKey(p)
ServerStep(s) == CreatorStep(s) \/ Bind(s) \/ WriteContact(s) \/ ServerEnds(s)
RemoteStep(x) == Connect(x) \/ ConnectFails(x) \/ Check(x) \/ Disconnected(x)

Next ==
    \/ InitEnvironment \/ CreatorStep(InitCmd)
    \/ \E s \in Servers : ServerStart(s) \/ ServerStep(s)
    \/ \E s \in Servers, e \in Execs : StartExec(s, e)
    \/ \E p \in Creators : Kill(p)
    \/ \E c \in Clients : ClientStart(c) \/ ReadContact(c)
    \/ \E e \in Execs : ExecStart(e)
    \/ \E x \in Remotes : RemoteStep(x)

Spec == Init /\ [][Next]_vars

-----------------------------------------------------------------------------
(* While a server serves that has been the only one in its directory, the  *)
(* contact file there is its own ("Exactly one server is started per user, *)
(* per workspace"), and readable unless a killed server has left a longer  *)
(* one; whatever other servers wrote to or removed from it before.         *)
ContactFound ==
    \A s \in Servers \ met : phase[s] = "serving" =>
        /\ contact[dir[s]].by = s
        /\ ~Readable(contact[dir[s]]) => \E t \in killed \cap Servers : dir[t] = dir[s] /\ t \in Long

(* Although addresses are used again, and a client may still hold that of  *)
(* a server which is gone, a remote is accepted by no other server than    *)
(* the one that started it, or that serves a directory above it.           *)
OwnServer ==
    \A x \in Remotes : phase[x] = "accepted" =>
        IF x \in Execs THEN link[x] = callme[x]
        ELSE dir[link[x]] \in Above(dir[x])

(* As long as nobody loads the user key while another process makes it, a  *)
(* server refuses none of its own execs, and a client that knows its code  *)
(* only if that client was started before there was a key.                 *)
RefusedOnlyByRace ==
    \A x \in Remotes : phase[x] = "refused" /\ callme[x] = link[x] =>
        \/ raced
        \/ x \in Clients /\ key[x] = DefaultKey

(* A client for which a server was there when it started, with the key of  *)
(* the key file, reaches that server and is not turned away, as long as it *)
(* serves and no other is started in this directory or above: whatever     *)
(* servers elsewhere do and servers before it have left behind.            *)
ServedInTheEnd ==
    \A c \in Clients : served[c] # None =>
        phase[c] \in {"search", "connect", "sent", "accepted"} /\ callme[c] \in {None, served[c]}
=============================================================================
