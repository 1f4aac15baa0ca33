---------------------------- MODULE MCTaskFiles -----------------------------
(* A small instance of TaskFiles for TLC.                                  *)
EXTENDS TaskFiles

X == FileName("a", <<"x">>)
OtherX == FileName("b", <<"x">>)
X1 == FileName("b", <<"x", 1>>)
Names == {X, OtherX, X1}

(* Command lines with an option, with up to three outputs and with a last  *)
(* -o.                                                                     *)
Option(o) == <<Word(o)>>
Output(o, n) == <<Word(o), n>>

Rests ==
    {Option(o) \o p : o \in {"-c", "-M", "main.c"}, p \in {<<>>} \cup {Output("-o", n) : n \in Names}}
    \cup {Output("-o", n) \o Output("-MF", m) \o Option("-c") : n, m \in Names}
    \cup {Output("-o", s[1]) \o Output("-o", s[2]) \o Output("-MF", s[3]) \o Option("-MD") :
            s \in {<<X, OtherX, X1>>, <<X1, X, OtherX>>}}
    \cup {Option("-c") \o Option("-o")}

MCCommandLines ==
    {line \in {Option("gcc") \o rest : rest \in Rests} : IsCommandLine(line)} \cup {<<Word("ar"), Word("rc")>>}
MCSizes == {NotWritten, 0, 2}
MCExitCodes == {Signal, 0, 1}
MCLines ==
    {<<>>, <<Line("a", "crlf"), Line("b", "none")>>, <<Line(NotUtf8, "lf"), Line("b", "none")>>,
     <<Line("a", "lf"), Line(NotUtf8, "lf"), Line("b", "lf"), Line("a", "crlf")>>}
=============================================================================
