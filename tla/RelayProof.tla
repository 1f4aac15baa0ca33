----------------------------- MODULE RelayProof -----------------------------
(***************************************************************************)
(* The frames of an exec arrive whole (FramesWhole of Relay), for any      *)
(* number of execs and clients, any capacity of the channels and sockets   *)
(* and any length of prefix and body.                                      *)
(***************************************************************************)
EXTENDS Relay, SequenceTheorems, TLAPS

-----------------------------------------------------------------------------
(* The inductive invariant.                                                *)

Results == {"TaskOutput", "TaskDone"}
FrameLen == PrefixLen + BodyLen
Units == [msg : Messages, at : Nat]

RelayTypeOK ==
    /\ alive \in [Remotes -> BOOLEAN]
    /\ job \in [Execs -> Clients \cup {None}]
    /\ wrote \in [Execs -> Nat]
    /\ writing \in [Execs -> Seq(Units)]
    /\ sock \in [Remotes -> Seq(Units)]
    /\ buf \in [Remotes -> Seq(Units)]
    /\ need \in [Remotes -> {0, BodyLen}]
    /\ decoded \in [Remotes -> Nat]
    /\ relay \in [Remotes -> {"select", "send", "write", "drop", "done"}]
    /\ hold \in [Remotes -> Messages]
    /\ inbound \in Seq([from : Remotes, msg : Messages])
    /\ out \in [Remotes -> Seq(Messages)]
    /\ sockDown \in [Remotes -> Seq(Messages)]
    /\ sends \in Seq([to : Remotes \cup {None}, msg : Messages])
    /\ paired \in [Execs -> Clients \cup {None}]
    /\ waiting \subseteq Clients

(* The units of k frames.                                                  *)
Span(k) == FrameLen * k

(* q, of which the first off units of a frame are missing, is frames       *)
(* number d + 1 to w, one after the other.                                 *)
Framed(q, off, d, w) ==
    /\ Len(q) + off = Span(w - d)
    /\ \A i \in 1 .. Len(q) :
          /\ q[i].msg.type \in Results
          /\ q[i].at \in 1 .. FrameLen
          /\ off + i = Span(q[i].msg.seq - d - 1) + q[i].at
    /\ \A i, j \in 1 .. Len(q) : q[i].msg.seq = q[j].msg.seq => q[i].msg = q[j].msg

(* All that is between write_message of an exec and read_message of its    *)
(* relay, and how much of the first frame the latter has consumed.         *)
Flow(e) == buf[e] \o sock[e] \o writing[e]
Taken(n) == IF n = 0 THEN 0 ELSE PrefixLen

Stream(e) ==
    /\ Framed(Flow(e), Taken(need[e]), decoded[e], wrote[e])
    /\ decoded[e] <= wrote[e]
    /\ Len(writing[e]) <= FrameLen

(* What the relay has decoded and the loop has not handled.                *)
Unhandled(e, i) == inbound[i].from = e /\ inbound[i].msg.type \in Results

Order(e) ==
    /\ relay[e] = "send" => hold[e].type \in Results /\ hold[e].seq = decoded[e]
    /\ \A i \in 1 .. Len(inbound) : Unhandled(e, i) =>
          /\ inbound[i].msg.seq <= decoded[e]
          /\ relay[e] = "send" => inbound[i].msg.seq < decoded[e]
    /\ \A i, j \in 1 .. Len(inbound) : i < j /\ Unhandled(e, i) /\ Unhandled(e, j) =>
          inbound[i].msg.seq < inbound[j].msg.seq

(* TaskDone is the last an exec says before it gets a task.                *)
LastSaid(e, m) == m.type = "TaskDone" => m.seq = wrote[e] /\ job[e] = None

Lasts(e) ==
    /\ \A i \in 1 .. Len(Flow(e)) : LastSaid(e, Flow(e)[i].msg)
    /\ relay[e] = "send" => LastSaid(e, hold[e])
    /\ \A i \in 1 .. Len(inbound) : inbound[i].from = e => LastSaid(e, inbound[i].msg)

(* A task for the exec is under way, at one of four places, and then the   *)
(* exec is idle and has been heard out.                                    *)
Sending(e) == \E i \in 1 .. Len(sends) : sends[i].to = e
UnderWay(e) == Sending(e) \/ out[e] # <<>> \/ relay[e] = "write" \/ sockDown[e] # <<>>

Idle(e) ==
    /\ job[e] = None
    /\ wrote[e] = decoded[e]
    /\ relay[e] # "send"
    /\ \A i \in 1 .. Len(inbound) : ~Unhandled(e, i)

OneTask(e) ==
    /\ UnderWay(e) => Idle(e)
    /\ \A i \in 1 .. Len(sends) : sends[i].to = e => i = Len(sends)
    /\ Len(out[e]) <= 1 /\ Len(sockDown[e]) <= 1
    /\ Sending(e) => out[e] = <<>> /\ relay[e] # "write" /\ sockDown[e] = <<>>
    /\ out[e] # <<>> => relay[e] # "write" /\ sockDown[e] = <<>>
    /\ relay[e] = "write" => sockDown[e] = <<>>

(* The end of the stream of an exec.                                       *)
AtEnd(e) ==
    relay[e] = "drop" =>
        ~alive[e] /\ wrote[e] = decoded[e] + (IF writing[e] = <<>> THEN 0 ELSE 1)

(* Clients say nothing; what their relays send is Dropped.                 *)
Quiet ==
    /\ \A c \in Clients : sock[c] = <<>> /\ buf[c] = <<>> /\ relay[c] # "send"
    /\ \A i \in 1 .. Len(inbound) : inbound[i].from \in Clients => inbound[i].msg.type = "Dropped"

ExecInv(e) == Stream(e) /\ Order(e) /\ Lasts(e) /\ OneTask(e) /\ AtEnd(e)

RelayInv ==
    /\ RelayTypeOK
    /\ Quiet
    /\ \A e \in Execs : ExecInv(e)

-----------------------------------------------------------------------------
(* Sequences.                                                              *)

LEMMA ConcatFacts ==
    ASSUME NEW S, NEW s \in Seq(S), NEW t \in Seq(S)
    PROVE  /\ s \o t \in Seq(S)
           /\ Len(s \o t) = Len(s) + Len(t)
           /\ \A i \in 1 .. Len(s) : (s \o t)[i] = s[i]
           /\ \A i \in 1 .. Len(t) : (s \o t)[Len(s) + i] = t[i]
    OBVIOUS

LEMMA RestFacts ==
    ASSUME NEW S, NEW s \in Seq(S), NEW k \in 0 .. Len(s)
    PROVE  /\ SubSeq(s, k + 1, Len(s)) \in Seq(S)
           /\ Len(SubSeq(s, k + 1, Len(s))) = Len(s) - k
           /\ \A i \in 1 .. Len(s) - k : SubSeq(s, k + 1, Len(s))[i] = s[k + i]
    OBVIOUS

Left(s, k) ==
    /\ Len(SubSeq(s, k + 1, Len(s))) = Len(s) - k
    /\ \A i \in 1 .. Len(s) - k : SubSeq(s, k + 1, Len(s))[i] = s[k + i]

LEMMA UnitsLeft ==
    ASSUME NEW s \in Seq(Units), NEW k \in 0 .. Len(s)
    PROVE  Left(s, k)
    BY RestFacts DEF Left

LEMMA RestOfRest ==
    ASSUME NEW S, NEW s \in Seq(S), NEW k \in 0 .. Len(s), NEW j \in 0 .. Len(s) - k
    PROVE  LET t == SubSeq(s, k + 1, Len(s))
           IN  SubSeq(t, j + 1, Len(t)) = SubSeq(s, (k + j) + 1, Len(s))
<1> DEFINE t == SubSeq(s, k + 1, Len(s))
           u == SubSeq(t, j + 1, Len(t))
           v == SubSeq(s, (k + j) + 1, Len(s))
<1>0. Len(s) \in Nat /\ k \in Nat /\ j \in Nat /\ k + j \in 0 .. Len(s)
    OBVIOUS
<1>1. t \in Seq(S) /\ Len(t) = Len(s) - k /\ \A i \in 1 .. Len(s) - k : t[i] = s[k + i]
    BY RestFacts
<1> HIDE DEF t
<1>a. t \in Seq(S) /\ j \in 0 .. Len(t)
    BY <1>1
<1>2. u \in Seq(S) /\ Len(u) = Len(t) - j /\ \A i \in 1 .. Len(t) - j : u[i] = t[j + i]
    BY <1>a, RestFacts
<1> HIDE DEF u
<1>3. v \in Seq(S) /\ Len(v) = Len(s) - (k + j) /\ \A i \in 1 .. Len(s) - (k + j) : v[i] = s[(k + j) + i]
    BY <1>0, RestFacts
<1> HIDE DEF v
<1>4. ASSUME NEW i \in 1 .. Len(u) PROVE u[i] = v[i]
  <2>1. /\ i \in 1 .. Len(t) - j /\ j + i \in 1 .. Len(s) - k /\ i \in 1 .. Len(s) - (k + j)
        /\ k + (j + i) = (k + j) + i
      BY <1>0, <1>1, <1>2
  <2>2. u[i] = s[k + (j + i)]
      BY <1>1, <1>2, <2>1
  <2> QED
      BY <1>3, <2>1, <2>2
<1>5. Len(u) = Len(v)
    BY <1>0, <1>1, <1>2, <1>3
<1>6. u = v
    BY <1>2, <1>3, <1>4, <1>5, SeqEqual
<1> QED
    BY <1>6 DEF t, u, v

LEMMA FirstFacts ==
    ASSUME NEW S, NEW s \in Seq(S), NEW k \in 0 .. Len(s)
    PROVE  /\ SubSeq(s, 1, k) \in Seq(S)
           /\ Len(SubSeq(s, 1, k)) = k
           /\ \A i \in 1 .. k : SubSeq(s, 1, k)[i] = s[i]
    OBVIOUS

LEMMA FrameFacts ==
    ASSUME NEW m \in Messages
    PROVE  /\ Frame(m) \in Seq(Units) /\ Len(Frame(m)) = FrameLen
           /\ \A i \in 1 .. FrameLen : Frame(m)[i].msg = m /\ Frame(m)[i].at = i
<1>1. FrameLen \in Nat
    BY RelayAssumption DEF FrameLen
<1>2. \A i \in 1 .. FrameLen : [msg |-> m, at |-> i] \in Units
    BY <1>1 DEF Units
<1>3. Frame(m) = [i \in 1 .. FrameLen |-> [msg |-> m, at |-> i]]
    BY DEF Frame, FrameLen
<1>4. Frame(m) \in [1 .. FrameLen -> Units]
    BY <1>2, <1>3
<1>5. Frame(m) \in Seq(Units)
    BY <1>1, <1>4, SeqDef, Zenon
<1>6. Len(Frame(m)) \in Nat /\ 1 .. Len(Frame(m)) = 1 .. FrameLen
    BY <1>4, <1>5, LenProperties, Zenon
<1>7. \A k, n \in Nat : 1 .. k = 1 .. n => k = n
    OBVIOUS
<1>8. Len(Frame(m)) = FrameLen
    BY <1>1, <1>6, <1>7
<1>9. \A i \in 1 .. FrameLen : Frame(m)[i] = [msg |-> m, at |-> i]
    BY <1>3
<1> QED
    BY <1>5, <1>8, <1>9

LEMMA Lengths ==
    /\ FrameLen \in Nat /\ FrameLen > PrefixLen /\ PrefixLen > 0 /\ FrameLen = PrefixLen + BodyLen
    /\ PrefixLen \in Nat /\ BodyLen \in Nat /\ BodyLen > 0
    BY RelayAssumption DEF FrameLen

-----------------------------------------------------------------------------
(* Positions in frames.                                                    *)

LEMMA SpanFacts ==
    ASSUME NEW k \in Int
    PROVE  /\ Span(k) \in Int /\ Span(k + 1) = Span(k) + FrameLen
           /\ k >= 1 => Span(k) >= FrameLen
           /\ k <= -1 => Span(k) <= -FrameLen
           /\ k = 0 => Span(k) = 0
           /\ k = 1 => Span(k) = FrameLen
<1>1. Span(k) \in Int /\ Span(k + 1) = Span(k) + FrameLen
    BY Lengths DEF Span
<1>2. k >= 1 => Span(k) >= FrameLen
    BY Lengths DEF Span
<1>3. k <= -1 => Span(k) <= -FrameLen
    BY Lengths DEF Span
<1>4. /\ k = 0 => Span(k) = 0
      /\ k = 1 => Span(k) = FrameLen
    BY Lengths DEF Span
<1> QED
    BY <1>1, <1>2, <1>3, <1>4

LEMMA SpanOrder ==
    ASSUME NEW j \in Int, NEW k \in Int, Span(j) < Span(k)
    PROVE  j < k
    BY Lengths DEF Span

LEMMA SpanZero ==
    ASSUME NEW k \in Int, Span(k) < FrameLen, Span(k) > -FrameLen
    PROVE  k = 0 /\ Span(k) = 0
<1>1. /\ Span(k) \in Int
      /\ k >= 1 => Span(k) >= FrameLen
      /\ k <= -1 => Span(k) <= -FrameLen
      /\ k = 0 => Span(k) = 0
    BY SpanFacts
<1>2. ~(k >= 1) /\ ~(k <= -1)
    BY <1>1, Lengths
<1>3. k = 0
    BY <1>2
<1> QED
    BY <1>1, <1>3

(* A unit of what has been written.                                        *)
LEMMA InPast ==
    ASSUME NEW k \in Int, NEW l \in Int, NEW pos \in Int, NEW at \in Int, at >= 1,
           pos = Span(k) + at, pos <= Span(l)
    PROVE  k < l
<1>1. Span(k) \in Int /\ Span(l) \in Int
    BY SpanFacts
<1>2. Span(k) < Span(l)
    BY <1>1
<1> QED
    BY <1>2, SpanOrder

LEMMA SpanNext ==
    ASSUME NEW k \in Int, NEW l \in Int
    PROVE  /\ Span(k) \in Int /\ Span(l) \in Int
           /\ k = l => Span(k) = Span(l)
           /\ k = l + 1 => Span(k) = Span(l) + FrameLen
    BY SpanFacts

-----------------------------------------------------------------------------
(* read_message.                                                           *)

LEMMA GarbageType == Garbage \in Messages
    BY DEF Garbage, Msg, Messages

Parsed(b, n, res) ==
    \E c \in 0 .. Len(b) :
       /\ res.buf = SubSeq(b, c + 1, Len(b))
       /\ res.need \in {0, BodyLen}
       /\ Len(b) + Taken(n) < FrameLen =>
             Taken(res.need) = Taken(n) + c /\ res.msg = None
       /\ Len(b) + Taken(n) >= FrameLen =>
             /\ res.need = 0 /\ Taken(n) + c = FrameLen
             /\ res.msg \in Messages
             /\ (\A i \in 1 .. c : b[i] = [msg |-> b[1].msg, at |-> Taken(n) + i])
                    => res.msg = b[1].msg

(* It takes c units off the buffer: the rest of a frame, if that is there; *)
(* the length, if that is all there is, and it was not taken before; or    *)
(* nothing.                                                                *)
LEMMA ParseSteps ==
    ASSUME NEW b \in Seq(Units), NEW n \in {0, BodyLen}
    PROVE  \E c \in 0 .. Len(b) :
              /\ Parse(b, n).buf = SubSeq(b, c + 1, Len(b))
              /\ Parse(b, n).need \in {0, BodyLen}
              /\ Len(b) + Taken(n) < FrameLen =>
                    Taken(Parse(b, n).need) = Taken(n) + c /\ Parse(b, n).msg = None
              /\ Len(b) + Taken(n) >= FrameLen =>
                    /\ Parse(b, n).need = 0 /\ Taken(n) + c = FrameLen
                    /\ Parse(b, n).msg \in Messages
                    /\ (\A i \in 1 .. c : b[i] = [msg |-> b[1].msg, at |-> Taken(n) + i])
                           => Parse(b, n).msg = b[1].msg
<1>0. /\ PrefixLen \in Nat /\ PrefixLen > 0 /\ BodyLen \in Nat /\ BodyLen > 0
      /\ FrameLen = PrefixLen + BodyLen /\ Len(b) \in Nat
      /\ SubSeq(b, 1, Len(b)) = b /\ SubSeq(b, 0 + 1, Len(b)) = b
    BY Lengths
<1> DEFINE rest == SubSeq(b, PrefixLen + 1, Len(b))
<1>1. CASE n = 0 /\ Len(b) < PrefixLen
  <2>1. Parse(b, n) = [buf |-> b, need |-> 0, msg |-> None]
      BY <1>0, <1>1 DEF Parse
  <2>2. Len(b) + Taken(n) < FrameLen /\ Taken(n) = 0
      BY <1>0, <1>1 DEF Taken
  <2> QED
      BY <1>0, <1>1, <2>1, <2>2
<1>2. CASE n = 0 /\ Len(b) >= PrefixLen /\ Len(b) < FrameLen
  <2>0. PrefixLen \in 0 .. Len(b)
      BY <1>0, <1>2
  <2>a. Len(rest) = Len(b) - PrefixLen
      BY <2>0, RestFacts
  <2> HIDE DEF rest
  <2>b. Len(rest) < BodyLen /\ BodyLen > 0 /\ n = 0 /\ Len(b) >= PrefixLen
      BY <1>0, <1>2, <2>a
  <2>1. Parse(b, n) = [buf |-> rest, need |-> BodyLen, msg |-> None]
      BY <1>0, <2>b DEF Parse, rest
  <2>2. Len(b) + Taken(n) < FrameLen /\ Taken(n) = 0 /\ Taken(BodyLen) = PrefixLen
      BY <1>0, <1>2 DEF Taken
  <2> QED
      BY <1>0, <1>2, <2>0, <2>1, <2>2 DEF rest
<1>3. CASE n = 0 /\ Len(b) >= FrameLen
  <2>a. PrefixLen \in 0 .. Len(b) /\ BodyLen \in 0 .. Len(b) - PrefixLen /\ n = 0 /\ Len(b) >= PrefixLen
      BY <1>0, <1>3
  <2>b. /\ Len(rest) = Len(b) - PrefixLen /\ rest \in Seq(Units)
        /\ \A i \in 1 .. Len(b) - PrefixLen : rest[i] = b[PrefixLen + i]
      BY <2>a, RestFacts
  <2>c. SubSeq(rest, BodyLen + 1, Len(rest)) = SubSeq(b, FrameLen + 1, Len(b))
      BY <1>0, <2>a, RestOfRest
  <2> HIDE DEF rest
  <2>d. Len(rest) >= BodyLen /\ 1 \in 1 .. Len(rest) /\ \A i \in 1 .. BodyLen : i \in 1 .. Len(b) - PrefixLen
      BY <1>0, <2>a, <2>b
  <2>0. /\ rest[1] \in Units
        /\ \A i \in 1 .. BodyLen : rest[i] = b[PrefixLen + i]
      BY <2>b, <2>d, ElementOfSeq
  <2>1. /\ Parse(b, n).buf = SubSeq(b, FrameLen + 1, Len(b)) /\ Parse(b, n).need = 0
        /\ Parse(b, n).msg = IF Aligned(b, 1, PrefixLen + BodyLen) /\ Aligned(rest, PrefixLen + 1, BodyLen)
                             THEN rest[1].msg ELSE Garbage
      BY <1>0, <2>a, <2>c, <2>d DEF Parse, rest
  <2>2. Len(b) + Taken(n) >= FrameLen /\ Taken(n) = 0
      BY <1>0, <1>3 DEF Taken
  <2>3. Garbage \in Messages /\ rest[1].msg \in Messages
      BY <2>0, GarbageType DEF Units
  <2>4. ASSUME \A i \in 1 .. FrameLen : b[i] = [msg |-> b[1].msg, at |-> i]
        PROVE  Parse(b, n).msg = b[1].msg
    <3>1. Aligned(b, 1, PrefixLen + BodyLen)
        BY <1>0, <2>4 DEF Aligned
    <3>2. 1 \in 1 .. BodyLen /\ \A i \in 1 .. BodyLen : PrefixLen + i \in 1 .. FrameLen
        BY <1>0
    <3>3. \A i \in 1 .. BodyLen : rest[i] = [msg |-> b[1].msg, at |-> PrefixLen + i]
        BY <2>0, <2>4, <3>2
    <3>4. rest[1].msg = b[1].msg
      <4>1. rest[1] = [msg |-> b[1].msg, at |-> PrefixLen + 1]
          BY <3>2, <3>3
      <4> QED
          BY <4>1
    <3>5. Aligned(rest, PrefixLen + 1, BodyLen)
        BY <1>0, <3>3, <3>4 DEF Aligned
    <3> QED
        BY <2>1, <3>1, <3>4, <3>5
  <2>5. FrameLen \in 0 .. Len(b)
      BY <1>0, <1>3
  <2> QED
      BY <1>0, <1>3, <2>1, <2>2, <2>3, <2>4, <2>5
<1>4. CASE n = BodyLen /\ Len(b) < BodyLen
  <2>1. Parse(b, n) = [buf |-> b, need |-> BodyLen, msg |-> None]
      BY <1>0, <1>4 DEF Parse
  <2>2. Len(b) + Taken(n) < FrameLen /\ Taken(n) = PrefixLen
      BY <1>0, <1>4 DEF Taken
  <2> QED
      BY <1>0, <1>4, <2>1, <2>2
<1>5. CASE n = BodyLen /\ Len(b) >= BodyLen
  <2>1. /\ Parse(b, n).buf = SubSeq(b, BodyLen + 1, Len(b)) /\ Parse(b, n).need = 0
        /\ Parse(b, n).msg = IF Aligned(b, PrefixLen + 1, BodyLen) THEN b[1].msg ELSE Garbage
      BY <1>0, <1>5 DEF Parse
  <2>2. Len(b) + Taken(n) >= FrameLen /\ Taken(n) = PrefixLen
      BY <1>0, <1>5 DEF Taken
  <2>3. Garbage \in Messages /\ b[1].msg \in Messages
    <3>1. 1 \in 1 .. Len(b)
        BY <1>0, <1>5
    <3>2. b[1] \in Units
        BY <3>1, ElementOfSeq
    <3> QED
        BY <3>2, GarbageType DEF Units
  <2>4. ASSUME \A i \in 1 .. BodyLen : b[i] = [msg |-> b[1].msg, at |-> PrefixLen + i]
        PROVE  Parse(b, n).msg = b[1].msg
      BY <1>0, <2>1, <2>4 DEF Aligned
  <2> QED
      BY <1>0, <1>5, <2>1, <2>2, <2>3, <2>4
<1>6. \/ n = 0 /\ Len(b) < PrefixLen
      \/ n = 0 /\ Len(b) >= PrefixLen /\ Len(b) < FrameLen
      \/ n = 0 /\ Len(b) >= FrameLen
      \/ n = BodyLen /\ Len(b) < BodyLen
      \/ n = BodyLen /\ Len(b) >= BodyLen
    BY <1>0
<1> QED
    BY <1>1, <1>2, <1>3, <1>4, <1>5, <1>6, Zenon

LEMMA ParseFacts ==
    ASSUME NEW b \in Seq(Units), NEW n \in {0, BodyLen}
    PROVE  Parsed(b, n, Parse(b, n))
    BY ParseSteps DEF Parsed

-----------------------------------------------------------------------------
(* Frames on their way.                                                    *)

LEMMA UnitFacts ==
    ASSUME NEW q \in Seq(Units), NEW i \in 1 .. Len(q)
    PROVE  q[i] \in Units /\ q[i].msg \in Messages /\ q[i].msg.seq \in Nat /\ q[i].at \in Nat
           /\ q[i] = [msg |-> q[i].msg, at |-> q[i].at] /\ Len(q) \in Nat /\ i \in Nat
<1>1. q[i] \in Units /\ Len(q) \in Nat
    BY ElementOfSeq, LenProperties
<1> QED
    BY <1>1 DEF Units, Messages

(* The conjuncts of Framed, for one unit.                                  *)
InStep(q, i, off, d, w) ==
    /\ q[i].msg.seq \in Nat /\ q[i].at \in Nat /\ q[i].msg.type \in Results
    /\ q[i].at >= 1 /\ q[i].at <= FrameLen
    /\ off + i = Span(q[i].msg.seq - d - 1) + q[i].at
    /\ off + i <= Span(w - d) /\ q[i].msg.seq <= w

LEMMA FramedUnit ==
    ASSUME NEW q \in Seq(Units), NEW off \in Nat, NEW d \in Nat, NEW w \in Nat, Framed(q, off, d, w),
           NEW i \in 1 .. Len(q)
    PROVE  InStep(q, i, off, d, w)
<1>0. Len(q) \in Nat /\ i \in Nat /\ i <= Len(q) /\ Len(q) + off = Span(w - d) /\ FrameLen \in Nat
    BY UnitFacts, Lengths DEF Framed
<1>1. PICK sq \in Nat : sq = q[i].msg.seq
    BY UnitFacts
<1>2. PICK at \in Nat : at = q[i].at
    BY UnitFacts
<1>3. q[i].msg.type \in Results /\ at \in 1 .. FrameLen /\ off + i = Span(sq - d - 1) + at
    BY <1>1, <1>2 DEF Framed
<1>4. at >= 1 /\ at <= FrameLen /\ off + i \in Int
    BY <1>0, <1>3
<1>5. off + i <= Span(w - d)
    BY <1>0
<1>6. sq <= w
  <2>1. PICK k \in Int : k = sq - d - 1
      OBVIOUS
  <2>2. PICK l \in Int : l = w - d
      OBVIOUS
  <2>3. PICK pos \in Int : pos = off + i
      BY <1>4
  <2>4. pos = Span(k) + at /\ pos <= Span(l) /\ at >= 1 /\ at \in Int
      BY <1>3, <1>4, <1>5, <2>1, <2>2, <2>3
  <2>5. k < l
      BY <2>4, InPast
  <2> QED
      BY <2>1, <2>2, <2>5
<1> QED
    BY <1>1, <1>2, <1>3, <1>4, <1>5, <1>6 DEF InStep

(* Reading goes on in the frame, or to the next.                           *)
LEMMA FramedRead ==
    ASSUME NEW q \in Seq(Units), NEW off \in Nat, NEW d \in Nat, NEW w \in Nat, Framed(q, off, d, w),
           NEW c \in 0 .. Len(q), NEW off2 \in Nat, NEW d2 \in Nat,
           \/ d2 = d /\ off2 = off + c
           \/ d2 = d + 1 /\ off2 + FrameLen = off + c
    PROVE  Framed(SubSeq(q, c + 1, Len(q)), off2, d2, w)
<1>0. PICK r : r = SubSeq(q, c + 1, Len(q))
    OBVIOUS
<1>1. /\ r \in Seq(Units) /\ Len(r) = Len(q) - c /\ Len(q) \in Nat
      /\ \A i \in 1 .. Len(q) - c : r[i] = q[c + i]
    BY <1>0, RestFacts, LenProperties
<1>a. c \in Int /\ Len(q) \in Nat /\ Len(r) = Len(q) - c /\ FrameLen \in Nat
    BY <1>1, Lengths
<1>c. c \in Int
    BY <1>a
<1>3. Len(r) + off2 = Span(w - d2)
  <2>1. Len(q) + off = Span(w - d)
      BY DEF Framed
  <2>a. PICK k \in Int : k = w - d
      OBVIOUS
  <2>b. PICK l \in Int : l = w - d2
      OBVIOUS
  <2>c. \/ k = l /\ off2 = off + c
        \/ k = l + 1 /\ off2 + FrameLen = off + c
      BY <2>a, <2>b
  <2>d. off \in Int /\ off2 \in Int
      OBVIOUS
  <2>2. Span(k) \in Int /\ Span(l) \in Int /\ Span(l) + off = Span(k) + off2 - c
    <3>1. /\ Span(k) \in Int /\ Span(l) \in Int
          /\ k = l => Span(k) = Span(l)
          /\ k = l + 1 => Span(k) = Span(l) + FrameLen
        BY SpanNext
    <3>2. PICK sk \in Int : sk = Span(k)
        BY <3>1
    <3>3. PICK sl \in Int : sl = Span(l)
        BY <3>1
    <3>4. PICK f \in Int : f = FrameLen
        BY <1>a
    <3>5. \/ sk = sl /\ off2 = off + c
          \/ sk = sl + f /\ off2 + f = off + c
        BY <2>c, <2>d, <3>1, <3>2, <3>3, <3>4
    <3>6. sl + off = sk + off2 - c
        BY <1>c, <2>d, <3>5
    <3> QED
        BY <3>1, <3>2, <3>3, <3>6
  <2>3. Len(q) + off = Span(k)
      BY <2>1, <2>a
  <2>4. Len(r) + off2 = Span(l)
    <3>1. PICK sk \in Int : sk = Span(k)
        BY <2>2
    <3>2. PICK sl \in Int : sl = Span(l)
        BY <2>2
    <3>3. PICK n \in Int : n = Len(q)
        BY <1>a
    <3>4. sl + off = sk + off2 - c /\ n + off = sk /\ Len(r) = n - c
        BY <1>a, <2>2, <2>3, <3>1, <3>2, <3>3
    <3>5. (n - c) + off2 = sl
        BY <1>c, <2>d, <3>4
    <3> QED
        BY <3>2, <3>4, <3>5
  <2> QED
      BY <2>4, <2>b
<1>4. \A i \in 1 .. Len(r) : c + i \in 1 .. Len(q) /\ r[i] = q[c + i] /\ i \in Nat
    BY <1>1
<1>5. ASSUME NEW i \in 1 .. Len(r)
      PROVE  /\ r[i].msg.type \in Results /\ r[i].at \in 1 .. FrameLen
             /\ off2 + i = Span(r[i].msg.seq - d2 - 1) + r[i].at
  <2>1. PICK j \in 1 .. Len(q) : j = c + i /\ r[i] = q[j]
      BY <1>4
  <2>u. InStep(q, j, off, d, w)
      BY FramedUnit
  <2>p. /\ q[j].msg.seq \in Nat /\ q[j].at \in Nat /\ q[j].msg.type \in Results
        /\ q[j].at >= 1 /\ q[j].at <= FrameLen
        /\ off + j = Span(q[j].msg.seq - d - 1) + q[j].at
        /\ q[j].msg.seq <= w
      BY <2>u DEF InStep
  <2>s. PICK sq \in Nat : sq = q[j].msg.seq
      BY <2>p
  <2>t. PICK at \in Nat : at = q[j].at
      BY <2>p
  <2>2. /\ q[j].msg.seq = sq /\ q[j].at = at /\ q[j].msg.type \in Results
        /\ at >= 1 /\ at <= FrameLen /\ off + j = Span(sq - d - 1) + at /\ sq <= w
      BY <2>p, <2>s, <2>t
  <2>3. PICK k \in Int : k = sq - d - 1
      OBVIOUS
  <2>4. PICK l \in Int : l = sq - d2 - 1
      OBVIOUS
  <2>a. \/ k = l /\ off2 = off + c
        \/ k = l + 1 /\ off2 + FrameLen = off + c
      BY <2>3, <2>4
  <2>b. off \in Int /\ off2 \in Int
      OBVIOUS
  <2>5. Span(k) \in Int /\ Span(l) \in Int /\ Span(l) + off = Span(k) + off2 - c
    <3>1. /\ Span(k) \in Int /\ Span(l) \in Int
          /\ k = l => Span(k) = Span(l)
          /\ k = l + 1 => Span(k) = Span(l) + FrameLen
        BY SpanNext
    <3>2. PICK sk \in Int : sk = Span(k)
        BY <3>1
    <3>3. PICK sl \in Int : sl = Span(l)
        BY <3>1
    <3>4. PICK f \in Int : f = FrameLen
        BY <1>a
    <3>5. \/ sk = sl /\ off2 = off + c
          \/ sk = sl + f /\ off2 + f = off + c
        BY <2>a, <2>b, <3>1, <3>2, <3>3, <3>4
    <3>6. sl + off = sk + off2 - c
        BY <1>c, <2>b, <3>5
    <3> QED
        BY <3>1, <3>2, <3>3, <3>6
  <2>6. off + j = Span(k) + at
      BY <2>2, <2>3
  <2>7. i \in Int /\ j = c + i
      BY <1>4, <2>1
  <2>c. off2 + i = Span(l) + at
    <3>1. PICK sk \in Int : sk = Span(k)
        BY <2>5
    <3>2. PICK sl \in Int : sl = Span(l)
        BY <2>5
    <3>3. sl + off = sk + off2 - c /\ off + (c + i) = sk + at
        BY <2>5, <2>6, <2>7, <3>1, <3>2
    <3>4. off2 + i = sl + at
        BY <1>c, <2>b, <2>7, <3>3
    <3> QED
        BY <3>2, <3>4
  <2>8. off2 + i = Span(sq - d2 - 1) + at
      BY <2>4, <2>c
  <2>9. at \in 1 .. FrameLen
      BY <2>2, Lengths
  <2> QED
      BY <2>1, <2>2, <2>8, <2>9
<1>6. ASSUME NEW i \in 1 .. Len(r), NEW j \in 1 .. Len(r), r[i].msg.seq = r[j].msg.seq
      PROVE  r[i].msg = r[j].msg
  <2>1. PICK k \in 1 .. Len(q) : r[i] = q[k]
      BY <1>4
  <2>2. PICK l \in 1 .. Len(q) : r[j] = q[l]
      BY <1>4
  <2>3. q[k].msg.seq = q[l].msg.seq => q[k].msg = q[l].msg
      BY DEF Framed
  <2> QED
      BY <1>6, <2>1, <2>2, <2>3
<1>7. Framed(r, off2, d2, w)
    BY <1>3, <1>5, <1>6 DEF Framed
<1> QED
    BY <1>0, <1>7

(* The units of the first frame are in step.                               *)
LEMMA FramedHead ==
    ASSUME NEW q \in Seq(Units), NEW off \in Nat, NEW d \in Nat, NEW w \in Nat, Framed(q, off, d, w),
           NEW c \in 1 .. Len(q), off + c <= FrameLen
    PROVE  /\ \A i \in 1 .. c : q[i] = [msg |-> q[1].msg, at |-> off + i]
           /\ q[1].msg \in Messages /\ q[1].msg.seq = d + 1 /\ q[1].msg.type \in Results
<1>0. Len(q) \in Nat /\ c \in Nat /\ c <= Len(q) /\ c >= 1 /\ FrameLen \in Nat
    BY LenProperties, Lengths
<1>1. ASSUME NEW i \in 1 .. c PROVE i \in 1 .. Len(q) /\ q[i].msg.seq = d + 1 /\ q[i].at = off + i
  <2>0. i \in 1 .. Len(q) /\ off + i <= FrameLen /\ off + i >= 1 /\ off + i \in Int
      BY <1>0
  <2>u. InStep(q, i, off, d, w)
      BY <2>0, FramedUnit
  <2>p. /\ q[i].msg.seq \in Nat /\ q[i].at \in Nat /\ q[i].msg.type \in Results
        /\ q[i].at >= 1 /\ q[i].at <= FrameLen
        /\ off + i = Span(q[i].msg.seq - d - 1) + q[i].at
        /\ q[i].msg.seq <= w
      BY <2>u DEF InStep
  <2>s. PICK sq \in Nat : sq = q[i].msg.seq
      BY <2>p
  <2>t. PICK at \in Nat : at = q[i].at
      BY <2>p
  <2>1. /\ q[i].msg.seq = sq /\ q[i].at = at /\ q[i].msg.type \in Results
        /\ at >= 1 /\ at <= FrameLen /\ off + i = Span(sq - d - 1) + at /\ sq <= w
      BY <2>p, <2>s, <2>t
  <2>2. sq = d + 1 /\ at = off + i
    <3>1. PICK pos \in Int : pos = off + i
        BY <2>0
    <3>2. sq \in Int /\ d \in Int /\ at \in Int
        OBVIOUS
    <3>3. pos >= 1 /\ pos <= FrameLen /\ pos = Span(sq - d - 1) + at
        BY <2>0, <2>1, <3>1
    <3>4. PICK k \in Int : k = sq - d - 1
        OBVIOUS
    <3>5. pos = Span(k) + at /\ Span(k) \in Int /\ FrameLen \in Nat
        BY <3>3, <3>4, SpanFacts, Lengths
    <3>6. Span(k) < FrameLen /\ Span(k) > -FrameLen
      <4>1. PICK sk \in Int : sk = Span(k)
          BY <3>5
      <4>2. PICK f \in Int : f = FrameLen
          BY <3>5
      <4>3. pos >= 1 /\ pos <= f /\ pos = sk + at /\ at >= 1 /\ at <= f
          BY <2>1, <3>3, <3>5, <4>1, <4>2
      <4>4. sk < f /\ sk > -f
          BY <3>2, <4>3
      <4> QED
          BY <4>1, <4>2, <4>4
    <3>7. k = 0 /\ Span(k) = 0
        BY <3>6, SpanZero
    <3> QED
        BY <3>1, <3>2, <3>4, <3>5, <3>7
  <2> QED
      BY <2>0, <2>1, <2>2
<1>2. 1 \in 1 .. c
    BY <1>0
<1>3. ASSUME NEW i \in 1 .. c PROVE q[i] = [msg |-> q[1].msg, at |-> off + i]
  <2>1. q[i].msg = q[1].msg
    <3>1. /\ i \in 1 .. Len(q) /\ 1 \in 1 .. Len(q)
          /\ q[i].msg.seq = q[1].msg.seq
        BY <1>1, <1>2
    <3> QED
        BY <3>1 DEF Framed
  <2>2. q[i] = [msg |-> q[i].msg, at |-> q[i].at]
      BY <1>1, UnitFacts
  <2> QED
      BY <1>1, <2>1, <2>2
<1>4. q[1].msg \in Messages /\ q[1].msg.seq = d + 1 /\ q[1].msg.type \in Results
  <2>1. 1 \in 1 .. Len(q) /\ q[1].msg.seq = d + 1
      BY <1>1, <1>2
  <2> QED
      BY <2>1, UnitFacts DEF Framed
<1> QED
    BY <1>3, <1>4

(* What has all been read leaves nothing.                                  *)
LEMMA FramedNone ==
    ASSUME NEW q \in Seq(Units), NEW n \in {0, BodyLen}, NEW d \in Nat, Framed(q, Taken(n), d, d)
    PROVE  q = <<>> /\ n = 0
<1>1. Len(q) + Taken(n) = Span(d - d) /\ d - d = 0 /\ Len(q) \in Nat
    BY LenProperties DEF Framed
<1>2. Len(q) + Taken(n) = 0
    BY <1>1, SpanFacts
<1>3. n # 0 => Taken(n) = PrefixLen /\ PrefixLen \in Nat /\ PrefixLen > 0
    BY Lengths DEF Taken
<1>4. n = 0
    BY <1>1, <1>2, <1>3
<1>5. Taken(n) = 0
    BY <1>4 DEF Taken
<1>6. Len(q) = 0
    BY <1>1, <1>2, <1>5
<1> QED
    BY <1>4, <1>6, EmptySeq

(* Writing adds the next frame.                                            *)
LEMMA FramedWrite ==
    ASSUME NEW q \in Seq(Units), NEW off \in Nat, NEW d \in Nat, NEW w \in Nat, Framed(q, off, d, w),
           NEW m \in Messages, m.seq = w + 1, m.type \in Results
    PROVE  Framed(q \o Frame(m), off, d, w + 1)
<1>0. PICK r : r = q \o Frame(m)
    OBVIOUS
<1>a. PICK g \in Seq(Units) : g = Frame(m)
    BY FrameFacts
<1>b. Len(g) = FrameLen /\ \A i \in 1 .. FrameLen : g[i].msg = m /\ g[i].at = i
    BY <1>a, FrameFacts
<1>c. /\ r \in Seq(Units) /\ Len(r) = Len(q) + Len(g)
      /\ \A i \in 1 .. Len(q) : r[i] = q[i]
      /\ \A i \in 1 .. Len(g) : r[Len(q) + i] = g[i]
    BY <1>0, <1>a, ConcatFacts
<1>1. /\ Len(r) = Len(q) + FrameLen /\ Len(q) \in Nat /\ FrameLen \in Nat
      /\ \A i \in 1 .. FrameLen : r[Len(q) + i].msg = m /\ r[Len(q) + i].at = i
  <2>1. Len(q) \in Nat /\ FrameLen \in Nat
      BY LenProperties, Lengths
  <2>2. Len(r) = Len(q) + FrameLen
      BY <1>b, <1>c
  <2> QED
      BY <1>b, <1>c, <2>1, <2>2
<1>2. /\ Span(w - d) \in Int /\ Len(q) + off = Span(w - d)
      /\ Span((w + 1) - d) = Span(w - d) + FrameLen
  <2>1. PICK k \in Int : k = w - d
      OBVIOUS
  <2>2. k + 1 = (w + 1) - d
      BY <2>1
  <2>3. Span(k) \in Int /\ Span(k + 1) = Span(k) + FrameLen
      BY SpanFacts
  <2> QED
      BY <2>1, <2>2, <2>3 DEF Framed
<1>3. Len(r) + off = Span((w + 1) - d)
    BY <1>1, <1>2
<1>4. ASSUME NEW i \in 1 .. Len(q)
      PROVE  /\ q[i].msg.type \in Results /\ q[i].at \in 1 .. FrameLen
             /\ off + i = Span(q[i].msg.seq - d - 1) + q[i].at
             /\ q[i].msg.seq # w + 1
  <2>u. InStep(q, i, off, d, w)
      BY FramedUnit
  <2>p. /\ q[i].msg.seq \in Nat /\ q[i].at \in Nat /\ q[i].msg.type \in Results
        /\ q[i].at >= 1 /\ q[i].at <= FrameLen
        /\ off + i = Span(q[i].msg.seq - d - 1) + q[i].at
        /\ q[i].msg.seq <= w
      BY <2>u DEF InStep
  <2>s. PICK sq \in Nat : sq = q[i].msg.seq
      BY <2>p
  <2>t. PICK at \in Nat : at = q[i].at
      BY <2>p
  <2>1. /\ q[i].msg.seq = sq /\ q[i].at = at /\ q[i].msg.type \in Results
        /\ at >= 1 /\ at <= FrameLen /\ off + i = Span(sq - d - 1) + at /\ sq <= w
      BY <2>p, <2>s, <2>t
  <2>2. sq # w + 1
      BY <2>1
  <2> QED
      BY <2>1, <2>2 DEF Framed
<1>5. ASSUME NEW i \in 1 .. Len(r)
      PROVE  i \in 1 .. Len(q) \/ \E j \in 1 .. FrameLen : i = Len(q) + j
  <2>1. \/ i \in 1 .. Len(q)
        \/ i - Len(q) \in 1 .. FrameLen /\ i = Len(q) + (i - Len(q))
      BY <1>1
  <2> QED
      BY <2>1
<1>6. ASSUME NEW i \in 1 .. Len(r)
      PROVE  /\ r[i].msg.type \in Results /\ r[i].at \in 1 .. FrameLen
             /\ off + i = Span(r[i].msg.seq - d - 1) + r[i].at
  <2>1. CASE i \in 1 .. Len(q)
      BY <1>c, <1>4, <2>1
  <2>2. ASSUME NEW j \in 1 .. FrameLen, i = Len(q) + j
        PROVE  /\ r[i].msg.type \in Results /\ r[i].at \in 1 .. FrameLen
               /\ off + i = Span(r[i].msg.seq - d - 1) + r[i].at
    <3>1. r[i].msg = m /\ r[i].at = j
        BY <1>1, <2>2
    <3>2. (w + 1) - d - 1 = w - d /\ j \in Nat
        BY <1>1
    <3>3. off + i = Span(w - d) + j
        BY <1>1, <1>2, <2>2, <3>2
    <3> QED
        BY <3>1, <3>2, <3>3
  <2> QED
      BY <1>5, <2>1, <2>2
<1>7. ASSUME NEW i \in 1 .. Len(r), NEW j \in 1 .. Len(r), r[i].msg.seq = r[j].msg.seq
      PROVE  r[i].msg = r[j].msg
  <2>1. ASSUME NEW k \in 1 .. Len(r)
        PROVE  \/ k \in 1 .. Len(q) /\ r[k] = q[k] /\ r[k].msg.seq # w + 1
               \/ r[k].msg = m /\ r[k].msg.seq = w + 1
    <3>1. CASE k \in 1 .. Len(q)
        BY <1>c, <1>4, <3>1
    <3>2. CASE \E l \in 1 .. FrameLen : k = Len(q) + l
        BY <1>1, <3>2
    <3> QED
        BY <1>5, <3>1, <3>2
  <2>2. CASE r[i].msg.seq = w + 1
      BY <1>7, <2>1, <2>2
  <2>3. CASE r[i].msg.seq # w + 1
    <3>1. i \in 1 .. Len(q) /\ r[i] = q[i] /\ j \in 1 .. Len(q) /\ r[j] = q[j]
        BY <1>7, <2>1, <2>3
    <3> QED
        BY <1>7, <3>1 DEF Framed
  <2> QED
      BY <2>2, <2>3
<1>8. Framed(r, off, d, w + 1)
    BY <1>3, <1>6, <1>7 DEF Framed
<1> QED
    BY <1>0, <1>8

-----------------------------------------------------------------------------
(* A step that leaves all alone that a part of the invariant is about.     *)

LEMMA StreamKept ==
    ASSUME NEW e \in Execs, Stream(e),
           buf'[e] = buf[e], sock'[e] = sock[e], writing'[e] = writing[e], need'[e] = need[e],
           decoded'[e] = decoded[e], wrote'[e] = wrote[e]
    PROVE  Stream(e)'
<1>1. Flow(e)' = Flow(e)
    BY DEF Flow
<1> QED
    BY <1>1 DEF Stream

LEMMA OrderKept ==
    ASSUME NEW e \in Execs, Order(e), decoded'[e] = decoded[e], relay'[e] = relay[e], hold'[e] = hold[e],
           inbound' = inbound
    PROVE  Order(e)'
    BY DEF Order, Unhandled

LEMMA LastsKept ==
    ASSUME NEW e \in Execs, Lasts(e), Flow(e)' = Flow(e), wrote'[e] = wrote[e], job'[e] = job[e],
           relay'[e] = relay[e], hold'[e] = hold[e], inbound' = inbound
    PROVE  Lasts(e)'
<1>1. ASSUME NEW m PROVE LastSaid(e, m)' <=> LastSaid(e, m)
    BY DEF LastSaid
<1> QED
    BY <1>1 DEF Lasts

LEMMA OneTaskKept ==
    ASSUME NEW e \in Execs, OneTask(e), wrote'[e] = wrote[e], decoded'[e] = decoded[e], job'[e] = job[e],
           relay'[e] = relay[e], out'[e] = out[e], sockDown'[e] = sockDown[e],
           inbound' = inbound, sends' = sends
    PROVE  OneTask(e)'
    BY DEF OneTask, UnderWay, Sending, Idle, Unhandled

LEMMA AtEndKept ==
    ASSUME NEW e \in Execs, AtEnd(e), alive'[e] => alive[e], wrote'[e] = wrote[e], decoded'[e] = decoded[e],
           relay'[e] = relay[e], writing'[e] = writing[e]
    PROVE  AtEnd(e)'
    BY DEF AtEnd

LEMMA Apart ==
    ASSUME NEW e \in Execs, ExecInv(e), alive'[e] => alive[e], job'[e] = job[e], wrote'[e] = wrote[e],
           writing'[e] = writing[e], sock'[e] = sock[e], buf'[e] = buf[e], need'[e] = need[e],
           decoded'[e] = decoded[e], relay'[e] = relay[e], hold'[e] = hold[e], out'[e] = out[e],
           sockDown'[e] = sockDown[e], inbound' = inbound, sends' = sends
    PROVE  ExecInv(e)'
<1>0. Stream(e) /\ Order(e) /\ Lasts(e) /\ OneTask(e) /\ AtEnd(e)
    BY DEF ExecInv
<1>1. Flow(e)' = Flow(e)
    BY DEF Flow
<1>2. Stream(e)'
    BY <1>0, StreamKept
<1>3. Order(e)'
    BY <1>0, OrderKept
<1>4. Lasts(e)'
    BY <1>0, <1>1, LastsKept
<1>5. OneTask(e)'
    BY <1>0, OneTaskKept
<1>6. AtEnd(e)'
    BY <1>0, AtEndKept
<1> QED
    BY <1>2, <1>3, <1>4, <1>5, <1>6 DEF ExecInv

LEMMA QuietKept ==
    ASSUME Quiet, sock' = sock, buf' = buf, inbound' = inbound,
           \A c \in Clients : relay'[c] = relay[c] \/ relay'[c] # "send"
    PROVE  Quiet'
    BY DEF Quiet

(* The exec of a relay is not a client.                                    *)
LEMMA Apartness ==
    /\ \A e \in Execs : e \in Remotes /\ e \notin Clients /\ e # None
    /\ \A c \in Clients : c \in Remotes /\ c \notin Execs /\ c # None
    /\ \A x \in Remotes : x \in Execs \/ x \in Clients
    /\ None \notin Messages
    BY RelayAssumption DEF Remotes

-----------------------------------------------------------------------------
(* The flow of an exec, as types.                                          *)

LEMMA Typed ==
    ASSUME RelayTypeOK, NEW e \in Execs
    PROVE  /\ buf[e] \in Seq(Units) /\ sock[e] \in Seq(Units) /\ writing[e] \in Seq(Units)
           /\ Flow(e) \in Seq(Units)
           /\ Len(Flow(e)) = Len(buf[e]) + Len(sock[e]) + Len(writing[e])
           /\ need[e] \in {0, BodyLen} /\ Taken(need[e]) \in Nat
           /\ decoded[e] \in Nat /\ wrote[e] \in Nat
           /\ hold[e] \in Messages /\ job[e] \in Clients \cup {None}
           /\ out[e] \in Seq(Messages) /\ sockDown[e] \in Seq(Messages)
<1>1. e \in Remotes
    BY Apartness
<1>2. /\ buf[e] \in Seq(Units) /\ sock[e] \in Seq(Units) /\ writing[e] \in Seq(Units)
      /\ need[e] \in {0, BodyLen} /\ decoded[e] \in Nat /\ wrote[e] \in Nat
      /\ hold[e] \in Messages /\ job[e] \in Clients \cup {None}
      /\ out[e] \in Seq(Messages) /\ sockDown[e] \in Seq(Messages)
    BY <1>1 DEF RelayTypeOK
<1>3. Taken(need[e]) \in Nat
    BY Lengths DEF Taken
<1>d. PICK s : s = buf[e] \o sock[e]
    OBVIOUS
<1>4. s = buf[e] \o sock[e] /\ s \in Seq(Units) /\ Len(s) = Len(buf[e]) + Len(sock[e])
    BY <1>d, <1>2, ConcatFacts
<1>5. s \o writing[e] \in Seq(Units) /\ Len(s \o writing[e]) = Len(s) + Len(writing[e])
    BY <1>2, <1>4, ConcatFacts
<1>6. Flow(e) = s \o writing[e]
    BY <1>4 DEF Flow
<1>7. Flow(e) \in Seq(Units) /\ Len(Flow(e)) = Len(buf[e]) + Len(sock[e]) + Len(writing[e])
    BY <1>4, <1>5, <1>6
<1> QED
    BY <1>2, <1>3, <1>7

Assoc(s, t, u) == (s \o t) \o u = s \o (t \o u)

LEMMA ConcatAssoc ==
    ASSUME NEW s \in Seq(Units), NEW t \in Seq(Units), NEW u \in Seq(Units)
    PROVE  Assoc(s, t, u)
    BY ConcatAssociative DEF Assoc

LEMMA AppendConcat ==
    ASSUME NEW S, NEW t \in Seq(S), NEW v \in S
    PROVE  Append(t, v) = t \o <<v>>
    OBVIOUS

LEMMA HeadTail ==
    ASSUME NEW S, NEW u \in Seq(S), u # <<>>
    PROVE  /\ Head(u) \in S /\ Tail(u) \in Seq(S) /\ Len(Tail(u)) = Len(u) - 1 /\ Len(u) \in Nat /\ Len(u) >= 1
           /\ u = <<Head(u)>> \o Tail(u)
           /\ Head(u) = u[1] /\ \A i \in 1 .. Len(u) - 1 : Tail(u)[i] = u[i + 1]
<1>1. Head(u) \in S /\ Tail(u) \in Seq(S)
    BY HeadTailProperties
<1>2. Len(Tail(u)) = Len(u) - 1 /\ Len(u) \in Nat /\ Len(u) >= 1
    BY HeadTailProperties, EmptySeq, LenProperties
<1>3. Head(u) = u[1] /\ \A i \in 1 .. Len(u) - 1 : Tail(u)[i] = u[i + 1]
    BY <1>1, <1>2
<1>4. u = <<Head(u)>> \o Tail(u)
    BY <1>1, <1>2, <1>3
<1> QED
    BY <1>1, <1>2, <1>3, <1>4

(* The first of the third is now the last of the second.                   *)
Moved(s, t, h, v) == s \o Append(t, h) \o v = s \o t \o (<<h>> \o v)

LEMMA MoveOne ==
    ASSUME NEW s \in Seq(Units), NEW t \in Seq(Units), NEW h \in Units, NEW v \in Seq(Units)
    PROVE  Moved(s, t, h, v)
<1>1. <<h>> \in Seq(Units) /\ Append(t, h) = t \o <<h>>
    BY AppendConcat
<1>2. s \o t \in Seq(Units) /\ t \o <<h>> \in Seq(Units)
    BY <1>1, ConcatFacts
<1>3. Assoc(s, t, <<h>>)
    BY <1>1, ConcatAssoc
<1>4. Assoc(s \o t, <<h>>, v)
    BY <1>1, <1>2, ConcatAssoc
<1> QED
    BY <1>1, <1>3, <1>4, Zenon DEF Assoc, Moved

(* The first k and the rest.                                               *)
LEMMA SplitSeq ==
    ASSUME NEW t \in Seq(Units), NEW k \in 0 .. Len(t)
    PROVE  SubSeq(t, 1, k) \o SubSeq(t, k + 1, Len(t)) = t
<1>a. PICK f : f = SubSeq(t, 1, k)
    OBVIOUS
<1>1. /\ f \in Seq(Units)
      /\ Len(f) = k
      /\ \A i \in 1 .. k : f[i] = t[i]
    BY <1>a, FirstFacts
<1>b. PICK r : r = SubSeq(t, k + 1, Len(t))
    OBVIOUS
<1>2. /\ r \in Seq(Units)
      /\ Len(r) = Len(t) - k
      /\ \A i \in 1 .. Len(t) - k : r[i] = t[k + i]
    BY <1>b, RestFacts
<1>0. f \in Seq(Units) /\ r \in Seq(Units)
    BY <1>1, <1>2
<1>3. f \o r = t
  <2>1. /\ f \o r \in Seq(Units) /\ Len(f \o r) = Len(f) + Len(r)
        /\ \A i \in 1 .. Len(f) : (f \o r)[i] = f[i]
        /\ \A i \in 1 .. Len(r) : (f \o r)[Len(f) + i] = r[i]
      BY <1>0, ConcatFacts
  <2>2. Len(f \o r) = Len(t) /\ k \in Nat /\ Len(t) \in Nat
      BY <1>1, <1>2, <2>1, LenProperties
  <2>3. ASSUME NEW i \in 1 .. Len(t) PROVE (f \o r)[i] = t[i]
    <3>1. CASE i <= k
      <4>1. i \in 1 .. k
          BY <2>2, <3>1
      <4> QED
          BY <1>1, <2>1, <4>1
    <3>2. CASE ~(i <= k)
      <4>1. PICK j \in 1 .. Len(t) - k : i = k + j
        <5>1. i - k \in 1 .. Len(t) - k /\ i = k + (i - k)
            BY <2>2, <3>2
        <5> QED
            BY <5>1
      <4> QED
          BY <1>1, <1>2, <2>1, <4>1
    <3> QED
        BY <3>1, <3>2
  <2> QED
      BY <2>1, <2>2, <2>3, SeqEqual
<1> QED
    BY <1>a, <1>b, <1>3, Zenon

(* What is taken off the front of s is taken off the front of s \o t.       *)
LEMMA DropFirst ==
    ASSUME NEW s \in Seq(Units), NEW t \in Seq(Units), NEW c \in 0 .. Len(s)
    PROVE  SubSeq(s, c + 1, Len(s)) \o t = SubSeq(s \o t, c + 1, Len(s \o t))
<1>a. PICK r : r = SubSeq(s, c + 1, Len(s))
    OBVIOUS
<1>1. /\ r \in Seq(Units)
      /\ Len(r) = Len(s) - c
      /\ \A i \in 1 .. Len(s) - c : r[i] = s[c + i]
    BY <1>a, RestFacts
<1>b. PICK q : q = s \o t
    OBVIOUS
<1>2. /\ q \in Seq(Units)
      /\ Len(q) = Len(s) + Len(t)
      /\ \A i \in 1 .. Len(s) : q[i] = s[i]
      /\ \A i \in 1 .. Len(t) : q[Len(s) + i] = t[i]
    BY <1>b, ConcatFacts
<1>3. Len(s) \in Nat /\ Len(t) \in Nat /\ c \in Nat /\ c \in 0 .. Len(q)
    BY <1>2, LenProperties
<1>d. PICK p : p = SubSeq(q, c + 1, Len(q))
    OBVIOUS
<1>4. /\ p \in Seq(Units)
      /\ Len(p) = Len(q) - c
      /\ \A i \in 1 .. Len(q) - c : p[i] = q[c + i]
    BY <1>2, <1>3, <1>d, RestFacts
<1>0. r \in Seq(Units)
    BY <1>1
<1>e. PICK v : v = r \o t
    OBVIOUS
<1>5. /\ v \in Seq(Units)
      /\ Len(v) = Len(r) + Len(t)
      /\ \A i \in 1 .. Len(r) : v[i] = r[i]
      /\ \A i \in 1 .. Len(t) : v[Len(r) + i] = t[i]
    BY <1>0, <1>e, ConcatFacts
<1>6. Len(v) = Len(p)
    BY <1>1, <1>2, <1>3, <1>4, <1>5
<1>7. ASSUME NEW i \in 1 .. Len(p) PROVE v[i] = p[i]
  <2>0. Len(p) = Len(s) + Len(t) - c /\ Len(r) = Len(s) - c
      BY <1>1, <1>2, <1>4
  <2>1. p[i] = q[c + i]
    <3>1. i \in 1 .. Len(q) - c
        BY <1>2, <1>3, <2>0
    <3> QED
        BY <1>4, <3>1
  <2>2. CASE i <= Len(s) - c
    <3>1. i \in 1 .. Len(r) /\ i \in 1 .. Len(s) - c /\ c + i \in 1 .. Len(s)
        BY <1>3, <2>0, <2>2
    <3> QED
        BY <1>1, <1>2, <1>5, <2>1, <3>1
  <2>3. CASE ~(i <= Len(s) - c)
    <3>1. PICK j \in 1 .. Len(t) : i = (Len(s) - c) + j
      <4>1. i - (Len(s) - c) \in 1 .. Len(t) /\ i = (Len(s) - c) + (i - (Len(s) - c))
          BY <1>3, <2>0, <2>3
      <4> QED
          BY <4>1
    <3>2. c + i = Len(s) + j /\ i = Len(r) + j
        BY <1>3, <2>0, <3>1
    <3>3. p[i] = t[j]
        BY <1>2, <2>1, <3>2
    <3>4. v[i] = t[j]
        BY <1>5, <3>2
    <3> QED
        BY <3>3, <3>4
  <2> QED
      BY <2>2, <2>3
<1>8. v = p
    BY <1>4, <1>5, <1>6, <1>7, SeqEqual
<1> QED
    BY <1>a, <1>b, <1>d, <1>e, <1>8

-----------------------------------------------------------------------------
(* Types.                                                                  *)

LEMMA ParseType ==
    ASSUME NEW b \in Seq(Units), NEW n \in {0, BodyLen}
    PROVE  /\ Parse(b, n).buf \in Seq(Units) /\ Parse(b, n).need \in {0, BodyLen}
           /\ Parse(b, n).msg # None => Parse(b, n).msg \in Messages
<1>0. Parsed(b, n, Parse(b, n))
    BY ParseFacts
<1>1. PICK c \in 0 .. Len(b) :
              /\ Parse(b, n).buf = SubSeq(b, c + 1, Len(b))
              /\ Parse(b, n).need \in {0, BodyLen}
              /\ Len(b) + Taken(n) < FrameLen => Parse(b, n).msg = None
              /\ Len(b) + Taken(n) >= FrameLen => Parse(b, n).msg \in Messages
    BY <1>0 DEF Parsed
<1>2. SubSeq(b, c + 1, Len(b)) \in Seq(Units)
    BY RestFacts
<1>3. Len(b) + Taken(n) \in Nat /\ FrameLen \in Nat
    BY Lengths, LenProperties DEF Taken
<1>4. Len(b) + Taken(n) < FrameLen \/ Len(b) + Taken(n) >= FrameLen
    BY <1>3
<1> QED
    BY <1>1, <1>2, <1>4

LEMMA ExecMessageType ==
    ASSUME RelayTypeOK, NEW e \in Execs, ExecMessage(e)
    PROVE  RelayTypeOK'
<1>1. job[e] \in Clients \cup {None} /\ wrote[e] \in Nat /\ wrote[e] + 1 \in Nat
    BY DEF RelayTypeOK
<1>2. /\ Msg("TaskOutput", job[e], wrote[e] + 1) \in Messages
      /\ Msg("TaskDone", job[e], wrote[e] + 1) \in Messages
    BY <1>1 DEF Msg, Messages
<1>3. /\ Frame(Msg("TaskOutput", job[e], wrote[e] + 1)) \in Seq(Units)
      /\ Frame(Msg("TaskDone", job[e], wrote[e] + 1)) \in Seq(Units)
  <2>1. PICK m \in Messages : m = Msg("TaskOutput", job[e], wrote[e] + 1)
      BY <1>2
  <2>2. PICK n \in Messages : n = Msg("TaskDone", job[e], wrote[e] + 1)
      BY <1>2
  <2>3. Frame(m) \in Seq(Units) /\ Frame(n) \in Seq(Units)
      BY FrameFacts
  <2> QED
      BY <2>1, <2>2, <2>3, Zenon
<1>4. writing' \in [Execs -> Seq(Units)] /\ job' \in [Execs -> Clients \cup {None}]
  <2>1. PICK f \in Seq(Units) : writing' = [writing EXCEPT ![e] = f]
      BY <1>3, Zenon DEF ExecMessage
  <2>2. job' = job \/ job' = [job EXCEPT ![e] = None]
      BY DEF ExecMessage
  <2> QED
      BY <2>1, <2>2 DEF RelayTypeOK
<1>5. wrote' \in [Execs -> Nat]
    BY <1>1 DEF RelayTypeOK, ExecMessage
<1> QED
    BY <1>4, <1>5 DEF RelayTypeOK, ExecMessage, loopVars

LEMMA ExecWriteType ==
    ASSUME RelayTypeOK, NEW e \in Execs, ExecWrite(e)
    PROVE  RelayTypeOK'
<1>1. writing[e] \in Seq(Units) /\ sock[e] \in Seq(Units) /\ e \in Remotes
    BY Typed, Apartness
<1>2. Head(writing[e]) \in Units /\ Tail(writing[e]) \in Seq(Units)
    BY <1>1, HeadTail DEF ExecWrite
<1>3. Append(sock[e], Head(writing[e])) \in Seq(Units)
    BY <1>1, <1>2, AppendProperties
<1> QED
    BY <1>1, <1>2, <1>3 DEF RelayTypeOK, ExecWrite, loopVars

LEMMA ExecTaskType ==
    ASSUME RelayTypeOK, NEW e \in Execs, ExecTask(e)
    PROVE  RelayTypeOK'
<1>1. sockDown[e] \in Seq(Messages) /\ e \in Remotes
    BY Typed, Apartness
<1>2. Head(sockDown[e]) \in Messages /\ Tail(sockDown[e]) \in Seq(Messages)
    BY <1>1, HeadTail DEF ExecTask
<1>3. Head(sockDown[e]).task \in Clients \cup {None}
    BY <1>2 DEF Messages
<1> QED
    BY <1>1, <1>2, <1>3 DEF RelayTypeOK, ExecTask, loopVars

LEMMA ClientReadType ==
    ASSUME RelayTypeOK, NEW c \in Clients, ClientRead(c)
    PROVE  RelayTypeOK'
<1>1. c \in Remotes
    BY Apartness
<1>2. sockDown[c] \in Seq(Messages)
    BY <1>1 DEF RelayTypeOK
<1>3. Tail(sockDown[c]) \in Seq(Messages)
    BY <1>2, HeadTail DEF ClientRead
<1> QED
    BY <1>1, <1>3 DEF RelayTypeOK, ClientRead, loopVars

LEMMA KillType ==
    ASSUME RelayTypeOK, NEW x \in Remotes, Kill(x)
    PROVE  RelayTypeOK'
    BY DEF RelayTypeOK, Kill, loopVars

LEMMA RelayReadType ==
    ASSUME RelayTypeOK, NEW x \in Remotes, RelayRead(x)
    PROVE  RelayTypeOK'
<1>0. /\ buf[x] \in Seq(Units) /\ sock[x] \in Seq(Units) /\ need[x] \in {0, BodyLen} /\ decoded[x] \in Nat
      /\ decoded[x] + 1 \in Nat
    BY DEF RelayTypeOK
<1>1. PICK k \in 0 .. Len(sock[x]) :
          LET res == Parse(buf[x] \o SubSeq(sock[x], 1, k), need[x])
          IN  /\ sock' = [sock EXCEPT ![x] = SubSeq(@, k + 1, Len(@))]
              /\ buf' = [buf EXCEPT ![x] = res.buf]
              /\ need' = [need EXCEPT ![x] = res.need]
              /\ IF res.msg = None
                 THEN UNCHANGED <<decoded, relay, hold>>
                 ELSE /\ decoded' = [decoded EXCEPT ![x] = @ + 1]
                      /\ relay' = [relay EXCEPT ![x] = "send"]
                      /\ hold' = [hold EXCEPT ![x] = res.msg]
    BY DEF RelayRead
<1>2. SubSeq(sock[x], 1, k) \in Seq(Units) /\ SubSeq(sock[x], k + 1, Len(sock[x])) \in Seq(Units)
    BY <1>0, FirstFacts, RestFacts
<1>3. PICK b \in Seq(Units) : b = buf[x] \o SubSeq(sock[x], 1, k)
    BY <1>0, <1>2, ConcatFacts
<1>4. PICK res : res = Parse(b, need[x])
    OBVIOUS
<1>5. res.buf \in Seq(Units) /\ res.need \in {0, BodyLen} /\ (res.msg # None => res.msg \in Messages)
    BY <1>0, <1>4, ParseType
<1>6. /\ sock' = [sock EXCEPT ![x] = SubSeq(@, k + 1, Len(@))]
      /\ buf' = [buf EXCEPT ![x] = res.buf]
      /\ need' = [need EXCEPT ![x] = res.need]
      /\ IF res.msg = None
         THEN UNCHANGED <<decoded, relay, hold>>
         ELSE /\ decoded' = [decoded EXCEPT ![x] = @ + 1]
              /\ relay' = [relay EXCEPT ![x] = "send"]
              /\ hold' = [hold EXCEPT ![x] = res.msg]
    BY <1>1, <1>3, <1>4
<1>7. sock' \in [Remotes -> Seq(Units)] /\ buf' \in [Remotes -> Seq(Units)] /\ need' \in [Remotes -> {0, BodyLen}]
    BY <1>2, <1>5, <1>6 DEF RelayTypeOK
<1>8. /\ decoded' \in [Remotes -> Nat] /\ hold' \in [Remotes -> Messages]
      /\ relay' \in [Remotes -> {"select", "send", "write", "drop", "done"}]
    BY <1>0, <1>5, <1>6 DEF RelayTypeOK
<1> QED
    BY <1>7, <1>8 DEF RelayTypeOK, RelayRead, remoteVars, loopVars

LEMMA RelaySendType ==
    ASSUME RelayTypeOK, NEW x \in Remotes, RelaySend(x)
    PROVE  RelayTypeOK'
<1>1. [from |-> x, msg |-> hold[x]] \in [from : Remotes, msg : Messages]
    BY DEF RelayTypeOK
<1>2. inbound' \in Seq([from : Remotes, msg : Messages])
    BY <1>1, AppendProperties DEF RelayTypeOK, RelaySend
<1>3. relay' \in [Remotes -> {"select", "send", "write", "drop", "done"}]
    BY DEF RelayTypeOK, RelaySend
<1> QED
    BY <1>2, <1>3 DEF RelayTypeOK, RelaySend, remoteVars, loopVars

LEMMA RelayTakeType ==
    ASSUME RelayTypeOK, NEW x \in Remotes, RelayTake(x)
    PROVE  RelayTypeOK'
<1>1. Head(out[x]) \in Messages /\ Tail(out[x]) \in Seq(Messages)
  <2>1. out[x] \in Seq(Messages) /\ out[x] # <<>>
      BY DEF RelayTypeOK, RelayTake
  <2> QED
      BY <2>1, HeadTail
<1>2. hold' \in [Remotes -> Messages] /\ out' \in [Remotes -> Seq(Messages)]
    BY <1>1 DEF RelayTypeOK, RelayTake
<1>3. /\ relay' \in [Remotes -> {"select", "send", "write", "drop", "done"}]
      /\ need' \in [Remotes -> {0, BodyLen}]
    BY DEF RelayTypeOK, RelayTake
<1> QED
    BY <1>2, <1>3 DEF RelayTypeOK, RelayTake, remoteVars, loopVars

LEMMA RelayWriteType ==
    ASSUME RelayTypeOK, NEW x \in Remotes, RelayWrite(x)
    PROVE  RelayTypeOK'
<1>1. Append(sockDown[x], hold[x]) \in Seq(Messages) /\ <<>> \in Seq(Messages)
  <2>1. sockDown[x] \in Seq(Messages) /\ hold[x] \in Messages
      BY DEF RelayTypeOK
  <2> QED
      BY <2>1, AppendProperties
<1>2. /\ relay' \in [Remotes -> {"select", "send", "write", "drop", "done"}]
      /\ out' \in [Remotes -> Seq(Messages)] /\ sockDown' \in [Remotes -> Seq(Messages)]
  <2>1. relay' = [relay EXCEPT ![x] = "select"] \/ relay' = [relay EXCEPT ![x] = "done"]
      BY DEF RelayWrite, Return
  <2>2. out' = out \/ out' = [out EXCEPT ![x] = <<>>]
      BY DEF RelayWrite, Return
  <2>3. sockDown' = sockDown \/ sockDown' = [sockDown EXCEPT ![x] = Append(@, hold[x])]
      BY DEF RelayWrite
  <2>4. relay' \in [Remotes -> {"select", "send", "write", "drop", "done"}]
      BY <2>1 DEF RelayTypeOK
  <2>5. out' \in [Remotes -> Seq(Messages)]
      BY <1>1, <2>2 DEF RelayTypeOK
  <2>6. sockDown' \in [Remotes -> Seq(Messages)]
      BY <1>1, <2>3 DEF RelayTypeOK
  <2> QED
      BY <2>4, <2>5, <2>6
<1> QED
    BY <1>2 DEF RelayTypeOK, RelayWrite, remoteVars, loopVars

LEMMA RelayEofType ==
    ASSUME RelayTypeOK, NEW x \in Remotes, RelayEof(x)
    PROVE  RelayTypeOK'
    BY DEF RelayTypeOK, RelayEof, remoteVars, loopVars

LEMMA RelayDropType ==
    ASSUME RelayTypeOK, NEW x \in Remotes, RelayDrop(x)
    PROVE  RelayTypeOK'
<1>1. [from |-> x, msg |-> Msg("Dropped", None, 0)] \in [from : Remotes, msg : Messages]
    BY DEF Msg, Messages
<1>2. inbound' \in Seq([from : Remotes, msg : Messages])
    BY <1>1, AppendProperties DEF RelayTypeOK, RelayDrop
<1>3. /\ relay' \in [Remotes -> {"select", "send", "write", "drop", "done"}]
      /\ out' \in [Remotes -> Seq(Messages)]
    BY DEF RelayTypeOK, RelayDrop, Return
<1> QED
    BY <1>2, <1>3 DEF RelayTypeOK, RelayDrop, remoteVars, loopVars

(* What the handlers send, and to whom.                                    *)
LEMMA SendFacts ==
    ASSUME NEW to \in Remotes \cup {None}, NEW msg \in Messages
    PROVE  Send(to, msg) \in [to : Remotes \cup {None}, msg : Messages] /\ Send(to, msg).to = to
    BY DEF Send

LEMMA FewSends ==
    ASSUME NEW S, NEW v \in S, v.to \notin Execs, NEW s, s = <<>> \/ s = <<v>>
    PROVE  s \in Seq(S) /\ \A i \in 1 .. Len(s) : s[i].to \notin Execs
<1>1. CASE s = <<>>
    BY <1>1
<1>2. CASE s = <<v>>
  <2>1. s \in Seq(S) /\ Len(s) = 1 /\ s[1] = v
      BY <1>2
  <2>2. \A i \in 1 .. 1 : i = 1
      OBVIOUS
  <2> QED
      BY <2>1, <2>2
<1> QED
    BY <1>1, <1>2

LEMMA ToPairedFacts ==
    ASSUME RelayTypeOK, NEW x \in Execs, NEW msg \in Messages
    PROVE  /\ ToPaired(x, msg) \in Seq([to : Remotes \cup {None}, msg : Messages])
           /\ \A i \in 1 .. Len(ToPaired(x, msg)) : ToPaired(x, msg)[i].to \notin Execs
<1>1. paired[x] \in Clients \cup {None}
    BY DEF RelayTypeOK
<1>a. PICK v : v = Send(paired[x], msg)
    OBVIOUS
<1>2. v \in [to : Remotes \cup {None}, msg : Messages] /\ v.to = paired[x]
  <2>1. paired[x] \in Remotes \cup {None}
      BY <1>1, Apartness
  <2> QED
      BY <1>a, <2>1, SendFacts
<1>3. v.to \notin Execs
    BY <1>1, <1>2, Apartness
<1>4. ToPaired(x, msg) = <<>> \/ ToPaired(x, msg) = <<v>>
    BY <1>a DEF ToPaired
<1> QED
    BY <1>2, <1>3, <1>4, FewSends

(* Who a message of the loop comes from.                                   *)
LEMMA FirstIn ==
    ASSUME RelayTypeOK, Quiet, inbound # <<>>
    PROVE  /\ Head(inbound).from \in Remotes /\ Head(inbound).msg \in Messages
           /\ Head(inbound) = inbound[1] /\ 1 \in 1 .. Len(inbound)
           /\ Tail(inbound) \in Seq([from : Remotes, msg : Messages])
           /\ Head(inbound).msg.type # "Dropped" => Head(inbound).from \in Execs
<1>1. /\ inbound \in Seq([from : Remotes, msg : Messages])
      /\ Head(inbound) \in [from : Remotes, msg : Messages]
      /\ Tail(inbound) \in Seq([from : Remotes, msg : Messages])
      /\ Head(inbound) = inbound[1] /\ Len(inbound) \in Nat /\ Len(inbound) >= 1
    BY HeadTail DEF RelayTypeOK
<1>2. 1 \in 1 .. Len(inbound)
    BY <1>1
<1>3. Head(inbound).from \in Remotes /\ Head(inbound).msg \in Messages
    BY <1>1
<1>4. Head(inbound).msg.type # "Dropped" => Head(inbound).from \in Execs
    BY <1>1, <1>2, <1>3, Apartness DEF Quiet
<1> QED
    BY <1>1, <1>2, <1>3, <1>4

(* A handler sends an exec nothing but a task, as its last, and only when  *)
(* that exec has said TaskDone.                                            *)
LEMMA HandlerSends ==
    ASSUME RelayTypeOK, Quiet, LoopRecv
    PROVE  /\ sends' \in Seq([to : Remotes \cup {None}, msg : Messages])
           /\ paired' \in [Execs -> Clients \cup {None}]
           /\ waiting' \subseteq Clients
           /\ \/ \A i \in 1 .. Len(sends') : sends'[i].to \notin Execs
              \/ /\ Head(inbound).msg.type = "TaskDone" /\ Head(inbound).from \in Execs
                 /\ \A i \in 1 .. Len(sends') : sends'[i].to \in Execs =>
                       i = Len(sends') /\ sends'[i].to = Head(inbound).from
<1> DEFINE S == [to : Remotes \cup {None}, msg : Messages]
<1>0. /\ Head(inbound).from \in Remotes /\ Head(inbound).msg \in Messages
      /\ Head(inbound).msg.type # "Dropped" => Head(inbound).from \in Execs
    BY FirstIn DEF LoopRecv
<1>1. PICK x \in Remotes : x = Head(inbound).from
    BY <1>0
<1>2. PICK msg \in Messages : msg = Head(inbound).msg
    BY <1>0
<1>t. paired \in [Execs -> Clients \cup {None}] /\ waiting \subseteq Clients
    BY DEF RelayTypeOK
<1>3. \/ /\ msg.type = "TaskOutput"
         /\ sends' = ToPaired(x, msg)
         /\ UNCHANGED <<paired, dead, waiting>>
      \/ EndsTask(msg) /\ LoopDone(x, msg) /\ UNCHANGED dead
      \/ /\ msg.type = "Dropped" /\ x \in Execs
         /\ sends' = IF paired[x] = None THEN <<>>
                     ELSE <<Send(paired[x], Msg("TaskFailed", paired[x], 0))>>
         /\ UNCHANGED <<paired, dead, waiting>>
      \/ /\ msg.type = "Dropped" /\ x \in Clients
         /\ dead' = dead \cup {x}
         /\ UNCHANGED <<sends, paired, waiting>>
    BY <1>1, <1>2 DEF LoopRecv
<1>4. CASE msg.type = "TaskOutput" /\ sends' = ToPaired(x, msg) /\ UNCHANGED <<paired, dead, waiting>>
  <2>1. x \in Execs
      BY <1>0, <1>1, <1>2, <1>4
  <2>2. sends' \in Seq(S) /\ \A i \in 1 .. Len(sends') : sends'[i].to \notin Execs
      BY <1>4, <2>1, ToPairedFacts
  <2> QED
      BY <1>t, <1>4, <2>2
<1>5. CASE EndsTask(msg) /\ LoopDone(x, msg)
  <2>1. x \in Execs /\ msg.type = "TaskDone"
      BY <1>0, <1>1, <1>2, <1>5 DEF EndsTask
  <2>2. PICK p : p = ToPaired(x, msg)
      OBVIOUS
  <2>3. p \in Seq(S) /\ \A i \in 1 .. Len(p) : p[i].to \notin Execs
      BY <2>1, <2>2, ToPairedFacts
  <2>4. CASE waiting = {} /\ sends' = p /\ paired' = [paired EXCEPT ![x] = None] /\ UNCHANGED waiting
      BY <1>t, <2>3, <2>4
  <2>5. ASSUME NEW c \in waiting, sends' = p \o <<Send(x, Msg("Task", c, 0))>>,
               paired' = [paired EXCEPT ![x] = c], waiting' = waiting \ {c}
        PROVE  /\ sends' \in Seq(S) /\ paired' \in [Execs -> Clients \cup {None}] /\ waiting' \subseteq Clients
               /\ \A i \in 1 .. Len(sends') : sends'[i].to \in Execs => i = Len(sends') /\ sends'[i].to = x
    <3>1. c \in Clients
        BY <1>t
    <3>2. Msg("Task", c, 0) \in Messages
        BY <3>1 DEF Msg, Messages
    <3>a. PICK v : v = Send(x, Msg("Task", c, 0))
        OBVIOUS
    <3>3. v \in S /\ v.to = x
        BY <3>2, <3>a, SendFacts
    <3>4. sends' = Append(p, v)
        BY <2>3, <2>5, <3>a, <3>3, AppendConcat
    <3>5. /\ sends' \in Seq(S) /\ Len(sends') = Len(p) + 1 /\ Len(p) \in Nat
          /\ \A i \in 1 .. Len(p) : sends'[i] = p[i]
          /\ sends'[Len(p) + 1] = v
        BY <2>3, <3>3, <3>4, AppendProperties
    <3>6. ASSUME NEW i \in 1 .. Len(sends'), sends'[i].to \in Execs
          PROVE  i = Len(sends') /\ sends'[i].to = x
      <4>1. i \in 1 .. Len(p) \/ i = Len(p) + 1
          BY <3>5
      <4>2. ~(i \in 1 .. Len(p))
          BY <2>3, <3>5, <3>6
      <4> QED
          BY <3>3, <3>5, <4>1, <4>2
    <3> QED
        BY <1>t, <2>1, <2>5, <3>1, <3>5, <3>6
  <2> QED
      BY <1>1, <1>2, <1>5, <2>1, <2>2, <2>4, <2>5 DEF LoopDone
<1>6. CASE /\ x \in Execs
           /\ sends' = IF paired[x] = None THEN <<>>
                       ELSE <<Send(paired[x], Msg("TaskFailed", paired[x], 0))>>
           /\ UNCHANGED <<paired, dead, waiting>>
  <2>1. paired[x] \in Clients \cup {None}
      BY <1>t, <1>6
  <2>2. Msg("TaskFailed", paired[x], 0) \in Messages
      BY <2>1 DEF Msg, Messages
  <2>a. PICK v : v = Send(paired[x], Msg("TaskFailed", paired[x], 0))
      OBVIOUS
  <2>3. v \in S /\ v.to = paired[x]
    <3>1. paired[x] \in Remotes \cup {None}
        BY <2>1, Apartness
    <3> QED
        BY <2>2, <2>a, <3>1, SendFacts
  <2>4. v.to \notin Execs
      BY <2>1, <2>3, Apartness
  <2>5. sends' = <<>> \/ sends' = <<v>>
      BY <1>6, <2>a
  <2>6. sends' \in Seq(S) /\ \A i \in 1 .. Len(sends') : sends'[i].to \notin Execs
      BY <2>3, <2>4, <2>5, FewSends
  <2> QED
      BY <1>t, <1>6, <2>6
<1>7. CASE UNCHANGED <<sends, paired, waiting>>
  <2>1. sends' = <<>>
      BY <1>7 DEF LoopRecv
  <2>2. sends' \in Seq(S) /\ \A i \in 1 .. Len(sends') : sends'[i].to \notin Execs
      BY <2>1
  <2> QED
      BY <1>t, <1>7, <2>2
<1> QED
    BY <1>3, <1>4, <1>5, <1>6, <1>7

LEMMA LoopRecvType ==
    ASSUME RelayTypeOK, Quiet, LoopRecv
    PROVE  RelayTypeOK'
<1>1. inbound' \in Seq([from : Remotes, msg : Messages])
    BY FirstIn DEF LoopRecv
<1>2. /\ sends' \in Seq([to : Remotes \cup {None}, msg : Messages])
      /\ paired' \in [Execs -> Clients \cup {None}]
      /\ waiting' \subseteq Clients
    BY HandlerSends
<1> QED
    BY <1>1, <1>2 DEF RelayTypeOK, LoopRecv, remoteVars

LEMMA LoopSendType ==
    ASSUME RelayTypeOK, LoopSend
    PROVE  RelayTypeOK'
<1>1. /\ sends \in Seq([to : Remotes \cup {None}, msg : Messages]) /\ sends # <<>>
      /\ Head(sends) \in [to : Remotes \cup {None}, msg : Messages]
      /\ Tail(sends) \in Seq([to : Remotes \cup {None}, msg : Messages])
    BY HeadTail DEF RelayTypeOK, LoopSend
<1>2. PICK to \in Remotes \cup {None} : to = Head(sends).to
    BY <1>1
<1>3. PICK msg \in Messages : msg = Head(sends).msg
    BY <1>1
<1>4. out' = out \/ out' = [out EXCEPT ![to] = Append(@, msg)]
    BY <1>2, <1>3 DEF LoopSend
<1>5. out' \in [Remotes -> Seq(Messages)]
  <2>1. to \in Remotes => Append(out[to], msg) \in Seq(Messages)
      BY AppendProperties DEF RelayTypeOK
  <2> QED
      BY <1>4, <2>1 DEF RelayTypeOK
<1>6. sends' \in Seq([to : Remotes \cup {None}, msg : Messages])
    BY <1>1 DEF LoopSend
<1> QED
    BY <1>5, <1>6 DEF RelayTypeOK, LoopSend, remoteVars

-----------------------------------------------------------------------------
(* The steps of an exec.                                                   *)

LEMMA ExecParts ==
    ASSUME RelayInv, NEW e \in Execs
    PROVE  RelayTypeOK /\ Quiet /\ ExecInv(e) /\ Stream(e) /\ Order(e) /\ Lasts(e) /\ OneTask(e) /\ AtEnd(e)
    BY DEF RelayInv, ExecInv

LEMMA ConcatEmpty ==
    ASSUME NEW S, NEW s \in Seq(S)
    PROVE  s \o <<>> = s
    BY ConcatEmptySeq

(* Before it says TaskDone the exec has not been sent a task.              *)
LEMMA Busy ==
    ASSUME NEW e \in Execs, OneTask(e), ~Idle(e)
    PROVE  ~UnderWay(e)
    BY DEF OneTask

LEMMA OneTaskNone ==
    ASSUME NEW e \in Execs, ~UnderWay(e)
    PROVE  OneTask(e)
<1>1. ~Sending(e) /\ out[e] = <<>> /\ relay[e] # "write" /\ sockDown[e] = <<>>
    BY DEF UnderWay
<1>2. Len(out[e]) <= 1 /\ Len(sockDown[e]) <= 1
    BY <1>1
<1> QED
    BY <1>1, <1>2 DEF OneTask, Sending, UnderWay

LEMMA WriteKeeps ==
    ASSUME RelayTypeOK, NEW e \in Execs, ExecInv(e), NEW m \in Messages,
           alive[e], job[e] # None, writing[e] = <<>>,
           m.type \in Results, m.seq = wrote[e] + 1, m.type = "TaskDone" => job'[e] = None,
           writing'[e] = Frame(m), wrote'[e] = wrote[e] + 1,
           alive'[e] = alive[e], sock'[e] = sock[e], buf'[e] = buf[e], need'[e] = need[e],
           decoded'[e] = decoded[e], relay'[e] = relay[e], hold'[e] = hold[e], out'[e] = out[e],
           sockDown'[e] = sockDown[e], inbound' = inbound, sends' = sends
    PROVE  ExecInv(e)'
<1>0. Stream(e) /\ Order(e) /\ Lasts(e) /\ OneTask(e) /\ AtEnd(e)
    BY DEF ExecInv
<1>1. /\ buf[e] \in Seq(Units) /\ sock[e] \in Seq(Units) /\ need[e] \in {0, BodyLen}
      /\ Taken(need[e]) \in Nat /\ decoded[e] \in Nat /\ wrote[e] \in Nat /\ wrote[e] + 1 \in Nat
  <2>1. /\ buf[e] \in Seq(Units) /\ sock[e] \in Seq(Units) /\ need[e] \in {0, BodyLen}
        /\ Taken(need[e]) \in Nat /\ decoded[e] \in Nat /\ wrote[e] \in Nat
      BY Typed
  <2> QED
      BY <2>1
<1>2. PICK q \in Seq(Units) : q = buf[e] \o sock[e]
    BY <1>1, ConcatFacts
<1>3. Flow(e) = q /\ Flow(e)' = q \o Frame(m)
    BY <1>2, ConcatEmpty DEF Flow
<1>4. Stream(e)'
  <2>1. Framed(q, Taken(need[e]), decoded[e], wrote[e]) /\ decoded[e] <= wrote[e]
      BY <1>0, <1>3 DEF Stream
  <2>2. Framed(q \o Frame(m), Taken(need[e]), decoded[e], wrote[e] + 1)
      BY <1>1, <2>1, FramedWrite
  <2>3. decoded[e] <= wrote[e] + 1
      BY <1>1, <2>1
  <2>4. Len(Frame(m)) <= FrameLen
      BY FrameFacts, Lengths
  <2> QED
      BY <1>3, <2>2, <2>3, <2>4 DEF Stream
<1>5. Order(e)'
    BY <1>0, OrderKept
<1>6. Lasts(e)'
  <2>1. /\ \A i \in 1 .. Len(q) : q[i].msg.type # "TaskDone"
        /\ relay[e] = "send" => hold[e].type # "TaskDone"
        /\ \A i \in 1 .. Len(inbound) : inbound[i].from = e => inbound[i].msg.type # "TaskDone"
      BY <1>0, <1>3 DEF Lasts, LastSaid
  <2>2. LastSaid(e, m)'
      BY DEF LastSaid
  <2>a. PICK g \in Seq(Units) : g = Frame(m)
      BY FrameFacts
  <2>b. Len(g) = FrameLen /\ \A i \in 1 .. FrameLen : g[i].msg = m
      BY <2>a, FrameFacts
  <2>c. PICK r : r = q \o g
      OBVIOUS
  <2>d. /\ Len(r) = Len(q) + Len(g)
        /\ \A i \in 1 .. Len(q) : r[i] = q[i]
        /\ \A i \in 1 .. Len(g) : r[Len(q) + i] = g[i]
      BY <2>c, ConcatFacts
  <2>e. Len(q) \in Nat /\ FrameLen \in Nat
      BY Lengths, LenProperties
  <2>3. ASSUME NEW i \in 1 .. Len(r)
        PROVE  r[i].msg.type # "TaskDone" \/ r[i].msg = m
    <3>1. CASE i \in 1 .. Len(q)
        BY <2>1, <2>d, <3>1
    <3>2. CASE ~(i \in 1 .. Len(q))
      <4>1. i - Len(q) \in 1 .. FrameLen /\ i = Len(q) + (i - Len(q))
          BY <2>b, <2>d, <2>e, <3>2
      <4>2. PICK j \in 1 .. FrameLen : i = Len(q) + j
          BY <4>1
      <4>3. r[i] = g[j] /\ g[j].msg = m
          BY <2>b, <2>d, <4>2
      <4> QED
          BY <4>3
    <3> QED
        BY <3>1, <3>2
  <2>4. Flow(e)' = r
      BY <1>3, <2>a, <2>c
  <2>5. (\A i \in 1 .. Len(Flow(e)) : LastSaid(e, Flow(e)[i].msg))'
      BY <2>2, <2>3, <2>4 DEF LastSaid
  <2>6. (relay[e] = "send" => LastSaid(e, hold[e]))'
      BY <2>1 DEF LastSaid
  <2>7. (\A i \in 1 .. Len(inbound) : inbound[i].from = e => LastSaid(e, inbound[i].msg))'
      BY <2>1 DEF LastSaid
  <2> QED
      BY <2>5, <2>6, <2>7 DEF Lasts
<1>7. OneTask(e)'
  <2>1. ~UnderWay(e)
      BY <1>0, Busy DEF Idle
  <2>2. ~UnderWay(e)'
      BY <2>1 DEF UnderWay, Sending
  <2>3. (~Sending(e) /\ out[e] = <<>> /\ relay[e] # "write" /\ sockDown[e] = <<>>)'
      BY <2>2 DEF UnderWay
  <2>4. Len(out'[e]) <= 1 /\ Len(sockDown'[e]) <= 1
      BY <2>3
  <2> QED
      BY <2>2, <2>3, <2>4 DEF OneTask, Sending
<1>8. AtEnd(e)'
    BY <1>0 DEF AtEnd
<1> QED
    BY <1>4, <1>5, <1>6, <1>7, <1>8 DEF ExecInv

LEMMA ExecMessageKeeps ==
    ASSUME RelayInv, NEW x \in Execs, ExecMessage(x)
    PROVE  RelayInv'
<1>0. RelayTypeOK /\ Quiet
    BY DEF RelayInv
<1>1. RelayTypeOK'
    BY <1>0, ExecMessageType
<1>2. Quiet'
    BY <1>0, QuietKept DEF ExecMessage
<1>3. ASSUME NEW e \in Execs, e # x PROVE ExecInv(e)'
  <2>1. ExecInv(e)
      BY ExecParts
  <2>2. job'[e] = job[e] /\ wrote'[e] = wrote[e] /\ writing'[e] = writing[e]
      BY <1>0, <1>3 DEF ExecMessage, RelayTypeOK
  <2> QED
      BY <2>1, <2>2, Apart DEF ExecMessage, loopVars
<1>4. ExecInv(x)'
  <2>1. PICK m : /\ m = Msg("TaskOutput", job[x], wrote[x] + 1) \/ m = Msg("TaskDone", job[x], wrote[x] + 1)
                 /\ writing' = [writing EXCEPT ![x] = Frame(m)]
                 /\ m.type = "TaskDone" => job' = [job EXCEPT ![x] = None]
    <3>1. CASE writing' = [writing EXCEPT ![x] = Frame(Msg("TaskOutput", job[x], wrote[x] + 1))]
      <4>1. Msg("TaskOutput", job[x], wrote[x] + 1).type # "TaskDone"
          BY DEF Msg
      <4> QED
          BY <3>1, <4>1
    <3>2. CASE /\ writing' = [writing EXCEPT ![x] = Frame(Msg("TaskDone", job[x], wrote[x] + 1))]
               /\ job' = [job EXCEPT ![x] = None]
        BY <3>2
    <3> QED
        BY <3>1, <3>2 DEF ExecMessage
  <2>2. job[x] \in Clients \cup {None} /\ wrote[x] + 1 \in Nat
    <3>1. job[x] \in Clients \cup {None} /\ wrote[x] \in Nat
        BY <1>0, Typed
    <3> QED
        BY <3>1
  <2>3. m \in Messages /\ m.type \in Results /\ m.seq = wrote[x] + 1
      BY <2>1, <2>2 DEF Msg, Messages, Results
  <2>4. writing'[x] = Frame(m) /\ wrote'[x] = wrote[x] + 1 /\ (m.type = "TaskDone" => job'[x] = None)
      BY <1>0, <2>1 DEF ExecMessage, RelayTypeOK
  <2>5. alive[x] /\ job[x] # None /\ writing[x] = <<>> /\ ExecInv(x)
      BY ExecParts DEF ExecMessage
  <2>6. /\ alive'[x] = alive[x] /\ sock'[x] = sock[x] /\ buf'[x] = buf[x] /\ need'[x] = need[x]
        /\ decoded'[x] = decoded[x] /\ relay'[x] = relay[x] /\ hold'[x] = hold[x] /\ out'[x] = out[x]
        /\ sockDown'[x] = sockDown[x] /\ inbound' = inbound /\ sends' = sends
      BY DEF ExecMessage, loopVars
  <2> QED
      BY <1>0, <2>3, <2>4, <2>5, <2>6, WriteKeeps
<1> QED
    BY <1>1, <1>2, <1>3, <1>4 DEF RelayInv

LEMMA ExecWriteKeeps ==
    ASSUME RelayInv, NEW x \in Execs, ExecWrite(x)
    PROVE  RelayInv'
<1>0. RelayTypeOK /\ Quiet /\ x \in Remotes
    BY Apartness DEF RelayInv
<1>1. RelayTypeOK'
    BY <1>0, ExecWriteType
<1>2. Quiet'
  <2>1. \A c \in Clients : sock'[c] = sock[c]
      BY <1>0, Apartness DEF ExecWrite, RelayTypeOK
  <2>2. buf' = buf /\ relay' = relay /\ inbound' = inbound
      BY DEF ExecWrite
  <2> QED
      BY <1>0, <2>1, <2>2 DEF Quiet
<1>3. ASSUME NEW e \in Execs, e # x PROVE ExecInv(e)'
  <2>1. ExecInv(e) /\ e \in Remotes
      BY ExecParts, Apartness
  <2>2. sock'[e] = sock[e] /\ writing'[e] = writing[e]
      BY <1>0, <1>3, <2>1 DEF ExecWrite, RelayTypeOK
  <2> QED
      BY <2>1, <2>2, Apart DEF ExecWrite, loopVars
<1>4. ExecInv(x)'
  <2>0. Stream(x) /\ Order(x) /\ Lasts(x) /\ OneTask(x) /\ AtEnd(x)
      BY ExecParts
  <2>1. sock'[x] = Append(sock[x], Head(writing[x])) /\ writing'[x] = Tail(writing[x])
      BY <1>0 DEF ExecWrite, RelayTypeOK
  <2>2. /\ alive[x] /\ alive'[x] = alive[x] /\ job'[x] = job[x] /\ buf'[x] = buf[x] /\ need'[x] = need[x]
        /\ decoded'[x] = decoded[x] /\ relay'[x] = relay[x] /\ hold'[x] = hold[x] /\ out'[x] = out[x]
        /\ wrote'[x] = wrote[x] /\ sockDown'[x] = sockDown[x] /\ inbound' = inbound /\ sends' = sends
        /\ writing[x] # <<>>
      BY DEF ExecWrite, loopVars
  <2>3. buf[x] \in Seq(Units) /\ sock[x] \in Seq(Units) /\ writing[x] \in Seq(Units)
      BY <1>0, Typed
  <2>4. Flow(x)' = Flow(x)
    <3>a. writing[x] # <<>>
        BY <2>2
    <3>b. /\ Head(writing[x]) \in Units /\ Tail(writing[x]) \in Seq(Units)
          /\ writing[x] = <<Head(writing[x])>> \o Tail(writing[x])
        BY <2>3, <3>a, HeadTail
    <3>c. PICK h \in Units : h = Head(writing[x])
        BY <3>b
    <3>d. PICK v \in Seq(Units) : v = Tail(writing[x])
        BY <3>b
    <3>e. buf[x] \o Append(sock[x], h) \o v = buf[x] \o sock[x] \o (<<h>> \o v)
      <4>1. PICK b \in Seq(Units) : b = buf[x]
          BY <2>3
      <4>2. PICK t \in Seq(Units) : t = sock[x]
          BY <2>3
      <4>3. Moved(b, t, h, v)
          BY MoveOne
      <4> QED
          BY <4>1, <4>2, <4>3, Zenon DEF Moved
    <3>1. buf[x] \o Append(sock[x], Head(writing[x])) \o Tail(writing[x]) = buf[x] \o sock[x] \o writing[x]
        BY <3>b, <3>c, <3>d, <3>e, Zenon
    <3> QED
        BY <2>1, <2>2, <3>1 DEF Flow
  <2>5. Stream(x)'
    <3>1. Len(Tail(writing[x])) = Len(writing[x]) - 1 /\ Len(writing[x]) \in Nat /\ FrameLen \in Nat
      <4>1. Len(Tail(writing[x])) = Len(writing[x]) - 1 /\ Len(writing[x]) \in Nat
          BY <2>2, <2>3, HeadTail
      <4> QED
          BY <4>1, Lengths
    <3>2. Len(writing[x]) <= FrameLen
        BY <2>0 DEF Stream
    <3>3. Len(Tail(writing[x])) <= FrameLen
        BY <3>1, <3>2
    <3> QED
        BY <2>0, <2>1, <2>2, <2>4, <3>3 DEF Stream
  <2>6. Order(x)'
      BY <2>0, <2>2, OrderKept
  <2>7. Lasts(x)'
      BY <2>0, <2>2, <2>4, LastsKept
  <2>8. OneTask(x)'
      BY <2>0, <2>2, OneTaskKept
  <2>9. AtEnd(x)'
      BY <2>0, <2>2 DEF AtEnd
  <2> QED
      BY <2>5, <2>6, <2>7, <2>8, <2>9 DEF ExecInv
<1> QED
    BY <1>1, <1>2, <1>3, <1>4 DEF RelayInv

(* An exec that is idle has been heard out.                                *)
LEMMA HeardOut ==
    ASSUME RelayTypeOK, NEW e \in Execs, Stream(e), Idle(e)
    PROVE  Flow(e) = <<>> /\ need[e] = 0
<1>1. Flow(e) \in Seq(Units) /\ need[e] \in {0, BodyLen} /\ decoded[e] \in Nat
    BY Typed
<1>2. Framed(Flow(e), Taken(need[e]), decoded[e], decoded[e])
    BY DEF Stream, Idle
<1> QED
    BY <1>1, <1>2, FramedNone

LEMMA ExecTaskKeeps ==
    ASSUME RelayInv, NEW x \in Execs, ExecTask(x)
    PROVE  RelayInv'
<1>0. RelayTypeOK /\ Quiet /\ x \in Remotes
    BY Apartness DEF RelayInv
<1>1. RelayTypeOK'
    BY <1>0, ExecTaskType
<1>2. Quiet'
    BY <1>0, QuietKept DEF ExecTask
<1>3. ASSUME NEW e \in Execs, e # x PROVE ExecInv(e)'
  <2>1. ExecInv(e) /\ e \in Remotes
      BY ExecParts, Apartness
  <2>2. job'[e] = job[e] /\ sockDown'[e] = sockDown[e]
      BY <1>0, <1>3, <2>1 DEF ExecTask, RelayTypeOK
  <2> QED
      BY <2>1, <2>2, Apart DEF ExecTask, loopVars
<1>4. ExecInv(x)'
  <2>0. Stream(x) /\ Order(x) /\ Lasts(x) /\ OneTask(x) /\ AtEnd(x)
      BY ExecParts
  <2>1. sockDown'[x] = Tail(sockDown[x]) /\ sockDown[x] # <<>> /\ sockDown[x] \in Seq(Messages)
      BY <1>0 DEF ExecTask, RelayTypeOK
  <2>2. /\ alive[x] /\ alive'[x] = alive[x] /\ sock'[x] = sock[x] /\ buf'[x] = buf[x] /\ need'[x] = need[x]
        /\ decoded'[x] = decoded[x] /\ relay'[x] = relay[x] /\ hold'[x] = hold[x] /\ out'[x] = out[x]
        /\ wrote'[x] = wrote[x] /\ writing'[x] = writing[x] /\ inbound' = inbound /\ sends' = sends
      BY DEF ExecTask, loopVars
  <2>3. Idle(x) /\ ~Sending(x) /\ out[x] = <<>> /\ relay[x] # "write" /\ Len(sockDown[x]) <= 1
      BY <2>0, <2>1 DEF OneTask, UnderWay
  <2>4. Flow(x) = <<>> /\ Flow(x)' = Flow(x)
      BY <1>0, <2>0, <2>2, <2>3, HeardOut DEF Flow
  <2>5. sockDown'[x] = <<>>
    <3>a. sockDown[x] \in Seq(Messages) /\ sockDown[x] # <<>>
        BY <2>1
    <3>0. Len(sockDown[x]) \in Nat /\ Len(sockDown[x]) >= 1
      <4>1. PICK u \in Seq(Messages) : u = sockDown[x]
          BY <3>a
      <4>2. u # <<>>
          BY <3>a, <4>1
      <4>3. Len(u) \in Nat /\ Len(u) >= 1
          BY <4>2, HeadTail
      <4> QED
          BY <4>1, <4>3
    <3>1. Len(sockDown[x]) = 1
      <4>1. Len(sockDown[x]) <= 1
          BY <2>3
      <4>2. PICK n \in Nat : n = Len(sockDown[x])
          BY <3>0
      <4>3. n >= 1 /\ n <= 1
          BY <3>0, <4>1, <4>2
      <4>4. n = 1
          BY <4>3
      <4> QED
          BY <4>2, <4>4
    <3>2. Tail(sockDown[x]) \in Seq(Messages) /\ Len(Tail(sockDown[x])) = 0
        BY <2>1, <3>1, HeadTail
    <3> QED
        BY <2>1, <3>2, EmptySeq
  <2>6. Stream(x)'
      BY <2>0, <2>2, StreamKept
  <2>7. Order(x)'
      BY <2>0, <2>2, OrderKept
  <2>8. Lasts(x)'
    <3>1. \A i \in 1 .. Len(inbound) : inbound[i].from = x => inbound[i].msg.type # "TaskDone"
        BY <2>3 DEF Idle, Unhandled, Results
    <3>2. relay[x] # "send"
        BY <2>3 DEF Idle
    <3>3. (\A i \in 1 .. Len(inbound) : inbound[i].from = x => LastSaid(x, inbound[i].msg))'
        BY <2>2, <3>1 DEF LastSaid
    <3>4. \A i \in 1 .. Len(Flow(x)') : FALSE
        BY <2>4
    <3> QED
        BY <2>2, <3>2, <3>3, <3>4 DEF Lasts
  <2>9. OneTask(x)'
    <3>1. ~Sending(x)'
        BY <2>2, <2>3 DEF Sending
    <3>2. out'[x] = <<>> /\ relay'[x] # "write"
        BY <2>2, <2>3
    <3>3. Len(out'[x]) <= 1 /\ Len(sockDown'[x]) <= 1
        BY <2>5, <3>2
    <3> QED
        BY <2>5, <3>1, <3>2, <3>3 DEF OneTask, UnderWay, Sending
  <2>10. AtEnd(x)'
      BY <2>0, <2>2 DEF AtEnd
  <2> QED
      BY <2>6, <2>7, <2>8, <2>9, <2>10 DEF ExecInv
<1> QED
    BY <1>1, <1>2, <1>3, <1>4 DEF RelayInv

-----------------------------------------------------------------------------
(* The steps of a relay.                                                   *)

(* What is taken off the first of three is taken off q.                    *)
Leads(p, r, w, q) ==
    \A c \in 0 .. Len(p) :
        /\ Len(p) <= Len(q)
        /\ \A i \in 1 .. Len(p) : p[i] = q[i]
        /\ SubSeq(p, c + 1, Len(p)) \o r \o w = SubSeq(q, c + 1, Len(q))

LEMMA FlowRead ==
    ASSUME NEW p \in Seq(Units), NEW r \in Seq(Units), NEW w \in Seq(Units)
    PROVE  Leads(p, r, w, p \o (r \o w))
<1>0. SUFFICES ASSUME NEW c \in 0 .. Len(p)
               PROVE  /\ Len(p) <= Len(p \o (r \o w))
                      /\ \A i \in 1 .. Len(p) : p[i] = (p \o (r \o w))[i]
                      /\ SubSeq(p, c + 1, Len(p)) \o r \o w = SubSeq(p \o (r \o w), c + 1, Len(p \o (r \o w)))
    BY Zenon DEF Leads
<1>1. PICK t \in Seq(Units) : t = r \o w
    BY ConcatFacts
<1>2. PICK d \in Seq(Units) : d = SubSeq(p, c + 1, Len(p))
    BY RestFacts
<1>3. SubSeq(p, c + 1, Len(p)) \o t = SubSeq(p \o t, c + 1, Len(p \o t))
    BY DropFirst
<1>4. (d \o r) \o w = d \o (r \o w)
  <2>1. Assoc(d, r, w)
      BY ConcatAssoc
  <2> QED
      BY <2>1 DEF Assoc
<1>5. Len(p \o t) = Len(p) + Len(t) /\ \A i \in 1 .. Len(p) : (p \o t)[i] = p[i]
    BY ConcatFacts
<1>6. Len(p) <= Len(p \o t)
    BY <1>5, LenProperties
<1>7. SubSeq(p, c + 1, Len(p)) \o r \o w = SubSeq(p \o t, c + 1, Len(p \o t))
    BY <1>1, <1>2, <1>3, <1>4, Zenon
<1>8. \A i \in 1 .. Len(p) : p[i] = (p \o t)[i]
    BY <1>5, Zenon
<1> QED
    BY <1>1, <1>6, <1>7, <1>8, Zenon

LEMMA FlowTaken ==
    ASSUME NEW b \in Seq(Units), NEW s \in Seq(Units), NEW w \in Seq(Units), NEW k \in 0 .. Len(s)
    PROVE  Leads(b \o SubSeq(s, 1, k), SubSeq(s, k + 1, Len(s)), w, b \o s \o w)
<1>1. PICK f : f = SubSeq(s, 1, k)
    OBVIOUS
<1>2. PICK r : r = SubSeq(s, k + 1, Len(s))
    OBVIOUS
<1>a. f \in Seq(Units)
    BY <1>1, FirstFacts
<1>b. r \in Seq(Units)
    BY <1>2, RestFacts
<1>3. (b \o f) \o (r \o w) = b \o (f \o r) \o w
  <2>1. Assoc(b, f, r)
      BY <1>a, <1>b, ConcatAssoc
  <2>2. b \o f \in Seq(Units)
      BY <1>a, ConcatFacts
  <2>3. Assoc(b \o f, r, w)
      BY <1>b, <2>2, ConcatAssoc
  <2> QED
      BY <2>1, <2>3, Zenon DEF Assoc
<1>4. f \o r = s
    BY <1>1, <1>2, SplitSeq
<1>5. (b \o f) \o (r \o w) = b \o s \o w
    BY <1>3, <1>4, Zenon
<1>6. PICK p : p = b \o f
    OBVIOUS
<1>c. p \in Seq(Units)
    BY <1>a, <1>6, ConcatFacts
<1>7. p \o (r \o w) = b \o s \o w
    BY <1>5, <1>6, Zenon
<1>8. Leads(p, r, w, p \o (r \o w))
    BY <1>b, <1>c, FlowRead, Zenon
<1> QED
    BY <1>1, <1>2, <1>6, <1>7, <1>8, Zenon

(* A read within a frame.                                                  *)
LEMMA ReadOn ==
    ASSUME RelayTypeOK, NEW e \in Execs, ExecInv(e), NEW c \in 0 .. Len(Flow(e)),
           Flow(e)' = SubSeq(Flow(e), c + 1, Len(Flow(e))),
           Taken(need'[e]) = Taken(need[e]) + c,
           alive'[e] = alive[e], job'[e] = job[e], wrote'[e] = wrote[e], writing'[e] = writing[e],
           decoded'[e] = decoded[e], relay'[e] = relay[e], hold'[e] = hold[e], out'[e] = out[e],
           sockDown'[e] = sockDown[e], inbound' = inbound, sends' = sends
    PROVE  ExecInv(e)'
<1>0. Stream(e) /\ Order(e) /\ Lasts(e) /\ OneTask(e) /\ AtEnd(e)
    BY DEF ExecInv
<1>1. PICK q \in Seq(Units) : q = Flow(e)
    BY Typed
<1>2. PICK n \in Nat : n = Taken(need[e])
    BY Typed
<1>3. decoded[e] \in Nat /\ wrote[e] \in Nat
    BY Typed
<1>4. PICK r : r = SubSeq(q, c + 1, Len(q))
    OBVIOUS
<1>5. Flow(e)' = r /\ c \in 0 .. Len(q)
    BY <1>1, <1>4
<1>6. n + c \in Nat
    BY LenProperties
<1>7. Framed(q, n, decoded[e], wrote[e])
    BY <1>0, <1>1, <1>2 DEF Stream
<1>8. Framed(r, n + c, decoded[e], wrote[e])
    BY <1>3, <1>4, <1>5, <1>6, <1>7, FramedRead
<1>9. Stream(e)'
    BY <1>0, <1>2, <1>5, <1>8 DEF Stream
<1>10. Lasts(e)'
  <2>1. Len(r) = Len(q) - c /\ Len(q) \in Nat /\ \A i \in 1 .. Len(q) - c : r[i] = q[c + i]
      BY <1>4, <1>5, RestFacts, LenProperties
  <2>2. ASSUME NEW i \in 1 .. Len(r) PROVE \E j \in 1 .. Len(q) : r[i] = q[j]
    <3>1. i \in 1 .. Len(q) - c /\ c + i \in 1 .. Len(q)
        BY <1>5, <2>1
    <3> QED
        BY <2>1, <3>1
  <2>3. \A j \in 1 .. Len(q) : LastSaid(e, q[j].msg)
      BY <1>0, <1>1 DEF Lasts
  <2>4. ASSUME NEW m PROVE LastSaid(e, m)' <=> LastSaid(e, m)
      BY DEF LastSaid
  <2>5. \A i \in 1 .. Len(r) : LastSaid(e, r[i].msg)
      BY <2>2, <2>3
  <2> QED
      BY <1>0, <1>5, <2>4, <2>5 DEF Lasts
<1>11. Order(e)'
    BY <1>0, OrderKept
<1>12. OneTask(e)'
    BY <1>0, OneTaskKept
<1>13. AtEnd(e)'
    BY <1>0, AtEndKept
<1> QED
    BY <1>9, <1>10, <1>11, <1>12, <1>13 DEF ExecInv

(* A read that ends a frame.                                               *)
LEMMA ReadAll ==
    ASSUME RelayTypeOK, NEW e \in Execs, ExecInv(e), NEW c \in 1 .. Len(Flow(e)),
           Flow(e)' = SubSeq(Flow(e), c + 1, Len(Flow(e))),
           need'[e] = 0, Taken(need[e]) + c = FrameLen,
           decoded'[e] = decoded[e] + 1, relay'[e] = "send", hold'[e] = Flow(e)[1].msg,
           alive'[e] = alive[e], job'[e] = job[e], wrote'[e] = wrote[e], writing'[e] = writing[e],
           out'[e] = out[e], sockDown'[e] = sockDown[e], inbound' = inbound, sends' = sends
    PROVE  ExecInv(e)'
<1>0. Stream(e) /\ Order(e) /\ Lasts(e) /\ OneTask(e) /\ AtEnd(e)
    BY DEF ExecInv
<1>1. PICK q \in Seq(Units) : q = Flow(e)
    BY Typed
<1>2. PICK n \in Nat : n = Taken(need[e])
    BY Typed
<1>3. decoded[e] \in Nat /\ wrote[e] \in Nat
    BY Typed
<1>a. PICK d \in Nat : d = decoded[e]
    BY <1>3
<1>b. PICK w \in Nat : w = wrote[e]
    BY <1>3
<1>4. PICK r : r = SubSeq(q, c + 1, Len(q))
    OBVIOUS
<1>5. Flow(e)' = r /\ c \in 1 .. Len(q) /\ Len(q) \in Nat
    BY <1>1, <1>4, LenProperties
<1>6. d + 1 \in Nat /\ 0 \in Nat /\ 0 + FrameLen = n + c /\ c \in 0 .. Len(q) /\ n + c <= FrameLen /\ 1 \in 1 .. Len(q)
    BY <1>2, <1>5, Lengths
<1>7. Framed(q, n, d, w)
    BY <1>0, <1>1, <1>2, <1>a, <1>b DEF Stream
<1>8. Framed(r, 0, d + 1, w)
    BY <1>4, <1>6, <1>7, FramedRead
<1>9. q[1].msg.seq = d + 1 /\ q[1].msg.type \in Results
    BY <1>5, <1>6, <1>7, FramedHead
<1>10. q[1].msg.seq <= w
  <2>1. InStep(q, 1, n, d, w)
      BY <1>6, <1>7, FramedUnit
  <2> QED
      BY <2>1 DEF InStep
<1>11. Stream(e)'
  <2>1. Taken(0) = 0 /\ d + 1 <= w
      BY <1>9, <1>10 DEF Taken
  <2> QED
      BY <1>0, <1>5, <1>8, <1>a, <1>b, <2>1 DEF Stream
<1>12. Order(e)'
  <2>1. \A i \in 1 .. Len(inbound) : Unhandled(e, i) => inbound[i].msg.seq <= d
      BY <1>0, <1>a DEF Order
  <2>2. \A i \in 1 .. Len(inbound) : Unhandled(e, i) => inbound[i].msg.seq \in Nat
    <3>1. \A i \in 1 .. Len(inbound) : inbound[i] \in [from : Remotes, msg : Messages]
        BY ElementOfSeq DEF RelayTypeOK
    <3> QED
        BY <3>1 DEF Messages
  <2>3. \A i \in 1 .. Len(inbound) : Unhandled(e, i) => inbound[i].msg.seq < d + 1 /\ inbound[i].msg.seq <= d + 1
      BY <2>1, <2>2
  <2>4. hold'[e].type \in Results /\ hold'[e].seq = d + 1 /\ decoded'[e] = d + 1
      BY <1>1, <1>9, <1>a
  <2>5. \A i : Unhandled(e, i)' <=> Unhandled(e, i)
      BY DEF Unhandled
  <2>6. (\A i \in 1 .. Len(inbound) : Unhandled(e, i) =>
          /\ inbound[i].msg.seq <= decoded[e]
          /\ relay[e] = "send" => inbound[i].msg.seq < decoded[e])'
      BY <2>3, <2>4, <2>5
  <2>7. (\A i, j \in 1 .. Len(inbound) : i < j /\ Unhandled(e, i) /\ Unhandled(e, j) =>
          inbound[i].msg.seq < inbound[j].msg.seq)'
      BY <1>0, <2>5 DEF Order
  <2> QED
      BY <2>4, <2>6, <2>7 DEF Order
<1>13. Lasts(e)'
  <2>1. Len(r) = Len(q) - c /\ \A i \in 1 .. Len(q) - c : r[i] = q[c + i]
      BY <1>4, <1>6, UnitsLeft DEF Left
  <2>2. ASSUME NEW i \in 1 .. Len(r) PROVE \E j \in 1 .. Len(q) : r[i] = q[j]
    <3>1. i \in 1 .. Len(q) - c /\ c + i \in 1 .. Len(q)
        BY <1>5, <2>1
    <3> QED
        BY <2>1, <3>1
  <2>3. \A j \in 1 .. Len(q) : LastSaid(e, q[j].msg)
      BY <1>0, <1>1 DEF Lasts
  <2>4. ASSUME NEW m PROVE LastSaid(e, m)' <=> LastSaid(e, m)
      BY DEF LastSaid
  <2>5. \A i \in 1 .. Len(r) : LastSaid(e, r[i].msg)
      BY <2>2, <2>3
  <2>6. LastSaid(e, q[1].msg) /\ hold'[e] = q[1].msg
      BY <1>1, <1>6, <2>3
  <2>7. \A i \in 1 .. Len(inbound) : inbound[i].from = e => LastSaid(e, inbound[i].msg)
      BY <1>0 DEF Lasts
  <2> QED
      BY <1>5, <2>4, <2>5, <2>6, <2>7 DEF Lasts
<1>14. OneTask(e)'
  <2>1. ~Idle(e)
    <3>1. Idle(e) => Flow(e) = <<>>
        BY <1>0, HeardOut
    <3>2. Flow(e) # <<>>
        BY <1>1, <1>5
    <3> QED
        BY <3>1, <3>2
  <2>2. ~Sending(e) /\ out[e] = <<>> /\ sockDown[e] = <<>>
      BY <1>0, <2>1, Busy DEF UnderWay
  <2>3. ~Sending(e)' /\ out'[e] = <<>> /\ sockDown'[e] = <<>> /\ relay'[e] # "write"
      BY <2>2 DEF Sending
  <2>4. Len(out'[e]) <= 1 /\ Len(sockDown'[e]) <= 1
      BY <2>3
  <2> QED
      BY <2>3, <2>4 DEF OneTask, UnderWay, Sending
<1>15. AtEnd(e)'
    BY DEF AtEnd
<1> QED
    BY <1>11, <1>12, <1>13, <1>14, <1>15 DEF ExecInv

LEMMA RelayReadKeeps ==
    ASSUME RelayInv, NEW x \in Remotes, RelayRead(x)
    PROVE  RelayInv'
<1>0. /\ RelayTypeOK /\ Quiet
      /\ buf[x] \in Seq(Units) /\ sock[x] \in Seq(Units) /\ need[x] \in {0, BodyLen} /\ decoded[x] \in Nat
    BY DEF RelayInv, RelayTypeOK
<1>1. RelayTypeOK'
    BY <1>0, RelayReadType
<1>2. PICK k \in 0 .. Len(sock[x]) :
          LET ready == Parse(buf[x], need[x]).msg # None
              res == Parse(buf[x] \o SubSeq(sock[x], 1, k), need[x])
          IN  /\ (k = 0) = ready
              /\ sock' = [sock EXCEPT ![x] = SubSeq(@, k + 1, Len(@))]
              /\ buf' = [buf EXCEPT ![x] = res.buf]
              /\ need' = [need EXCEPT ![x] = res.need]
              /\ IF res.msg = None
                 THEN UNCHANGED <<decoded, relay, hold>>
                 ELSE /\ decoded' = [decoded EXCEPT ![x] = @ + 1]
                      /\ relay' = [relay EXCEPT ![x] = "send"]
                      /\ hold' = [hold EXCEPT ![x] = res.msg]
    BY DEF RelayRead
<1>3. x \in Execs
  <2>1. SUFFICES ASSUME x \in Clients PROVE FALSE
      BY Apartness
  <2>2. sock[x] = <<>> /\ buf[x] = <<>>
      BY <1>0, <2>1 DEF Quiet
  <2>3. k = 0
    <3>1. Len(sock[x]) = 0
        BY <2>2
    <3> QED
        BY <3>1
  <2>4. PICK b \in Seq(Units) : b = buf[x]
      BY <1>0
  <2>5. Len(b) = 0
      BY <2>2, <2>4
  <2>6. Taken(need[x]) \in Nat /\ Taken(need[x]) < FrameLen
      BY <1>0, Lengths DEF Taken
  <2>7. Len(b) + Taken(need[x]) < FrameLen
      BY <2>5, <2>6
  <2>a. Parsed(b, need[x], Parse(b, need[x]))
      BY <1>0, ParseFacts
  <2>8. Parse(b, need[x]).msg = None
      BY <2>7, <2>a DEF Parsed
  <2> QED
      BY <1>2, <2>3, <2>4, <2>8
<1>4. PICK p : p = buf[x] \o SubSeq(sock[x], 1, k)
    OBVIOUS
<1>5. p \in Seq(Units)
  <2>1. SubSeq(sock[x], 1, k) \in Seq(Units)
      BY <1>0, FirstFacts
  <2> QED
      BY <1>0, <1>4, <2>1, ConcatFacts
<1>6. PICK res : res = Parse(p, need[x])
    OBVIOUS
<1>7. /\ sock'[x] = SubSeq(sock[x], k + 1, Len(sock[x])) /\ buf'[x] = res.buf /\ need'[x] = res.need
      /\ res.msg = None => decoded' = decoded /\ relay' = relay /\ hold' = hold
      /\ res.msg # None => /\ decoded' = [decoded EXCEPT ![x] = @ + 1]
                           /\ relay' = [relay EXCEPT ![x] = "send"]
                           /\ hold' = [hold EXCEPT ![x] = res.msg]
      /\ \A y \in Remotes : y # x => sock'[y] = sock[y] /\ buf'[y] = buf[y] /\ need'[y] = need[y]
    BY <1>0, <1>2, <1>4, <1>6 DEF RelayTypeOK
<1>8. /\ alive' = alive /\ job' = job /\ wrote' = wrote /\ writing' = writing
      /\ out' = out /\ sockDown' = sockDown /\ inbound' = inbound /\ sends' = sends
    BY DEF RelayRead, remoteVars, loopVars
<1>9. \A y \in Remotes : y # x => decoded'[y] = decoded[y] /\ relay'[y] = relay[y] /\ hold'[y] = hold[y]
    BY <1>0, <1>7 DEF RelayTypeOK
<1>10. Quiet'
  <2>1. \A c \in Clients : c \in Remotes /\ c # x
      BY <1>3, Apartness
  <2> QED
      BY <1>0, <1>7, <1>8, <1>9, <2>1 DEF Quiet
<1>11. ASSUME NEW e \in Execs, e # x PROVE ExecInv(e)'
  <2>1. ExecInv(e) /\ e \in Remotes
      BY ExecParts, Apartness
  <2> QED
      BY <1>7, <1>8, <1>9, <1>11, <2>1, Apart
<1>12. ExecInv(x)'
  <2>0. ExecInv(x) /\ Stream(x) /\ writing[x] \in Seq(Units)
      BY <1>0, <1>3, ExecParts, Typed
  <2>a. Parsed(p, need[x], res)
      BY <1>0, <1>5, <1>6, ParseFacts
  <2>1. PICK c \in 0 .. Len(p) :
              /\ res.buf = SubSeq(p, c + 1, Len(p))
              /\ res.need \in {0, BodyLen}
              /\ Len(p) + Taken(need[x]) < FrameLen =>
                    Taken(res.need) = Taken(need[x]) + c /\ res.msg = None
              /\ Len(p) + Taken(need[x]) >= FrameLen =>
                    /\ res.need = 0 /\ Taken(need[x]) + c = FrameLen
                    /\ res.msg \in Messages
                    /\ (\A i \in 1 .. c : p[i] = [msg |-> p[1].msg, at |-> Taken(need[x]) + i])
                           => res.msg = p[1].msg
      BY <2>a DEF Parsed
  <2>2. PICK q \in Seq(Units) : q = Flow(x)
      BY <1>0, <1>3, Typed
  <2>3. /\ Len(p) <= Len(q) /\ \A i \in 1 .. Len(p) : p[i] = q[i]
        /\ SubSeq(p, c + 1, Len(p)) \o SubSeq(sock[x], k + 1, Len(sock[x])) \o writing[x] = SubSeq(q, c + 1, Len(q))
    <3>1. Leads(buf[x] \o SubSeq(sock[x], 1, k), SubSeq(sock[x], k + 1, Len(sock[x])), writing[x],
                buf[x] \o sock[x] \o writing[x])
        BY <1>0, <2>0, FlowTaken, Zenon
    <3>2. q = buf[x] \o sock[x] \o writing[x]
        BY <2>2 DEF Flow
    <3> QED
        BY <1>4, <3>1, <3>2, Zenon DEF Leads
  <2>4. Flow(x)' = SubSeq(Flow(x), c + 1, Len(Flow(x)))
      BY <1>7, <1>8, <2>1, <2>2, <2>3 DEF Flow
  <2>5. /\ Len(p) \in Nat /\ Len(q) \in Nat /\ c \in 0 .. Len(q) /\ Taken(need[x]) \in Nat
        /\ FrameLen \in Nat /\ Taken(need[x]) < FrameLen
    <3>1. Taken(need[x]) \in Nat /\ FrameLen \in Nat /\ Taken(need[x]) < FrameLen
        BY <1>0, Lengths DEF Taken
    <3>2. Len(p) \in Nat /\ Len(q) \in Nat
        BY <1>5, LenProperties
    <3>3. c \in 0 .. Len(q)
        BY <2>3, <3>2
    <3> QED
        BY <3>1, <3>2, <3>3
  <2>6. CASE Len(p) + Taken(need[x]) < FrameLen
    <3>1. res.msg = None /\ Taken(need'[x]) = Taken(need[x]) + c
        BY <1>7, <2>1, <2>6
    <3>2. c \in 0 .. Len(Flow(x))
        BY <2>2, <2>5
    <3> QED
        BY <1>0, <1>3, <1>7, <1>8, <2>0, <2>4, <3>1, <3>2, ReadOn
  <2>7. CASE ~(Len(p) + Taken(need[x]) < FrameLen)
    <3>1. Len(p) + Taken(need[x]) >= FrameLen
        BY <2>5, <2>7
    <3>2. /\ res.need = 0 /\ Taken(need[x]) + c = FrameLen /\ res.msg \in Messages
          /\ (\A i \in 1 .. c : p[i] = [msg |-> p[1].msg, at |-> Taken(need[x]) + i]) => res.msg = p[1].msg
        BY <2>1, <3>1
    <3>3. c \in 1 .. Len(q) /\ c \in 1 .. Len(p) /\ 1 \in 1 .. Len(p) /\ Taken(need[x]) + c <= FrameLen
        BY <2>5, <3>2
    <3>4. Framed(q, Taken(need[x]), decoded[x], wrote[x]) /\ wrote[x] \in Nat
        BY <1>0, <1>3, <2>0, <2>2, Typed DEF Stream
    <3>5. \A i \in 1 .. c : q[i] = [msg |-> q[1].msg, at |-> Taken(need[x]) + i]
      <4>1. PICK n \in Nat, d \in Nat, w \in Nat : n = Taken(need[x]) /\ d = decoded[x] /\ w = wrote[x]
          BY <1>0, <2>5, <3>4
      <4>2. Framed(q, n, d, w) /\ n + c <= FrameLen
          BY <3>3, <3>4, <4>1
      <4>3. \A i \in 1 .. c : q[i] = [msg |-> q[1].msg, at |-> n + i]
          BY <3>3, <4>2, FramedHead
      <4> QED
          BY <4>1, <4>3
    <3>6. p[1] = q[1] /\ \A i \in 1 .. c : p[i] = q[i]
      <4>1. \A i \in 1 .. c : i \in 1 .. Len(p)
          BY <2>5, <3>3
      <4>2. \A i \in 1 .. Len(p) : p[i] = q[i]
          BY <2>3
      <4> QED
          BY <3>3, <4>1, <4>2, Zenon
    <3>7. res.msg = q[1].msg
        BY <3>2, <3>5, <3>6
    <3>8. /\ decoded'[x] = decoded[x] + 1 /\ relay'[x] = "send" /\ hold'[x] = Flow(x)[1].msg
          /\ c \in 1 .. Len(Flow(x)) /\ need'[x] = 0
      <4>1. res.msg # None
          BY <3>2, Apartness
      <4> QED
          BY <1>0, <1>7, <2>2, <3>2, <3>3, <3>7, <4>1 DEF RelayTypeOK
    <3> QED
        BY <1>0, <1>3, <1>8, <2>0, <2>4, <3>2, <3>8, ReadAll
  <2> QED
      BY <2>6, <2>7
<1> QED
    BY <1>1, <1>10, <1>11, <1>12 DEF RelayInv

-----------------------------------------------------------------------------
(* The channel to the loop.                                                *)

(* What is in the channel was there before, d places further back, except  *)
(* for a Dropped.                                                          *)
Traced(e, d) ==
    \A i \in 1 .. Len(inbound') : inbound'[i].from = e =>
        \/ inbound'[i].msg.type = "Dropped"
        \/ i + d \in 1 .. Len(inbound) /\ inbound'[i] = inbound[i + d]

LEMMA AppendTraced ==
    ASSUME RelayTypeOK, NEW e, NEW v \in [from : Remotes, msg : Messages],
           inbound' = Append(inbound, v), v.from = e => v.msg.type = "Dropped"
    PROVE  Traced(e, 0)
<1>1. /\ Len(inbound) \in Nat /\ Len(inbound') = Len(inbound) + 1
      /\ \A i \in 1 .. Len(inbound) : inbound'[i] = inbound[i]
      /\ inbound'[Len(inbound) + 1] = v
    BY AppendProperties, LenProperties DEF RelayTypeOK
<1>2. ASSUME NEW i \in 1 .. Len(inbound'), inbound'[i].from = e
      PROVE  \/ inbound'[i].msg.type = "Dropped"
             \/ i + 0 \in 1 .. Len(inbound) /\ inbound'[i] = inbound[i + 0]
  <2>1. i + 0 = i /\ (i \in 1 .. Len(inbound) \/ i = Len(inbound) + 1)
      BY <1>1
  <2> QED
      BY <1>1, <1>2, <2>1
<1> QED
    BY <1>2 DEF Traced

LEMMA TailTraced ==
    ASSUME RelayTypeOK, NEW e, inbound # <<>>, inbound' = Tail(inbound)
    PROVE  Traced(e, 1)
<1>1. /\ Len(inbound) \in Nat /\ Len(inbound') = Len(inbound) - 1
      /\ \A i \in 1 .. Len(inbound) - 1 : inbound'[i] = inbound[i + 1]
    BY HeadTail DEF RelayTypeOK
<1>2. \A i \in 1 .. Len(inbound') : i + 1 \in 1 .. Len(inbound) /\ inbound'[i] = inbound[i + 1]
    BY <1>1
<1> QED
    BY <1>2 DEF Traced

LEMMA UnhandledTraced ==
    ASSUME NEW e, NEW d \in {0, 1}, Traced(e, d), NEW i \in 1 .. Len(inbound'), Unhandled(e, i)'
    PROVE  i + d \in 1 .. Len(inbound) /\ inbound'[i] = inbound[i + d] /\ Unhandled(e, i + d)
<1>1. inbound'[i].from = e /\ inbound'[i].msg.type # "Dropped"
    BY DEF Unhandled, Results
<1>2. i + d \in 1 .. Len(inbound) /\ inbound'[i] = inbound[i + d]
    BY <1>1 DEF Traced
<1> QED
    BY <1>2 DEF Unhandled

LEMMA OrderTraced ==
    ASSUME NEW e \in Execs, Order(e), NEW d \in {0, 1}, Traced(e, d), decoded'[e] = decoded[e],
           relay'[e] # "send" \/ (relay'[e] = relay[e] /\ hold'[e] = hold[e])
    PROVE  Order(e)'
<1>1. ASSUME NEW i \in 1 .. Len(inbound'), Unhandled(e, i)'
      PROVE  /\ inbound'[i].msg.seq <= decoded'[e]
             /\ relay'[e] = "send" => inbound'[i].msg.seq < decoded'[e]
  <2>1. i + d \in 1 .. Len(inbound) /\ inbound'[i] = inbound[i + d] /\ Unhandled(e, i + d)
      BY <1>1, UnhandledTraced
  <2> QED
      BY <2>1 DEF Order
<1>2. ASSUME NEW i \in 1 .. Len(inbound'), NEW j \in 1 .. Len(inbound'), i < j,
             Unhandled(e, i)', Unhandled(e, j)'
      PROVE  inbound'[i].msg.seq < inbound'[j].msg.seq
  <2>1. i + d \in 1 .. Len(inbound) /\ inbound'[i] = inbound[i + d] /\ Unhandled(e, i + d)
      BY <1>2, UnhandledTraced
  <2>2. j + d \in 1 .. Len(inbound) /\ inbound'[j] = inbound[j + d] /\ Unhandled(e, j + d)
      BY <1>2, UnhandledTraced
  <2>3. i + d < j + d
      BY <1>2
  <2> QED
      BY <2>1, <2>2, <2>3 DEF Order
<1>3. relay'[e] = "send" => hold'[e].type \in Results /\ hold'[e].seq = decoded'[e]
    BY DEF Order
<1> QED
    BY <1>1, <1>2, <1>3 DEF Order

LEMMA LastsTraced ==
    ASSUME NEW e \in Execs, Lasts(e), NEW d \in {0, 1}, Traced(e, d),
           Flow(e)' = Flow(e), wrote'[e] = wrote[e], job'[e] = job[e],
           relay'[e] # "send" \/ (relay'[e] = relay[e] /\ hold'[e] = hold[e])
    PROVE  Lasts(e)'
<1>1. ASSUME NEW m PROVE LastSaid(e, m)' <=> LastSaid(e, m)
    BY DEF LastSaid
<1>2. ASSUME NEW i \in 1 .. Len(inbound'), inbound'[i].from = e
      PROVE  LastSaid(e, inbound'[i].msg)
  <2>1. CASE inbound'[i].msg.type = "Dropped"
      BY <2>1 DEF LastSaid
  <2>2. CASE i + d \in 1 .. Len(inbound) /\ inbound'[i] = inbound[i + d]
      BY <1>2, <2>2 DEF Lasts
  <2> QED
      BY <1>2, <2>1, <2>2 DEF Traced
<1> QED
    BY <1>1, <1>2 DEF Lasts

LEMMA IdleTraced ==
    ASSUME NEW e \in Execs, Idle(e), NEW d \in {0, 1}, Traced(e, d), decoded'[e] = decoded[e],
           wrote'[e] = wrote[e], job'[e] = job[e], relay'[e] # "send"
    PROVE  Idle(e)'
<1>1. ASSUME NEW i \in 1 .. Len(inbound'), Unhandled(e, i)' PROVE FALSE
  <2>1. i + d \in 1 .. Len(inbound) /\ Unhandled(e, i + d)
      BY <1>1, UnhandledTraced
  <2> QED
      BY <2>1 DEF Idle
<1> QED
    BY <1>1 DEF Idle

-----------------------------------------------------------------------------
(* The steps of a relay that do not read.                                  *)

LEMMA RelaySendKeeps ==
    ASSUME RelayInv, NEW x \in Remotes, RelaySend(x)
    PROVE  RelayInv'
<1>0. RelayTypeOK /\ Quiet
    BY DEF RelayInv
<1>1. RelayTypeOK'
    BY <1>0, RelaySendType
<1>2. x \in Execs
    BY <1>0, Apartness DEF Quiet, RelaySend
<1>3. /\ alive' = alive /\ job' = job /\ wrote' = wrote /\ writing' = writing /\ sock' = sock
      /\ buf' = buf /\ need' = need /\ decoded' = decoded /\ hold' = hold
      /\ out' = out /\ sockDown' = sockDown /\ sends' = sends
      /\ relay[x] = "send" /\ inbound' = Append(inbound, [from |-> x, msg |-> hold[x]])
    BY DEF RelaySend, remoteVars, loopVars
<1>4. relay'[x] = "select" /\ \A y \in Remotes : y # x => relay'[y] = relay[y]
    BY <1>0 DEF RelaySend, RelayTypeOK
<1>5. PICK v \in [from : Remotes, msg : Messages] :
              v.from = x /\ v.msg = hold[x] /\ inbound' = Append(inbound, v)
  <2>1. PICK v : v = [from |-> x, msg |-> hold[x]]
      OBVIOUS
  <2>2. v \in [from : Remotes, msg : Messages] /\ v.from = x /\ v.msg = hold[x]
      BY <1>0, <2>1 DEF RelayTypeOK
  <2> QED
      BY <1>3, <2>1, <2>2
<1>6. /\ Len(inbound) \in Nat /\ Len(inbound') = Len(inbound) + 1
      /\ \A i \in 1 .. Len(inbound) : inbound'[i] = inbound[i]
      /\ inbound'[Len(inbound) + 1] = v
    BY <1>0, <1>5, AppendProperties, LenProperties DEF RelayTypeOK
<1>7. \A i \in 1 .. Len(inbound') : i \in 1 .. Len(inbound) \/ i = Len(inbound) + 1
    BY <1>6
<1>8. Quiet'
  <2>1. \A c \in Clients : c \in Remotes /\ c # x
      BY <1>2, Apartness
  <2>2. \A i \in 1 .. Len(inbound') : inbound'[i].from \in Clients => inbound'[i].msg.type = "Dropped"
      BY <1>0, <1>2, <1>5, <1>6, <1>7, Apartness DEF Quiet
  <2> QED
      BY <1>0, <1>3, <1>4, <2>1, <2>2 DEF Quiet
<1>9. ASSUME NEW e \in Execs, e # x PROVE ExecInv(e)'
  <2>0. e \in Remotes /\ Stream(e) /\ Order(e) /\ Lasts(e) /\ OneTask(e) /\ AtEnd(e)
      BY Apartness, ExecParts
  <2>1. Traced(e, 0) /\ 0 \in {0, 1}
      BY <1>0, <1>5, <1>9, AppendTraced
  <2>2. relay'[e] = relay[e] /\ Flow(e)' = Flow(e)
      BY <1>3, <1>4, <1>9, <2>0 DEF Flow
  <2>3. Stream(e)'
      BY <1>3, <2>0, StreamKept
  <2>4. Order(e)'
      BY <1>3, <2>0, <2>1, <2>2, OrderTraced
  <2>5. Lasts(e)'
      BY <1>3, <2>0, <2>1, <2>2, LastsTraced
  <2>6. Idle(e) => Idle(e)'
    <3>1. Idle(e) => relay'[e] # "send"
        BY <2>2 DEF Idle
    <3> QED
        BY <1>3, <2>1, <3>1, IdleTraced
  <2>7. OneTask(e)'
      BY <1>3, <2>0, <2>2, <2>6 DEF OneTask, UnderWay, Sending
  <2>8. AtEnd(e)'
      BY <1>3, <2>0, <2>2, AtEndKept
  <2> QED
      BY <2>3, <2>4, <2>5, <2>7, <2>8 DEF ExecInv
<1>10. ExecInv(x)'
  <2>0. Stream(x) /\ Order(x) /\ Lasts(x) /\ OneTask(x) /\ AtEnd(x) /\ decoded[x] \in Nat
      BY <1>0, <1>2, ExecParts, Typed
  <2>1. Flow(x)' = Flow(x)
      BY <1>3 DEF Flow
  <2>2. Stream(x)'
      BY <1>2, <1>3, <2>0, StreamKept
  <2>3. hold[x].seq = decoded[x] /\ LastSaid(x, hold[x])
      BY <1>3, <2>0 DEF Order, Lasts
  <2>4. \A i \in 1 .. Len(inbound) : Unhandled(x, i) => inbound[i].msg.seq < decoded[x] /\ inbound[i].msg.seq <= decoded[x]
      BY <1>3, <2>0 DEF Order
  <2>5. \A i \in 1 .. Len(inbound) : Unhandled(x, i)' <=> Unhandled(x, i)
      BY <1>6 DEF Unhandled
  <2>6. Order(x)'
    <3>1. ASSUME NEW i \in 1 .. Len(inbound'), Unhandled(x, i)' PROVE inbound'[i].msg.seq <= decoded[x]
      <4>1. CASE i \in 1 .. Len(inbound)
          BY <1>6, <2>4, <2>5, <3>1, <4>1
      <4>2. CASE i = Len(inbound) + 1
        <5>1. inbound'[i].msg.seq = decoded[x]
            BY <1>5, <1>6, <2>3, <4>2
        <5> QED
            BY <2>0, <5>1
      <4> QED
          BY <1>7, <4>1, <4>2
    <3>2. ASSUME NEW i \in 1 .. Len(inbound'), NEW j \in 1 .. Len(inbound'), i < j,
                 Unhandled(x, i)', Unhandled(x, j)'
          PROVE  inbound'[i].msg.seq < inbound'[j].msg.seq
      <4>1. i \in 1 .. Len(inbound)
          BY <1>6, <3>2
      <4>2. Unhandled(x, i) /\ inbound'[i] = inbound[i]
          BY <1>6, <2>5, <3>2, <4>1
      <4>3. CASE j \in 1 .. Len(inbound)
        <5>1. Unhandled(x, j) /\ inbound'[j] = inbound[j]
            BY <1>6, <2>5, <3>2, <4>3
        <5> QED
            BY <2>0, <3>2, <4>1, <4>2, <4>3, <5>1 DEF Order
      <4>4. CASE j = Len(inbound) + 1
        <5>1. inbound'[j].msg.seq = decoded[x]
            BY <1>5, <1>6, <2>3, <4>4
        <5> QED
            BY <2>4, <4>1, <4>2, <5>1
      <4> QED
          BY <1>7, <4>3, <4>4
    <3> QED
        BY <1>3, <1>4, <3>1, <3>2 DEF Order
  <2>7. Lasts(x)'
    <3>1. ASSUME NEW m PROVE LastSaid(x, m)' <=> LastSaid(x, m)
        BY <1>3 DEF LastSaid
    <3>2. \A i \in 1 .. Len(inbound') : inbound'[i].from = x => LastSaid(x, inbound'[i].msg)
        BY <1>5, <1>6, <1>7, <2>0, <2>3 DEF Lasts
    <3> QED
        BY <1>4, <2>0, <2>1, <3>1, <3>2 DEF Lasts
  <2>8. OneTask(x)'
    <3>1. ~UnderWay(x)
        BY <1>2, <1>3, <2>0, Busy DEF Idle
    <3>2. ~Sending(x) /\ out[x] = <<>> /\ sockDown[x] = <<>>
        BY <3>1 DEF UnderWay
    <3>3. ~Sending(x)' /\ out'[x] = <<>> /\ sockDown'[x] = <<>> /\ relay'[x] # "write"
        BY <1>3, <1>4, <3>2 DEF Sending
    <3>4. Len(out'[x]) <= 1 /\ Len(sockDown'[x]) <= 1
        BY <3>3
    <3> QED
        BY <3>3, <3>4 DEF OneTask, UnderWay, Sending
  <2>9. AtEnd(x)'
      BY <1>4 DEF AtEnd
  <2> QED
      BY <2>2, <2>6, <2>7, <2>8, <2>9 DEF ExecInv
<1> QED
    BY <1>1, <1>8, <1>9, <1>10 DEF RelayInv

LEMMA RelayTakeKeeps ==
    ASSUME RelayInv, NEW x \in Remotes, RelayTake(x)
    PROVE  RelayInv'
<1>0. RelayTypeOK /\ Quiet
    BY DEF RelayInv
<1>1. RelayTypeOK'
    BY <1>0, RelayTakeType
<1>2. /\ alive' = alive /\ job' = job /\ wrote' = wrote /\ writing' = writing /\ sock' = sock
      /\ buf' = buf /\ decoded' = decoded /\ inbound' = inbound
      /\ sockDown' = sockDown /\ sends' = sends /\ relay[x] = "select" /\ out[x] # <<>>
    BY DEF RelayTake, remoteVars, loopVars
<1>3. /\ relay'[x] = "write" /\ out'[x] = Tail(out[x]) /\ need'[x] = 0
      /\ \A y \in Remotes : y # x =>
            relay'[y] = relay[y] /\ out'[y] = out[y] /\ need'[y] = need[y] /\ hold'[y] = hold[y]
    BY <1>0 DEF RelayTake, RelayTypeOK
<1>4. Quiet'
  <2>1. \A c \in Clients : c \in Remotes
      BY Apartness
  <2>2. \A c \in Clients : relay'[c] = relay[c] \/ relay'[c] # "send"
      BY <1>3, <2>1
  <2> QED
      BY <1>0, <1>2, <2>2, QuietKept
<1>5. ASSUME NEW e \in Execs, e # x PROVE ExecInv(e)'
  <2>1. ExecInv(e) /\ e \in Remotes
      BY ExecParts, Apartness
  <2> QED
      BY <1>2, <1>3, <1>5, <2>1, Apart
<1>6. ASSUME x \in Execs PROVE ExecInv(x)'
  <2>0. /\ Stream(x) /\ Order(x) /\ Lasts(x) /\ OneTask(x) /\ AtEnd(x)
        /\ out[x] \in Seq(Messages)
      BY <1>0, <1>6, ExecParts, Typed
  <2>1. Idle(x) /\ ~Sending(x) /\ Len(out[x]) <= 1 /\ sockDown[x] = <<>>
      BY <1>2, <2>0 DEF OneTask, UnderWay
  <2>2. need'[x] = need[x] /\ Flow(x)' = Flow(x)
      BY <1>0, <1>2, <1>3, <1>6, <2>0, <2>1, HeardOut DEF Flow
  <2>3. out'[x] = <<>>
    <3>1. PICK u \in Seq(Messages) : u = out[x]
        BY <2>0
    <3>2. u # <<>> /\ Len(u) <= 1
        BY <1>2, <2>1, <3>1
    <3>3. Len(u) \in Nat /\ Len(u) >= 1 /\ Tail(u) \in Seq(Messages) /\ Len(Tail(u)) = Len(u) - 1
        BY <3>2, HeadTail
    <3>4. Len(Tail(u)) = 0
        BY <3>2, <3>3
    <3>5. Tail(u) = <<>>
        BY <3>3, <3>4, EmptySeq
    <3> QED
        BY <1>3, <3>1, <3>5
  <2>4. Stream(x)'
      BY <1>2, <1>6, <2>0, <2>2, StreamKept
  <2>5. Order(x)'
      BY <1>2, <1>3, <2>0 DEF Order, Unhandled
  <2>6. Lasts(x)'
    <3>1. ASSUME NEW m PROVE LastSaid(x, m)' <=> LastSaid(x, m)
        BY <1>2 DEF LastSaid
    <3> QED
        BY <1>2, <1>3, <2>0, <2>2, <3>1 DEF Lasts
  <2>7. OneTask(x)'
    <3>1. Idle(x)'
        BY <1>2, <1>3, <2>1 DEF Idle, Unhandled
    <3>2. ~Sending(x)'
        BY <1>2, <2>1 DEF Sending
    <3>3. sockDown'[x] = <<>> /\ Len(out'[x]) <= 1
        BY <1>2, <2>1, <2>3
    <3>4. Len(sockDown'[x]) <= 1
        BY <3>3
    <3> QED
        BY <2>3, <3>1, <3>2, <3>3, <3>4 DEF OneTask, Sending
  <2>8. AtEnd(x)'
      BY <1>3 DEF AtEnd
  <2> QED
      BY <2>4, <2>5, <2>6, <2>7, <2>8 DEF ExecInv
<1> QED
    BY <1>1, <1>4, <1>5, <1>6 DEF RelayInv

LEMMA RelayWriteKeeps ==
    ASSUME RelayInv, NEW x \in Remotes, RelayWrite(x)
    PROVE  RelayInv'
<1>0. RelayTypeOK /\ Quiet
    BY DEF RelayInv
<1>1. RelayTypeOK'
    BY <1>0, RelayWriteType
<1>2. /\ alive' = alive /\ job' = job /\ wrote' = wrote /\ writing' = writing /\ sock' = sock
      /\ buf' = buf /\ need' = need /\ decoded' = decoded /\ hold' = hold /\ inbound' = inbound
      /\ sends' = sends /\ relay[x] = "write"
    BY DEF RelayWrite, remoteVars, loopVars
<1>a. relay' = [relay EXCEPT ![x] = "select"] \/ relay' = [relay EXCEPT ![x] = "done"]
    BY DEF RelayWrite, Return
<1>b. out' = out \/ out' = [out EXCEPT ![x] = <<>>]
    BY DEF RelayWrite, Return
<1>c. sockDown' = sockDown \/ sockDown' = [sockDown EXCEPT ![x] = Append(@, hold[x])]
    BY DEF RelayWrite
<1>3. /\ relay'[x] \in {"select", "done"} /\ out'[x] \in {out[x], <<>>}
      /\ sockDown'[x] = sockDown[x] \/ sockDown'[x] = Append(sockDown[x], hold[x])
      /\ \A y \in Remotes : y # x => relay'[y] = relay[y] /\ out'[y] = out[y] /\ sockDown'[y] = sockDown[y]
    BY <1>0, <1>a, <1>b, <1>c DEF RelayTypeOK
<1>4. Quiet'
  <2>1. \A c \in Clients : c \in Remotes
      BY Apartness
  <2>2. \A c \in Clients : relay'[c] = relay[c] \/ relay'[c] # "send"
      BY <1>3, <2>1
  <2> QED
      BY <1>0, <1>2, <2>2, QuietKept
<1>5. ASSUME NEW e \in Execs, e # x PROVE ExecInv(e)'
  <2>1. ExecInv(e) /\ e \in Remotes
      BY ExecParts, Apartness
  <2> QED
      BY <1>2, <1>3, <1>5, <2>1, Apart
<1>6. ASSUME x \in Execs PROVE ExecInv(x)'
  <2>0. /\ Stream(x) /\ Order(x) /\ Lasts(x) /\ OneTask(x) /\ AtEnd(x)
        /\ hold[x] \in Messages
      BY <1>0, <1>6, ExecParts, Typed
  <2>1. Idle(x) /\ ~Sending(x) /\ out[x] = <<>> /\ sockDown[x] = <<>>
      BY <1>2, <2>0 DEF OneTask, UnderWay
  <2>2. Flow(x)' = Flow(x)
      BY <1>2 DEF Flow
  <2>3. Len(sockDown'[x]) <= 1 /\ out'[x] = <<>>
    <3>1. sockDown[x] \in Seq(Messages)
        BY <1>0, <1>6, Typed
    <3>2. Len(Append(sockDown[x], hold[x])) = Len(sockDown[x]) + 1
        BY <2>0, <3>1, AppendProperties
    <3>3. Len(sockDown[x]) = 0
        BY <2>1
    <3>4. out'[x] = <<>>
        BY <1>3, <2>1
    <3>5. CASE sockDown'[x] = sockDown[x]
        BY <3>3, <3>4, <3>5
    <3>6. CASE sockDown'[x] = Append(sockDown[x], hold[x])
        BY <3>2, <3>3, <3>4, <3>6
    <3> QED
        BY <1>3, <3>5, <3>6
  <2>4. Stream(x)'
      BY <1>2, <1>6, <2>0, <2>2, StreamKept
  <2>5. Order(x)'
      BY <1>2, <1>3, <2>0 DEF Order, Unhandled
  <2>6. Lasts(x)'
    <3>1. ASSUME NEW m PROVE LastSaid(x, m)' <=> LastSaid(x, m)
        BY <1>2 DEF LastSaid
    <3> QED
        BY <1>2, <1>3, <2>0, <2>2, <3>1 DEF Lasts
  <2>7. OneTask(x)'
    <3>1. Idle(x)'
        BY <1>2, <1>3, <2>1 DEF Idle, Unhandled
    <3>2. ~Sending(x)'
        BY <1>2, <2>1 DEF Sending
    <3>3. Len(out'[x]) <= 1 /\ relay'[x] # "write"
        BY <1>3, <2>3
    <3> QED
        BY <2>3, <3>1, <3>2, <3>3 DEF OneTask, Sending
  <2>8. AtEnd(x)'
      BY <1>3 DEF AtEnd
  <2> QED
      BY <2>4, <2>5, <2>6, <2>7, <2>8 DEF ExecInv
<1> QED
    BY <1>1, <1>4, <1>5, <1>6 DEF RelayInv

(* At the end of the stream there is at most the start of a frame.         *)
LEMMA EndOfStream ==
    ASSUME RelayTypeOK, NEW e \in Execs, Stream(e), sock[e] = <<>>, Parse(buf[e], need[e]).msg = None
    PROVE  wrote[e] = decoded[e] + (IF writing[e] = <<>> THEN 0 ELSE 1)
<1>1. /\ buf[e] \in Seq(Units) /\ writing[e] \in Seq(Units) /\ need[e] \in {0, BodyLen}
      /\ Taken(need[e]) \in Nat /\ decoded[e] \in Nat /\ wrote[e] \in Nat
      /\ Len(Flow(e)) = Len(buf[e]) + Len(sock[e]) + Len(writing[e])
    BY Typed
<1>2. PICK b \in Nat, w \in Nat, n \in Nat : b = Len(buf[e]) /\ w = Len(writing[e]) /\ n = Taken(need[e])
    BY <1>1, LenProperties
<1>3. PICK d \in Nat, r \in Nat : d = decoded[e] /\ r = wrote[e]
    BY <1>1
<1>4. b + n < FrameLen
  <2>1. SUFFICES ASSUME ~(b + n < FrameLen) PROVE FALSE
      OBVIOUS
  <2>2. Len(buf[e]) + Taken(need[e]) >= FrameLen
      BY <1>2, <2>1, Lengths
  <2>a. Parsed(buf[e], need[e], Parse(buf[e], need[e]))
      BY <1>1, ParseFacts
  <2>3. Parse(buf[e], need[e]).msg \in Messages
      BY <2>2, <2>a DEF Parsed
  <2> QED
      BY <2>3, Apartness
<1>5. b + w + n = Span(r - d) /\ d <= r /\ w <= FrameLen
  <2>1. Len(Flow(e)) + Taken(need[e]) = Span(wrote[e] - decoded[e])
      BY DEF Stream, Framed
  <2>2. Len(sock[e]) = 0
      OBVIOUS
  <2>3. Len(Flow(e)) = b + w
      BY <1>1, <1>2, <2>2
  <2> QED
      BY <1>2, <1>3, <2>1, <2>3 DEF Stream
<1>6. PICK k \in Int : k = r - d
    OBVIOUS
<1>7. k >= 0 /\ b + w + n = Span(k) /\ Span(k) \in Int /\ FrameLen \in Nat /\ FrameLen > 0
    BY <1>5, <1>6, SpanFacts, Lengths
<1>8. (w = 0 <=> writing[e] = <<>>)
    BY <1>1, <1>2, EmptySeq
<1>9. CASE w = 0
  <2>1. Span(k) < FrameLen /\ Span(k) > -FrameLen
      BY <1>4, <1>7, <1>9
  <2>2. k = 0
      BY <2>1, SpanZero
  <2>3. r = d + 0
      BY <1>6, <2>2
  <2> QED
      BY <1>3, <1>8, <1>9, <2>3
<1>10. CASE w # 0
  <2>1. Span(k) > 0 /\ Span(k) < FrameLen + FrameLen
      BY <1>4, <1>5, <1>7, <1>10
  <2>2. PICK l \in Int : l = k - 1
      OBVIOUS
  <2>3. k = l + 1 /\ Span(l) \in Int /\ Span(k) = Span(l) + FrameLen
      BY <2>2, SpanFacts
  <2>4. Span(l) < FrameLen /\ Span(l) > -FrameLen
      BY <1>7, <2>1, <2>3
  <2>5. l = 0
      BY <2>4, SpanZero
  <2>6. r = d + 1
      BY <1>6, <2>3, <2>5
  <2> QED
      BY <1>3, <1>8, <1>10, <2>6
<1> QED
    BY <1>9, <1>10

LEMMA RelayEofKeeps ==
    ASSUME RelayInv, NEW x \in Remotes, RelayEof(x)
    PROVE  RelayInv'
<1>0. RelayTypeOK /\ Quiet
    BY DEF RelayInv
<1>1. RelayTypeOK'
    BY <1>0, RelayEofType
<1>2. /\ alive' = alive /\ job' = job /\ wrote' = wrote /\ writing' = writing /\ sock' = sock
      /\ buf' = buf /\ need' = need /\ decoded' = decoded /\ hold' = hold /\ inbound' = inbound
      /\ out' = out /\ sockDown' = sockDown /\ sends' = sends
      /\ relay[x] = "select" /\ ~alive[x] /\ sock[x] = <<>> /\ Parse(buf[x], need[x]).msg = None
    BY DEF RelayEof, remoteVars, loopVars
<1>3. relay'[x] = "drop" /\ \A y \in Remotes : y # x => relay'[y] = relay[y]
    BY <1>0 DEF RelayEof, RelayTypeOK
<1>4. Quiet'
  <2>1. \A c \in Clients : c \in Remotes
      BY Apartness
  <2>2. \A c \in Clients : relay'[c] = relay[c] \/ relay'[c] # "send"
      BY <1>3, <2>1
  <2> QED
      BY <1>0, <1>2, <2>2, QuietKept
<1>5. ASSUME NEW e \in Execs, e # x PROVE ExecInv(e)'
  <2>1. ExecInv(e) /\ e \in Remotes
      BY ExecParts, Apartness
  <2> QED
      BY <1>2, <1>3, <1>5, <2>1, Apart
<1>6. ASSUME x \in Execs PROVE ExecInv(x)'
  <2>0. Stream(x) /\ Order(x) /\ Lasts(x) /\ OneTask(x)
      BY <1>6, ExecParts
  <2>2. Flow(x)' = Flow(x)
      BY <1>2 DEF Flow
  <2>4. Stream(x)'
      BY <1>2, <1>6, <2>0, StreamKept
  <2>5. Order(x)'
      BY <1>2, <1>3, <2>0 DEF Order, Unhandled
  <2>6. Lasts(x)'
    <3>1. ASSUME NEW m PROVE LastSaid(x, m)' <=> LastSaid(x, m)
        BY <1>2 DEF LastSaid
    <3> QED
        BY <1>2, <1>3, <2>0, <2>2, <3>1 DEF Lasts
  <2>7. OneTask(x)'
    <3>1. Idle(x) => Idle(x)'
        BY <1>2, <1>3 DEF Idle, Unhandled
    <3>2. (UnderWay(x)' => UnderWay(x)) /\ (Sending(x)' <=> Sending(x))
        BY <1>2, <1>3 DEF UnderWay, Sending
    <3> QED
        BY <1>2, <1>3, <2>0, <3>1, <3>2 DEF OneTask
  <2>8. AtEnd(x)'
    <3>1. wrote[x] = decoded[x] + (IF writing[x] = <<>> THEN 0 ELSE 1)
        BY <1>0, <1>2, <1>6, <2>0, EndOfStream
    <3> QED
        BY <1>2, <3>1 DEF AtEnd
  <2> QED
      BY <2>4, <2>5, <2>6, <2>7, <2>8 DEF ExecInv
<1> QED
    BY <1>1, <1>4, <1>5, <1>6 DEF RelayInv

LEMMA RelayDropKeeps ==
    ASSUME RelayInv, NEW x \in Remotes, RelayDrop(x)
    PROVE  RelayInv'
<1>0. RelayTypeOK /\ Quiet
    BY DEF RelayInv
<1>1. RelayTypeOK'
    BY <1>0, RelayDropType
<1>2. /\ alive' = alive /\ job' = job /\ wrote' = wrote /\ writing' = writing /\ sock' = sock
      /\ buf' = buf /\ need' = need /\ decoded' = decoded /\ hold' = hold
      /\ sockDown' = sockDown /\ sends' = sends
      /\ inbound' = Append(inbound, [from |-> x, msg |-> Msg("Dropped", None, 0)])
    BY DEF RelayDrop, remoteVars, loopVars
<1>3. relay'[x] = "done" /\ out'[x] = <<>> /\ \A y \in Remotes : y # x => relay'[y] = relay[y] /\ out'[y] = out[y]
    BY <1>0 DEF RelayDrop, Return, RelayTypeOK
<1>4. PICK v \in [from : Remotes, msg : Messages] :
              v.msg.type = "Dropped" /\ inbound' = Append(inbound, v)
  <2>1. PICK v : v = [from |-> x, msg |-> Msg("Dropped", None, 0)]
      OBVIOUS
  <2>2. v \in [from : Remotes, msg : Messages] /\ v.msg.type = "Dropped"
      BY <2>1 DEF Msg, Messages
  <2> QED
      BY <1>2, <2>1, <2>2
<1>5. Quiet'
  <2>0. \A c \in Clients : c \in Remotes
      BY Apartness
  <2>1. \A c \in Clients : relay'[c] # "send"
      BY <1>0, <1>3, <2>0 DEF Quiet
  <2>2. /\ Len(inbound) \in Nat /\ Len(inbound') = Len(inbound) + 1
        /\ \A i \in 1 .. Len(inbound) : inbound'[i] = inbound[i]
        /\ inbound'[Len(inbound) + 1] = v
      BY <1>0, <1>4, AppendProperties, LenProperties DEF RelayTypeOK
  <2>3. \A i \in 1 .. Len(inbound') : i \in 1 .. Len(inbound) \/ i = Len(inbound) + 1
      BY <2>2
  <2>4. \A i \in 1 .. Len(inbound') : inbound'[i].from \in Clients => inbound'[i].msg.type = "Dropped"
      BY <1>0, <1>4, <2>2, <2>3 DEF Quiet
  <2> QED
      BY <1>0, <1>2, <2>1, <2>4 DEF Quiet
<1>6. ASSUME NEW e \in Execs PROVE ExecInv(e)'
  <2>0. e \in Remotes /\ Stream(e) /\ Order(e) /\ Lasts(e) /\ OneTask(e) /\ AtEnd(e)
      BY Apartness, ExecParts
  <2>1. Traced(e, 0) /\ 0 \in {0, 1}
      BY <1>0, <1>4, AppendTraced
  <2>2. Flow(e)' = Flow(e)
      BY <1>2 DEF Flow
  <2>a. \/ relay'[e] = relay[e] /\ out'[e] = out[e]
        \/ relay'[e] = "done" /\ out'[e] = <<>>
      BY <1>3, <2>0
  <2>3. Stream(e)'
      BY <1>2, <2>0, StreamKept
  <2>4. Order(e)'
    <3>1. relay'[e] # "send" \/ (relay'[e] = relay[e] /\ hold'[e] = hold[e])
        BY <1>2, <2>a
    <3> QED
        BY <1>2, <2>0, <2>1, <3>1, OrderTraced
  <2>5. Lasts(e)'
    <3>1. relay'[e] # "send" \/ (relay'[e] = relay[e] /\ hold'[e] = hold[e])
        BY <1>2, <2>a
    <3> QED
        BY <1>2, <2>0, <2>1, <2>2, <3>1, LastsTraced
  <2>6. Idle(e) => Idle(e)'
    <3>1. Idle(e) => relay'[e] # "send"
        BY <2>a DEF Idle
    <3> QED
        BY <1>2, <2>1, <3>1, IdleTraced
  <2>7. OneTask(e)'
    <3>1. Sending(e)' <=> Sending(e)
        BY <1>2 DEF Sending
    <3>2. UnderWay(e)' => UnderWay(e)
        BY <1>2, <2>a, <3>1 DEF UnderWay
    <3>3. Len(out'[e]) <= 1
      <4>1. Len(<<>>) <= 1 /\ Len(out[e]) <= 1
          BY <2>0 DEF OneTask
      <4> QED
          BY <2>a, <4>1
    <3> QED
        BY <1>2, <2>0, <2>6, <2>a, <3>1, <3>2, <3>3 DEF OneTask
  <2>8. AtEnd(e)'
      BY <1>2, <2>0, <2>a DEF AtEnd
  <2> QED
      BY <2>3, <2>4, <2>5, <2>7, <2>8 DEF ExecInv
<1> QED
    BY <1>1, <1>5, <1>6 DEF RelayInv

LEMMA KillKeeps ==
    ASSUME RelayInv, NEW x \in Remotes, Kill(x)
    PROVE  RelayInv'
<1>0. RelayTypeOK /\ Quiet
    BY DEF RelayInv
<1>1. RelayTypeOK'
    BY <1>0, KillType
<1>2. Quiet'
    BY <1>0, QuietKept DEF Kill
<1>3. ASSUME NEW e \in Execs PROVE ExecInv(e)'
  <2>1. ExecInv(e) /\ e \in Remotes
      BY ExecParts, Apartness
  <2>2. alive'[e] => alive[e]
      BY <1>0, <2>1 DEF Kill, RelayTypeOK
  <2> QED
      BY <2>1, <2>2, Apart DEF Kill, loopVars
<1> QED
    BY <1>1, <1>2, <1>3 DEF RelayInv

LEMMA ClientReadKeeps ==
    ASSUME RelayInv, NEW c \in Clients, ClientRead(c)
    PROVE  RelayInv'
<1>0. RelayTypeOK /\ Quiet
    BY DEF RelayInv
<1>1. RelayTypeOK'
    BY <1>0, ClientReadType
<1>2. Quiet'
    BY <1>0, QuietKept DEF ClientRead
<1>3. ASSUME NEW e \in Execs PROVE ExecInv(e)'
  <2>1. ExecInv(e) /\ e \in Remotes /\ e # c
      BY ExecParts, Apartness
  <2>2. alive'[e] = alive[e] /\ sockDown'[e] = sockDown[e]
      BY <1>0, <2>1 DEF ClientRead, RelayTypeOK
  <2> QED
      BY <2>1, <2>2, Apart DEF ClientRead, loopVars
<1> QED
    BY <1>1, <1>2, <1>3 DEF RelayInv

-----------------------------------------------------------------------------
(* The steps of the loop.                                                  *)

(* An exec that has said TaskDone has nothing under way, and once that is  *)
(* handled nothing more is heard of it.                                    *)
LEMMA DoneIsLast ==
    ASSUME RelayTypeOK, NEW e \in Execs, ExecInv(e), inbound # <<>>, inbound' = Tail(inbound),
           inbound[1].from = e, inbound[1].msg.type = "TaskDone",
           decoded'[e] = decoded[e], wrote'[e] = wrote[e], job'[e] = job[e], relay'[e] = relay[e]
    PROVE  ~UnderWay(e) /\ Idle(e)'
<1>0. Stream(e) /\ Order(e) /\ Lasts(e) /\ OneTask(e)
    BY DEF ExecInv
<1>1. /\ decoded[e] \in Nat /\ wrote[e] \in Nat /\ 1 \in 1 .. Len(inbound) /\ Len(inbound) \in Nat
      /\ \A i \in 1 .. Len(inbound) : inbound[i].msg.seq \in Nat
  <2>1. Len(inbound) \in Nat /\ Len(inbound) >= 1 /\ inbound \in Seq([from : Remotes, msg : Messages])
      BY HeadTail DEF RelayTypeOK
  <2>2. \A i \in 1 .. Len(inbound) : inbound[i] \in [from : Remotes, msg : Messages]
      BY <2>1, ElementOfSeq
  <2>3. \A i \in 1 .. Len(inbound) : inbound[i].msg.seq \in Nat
      BY <2>2 DEF Messages
  <2>4. decoded[e] \in Nat /\ wrote[e] \in Nat
      BY Typed
  <2> QED
      BY <2>1, <2>3, <2>4
<1>2. Unhandled(e, 1)
    BY DEF Unhandled, Results
<1>3. inbound[1].msg.seq = wrote[e] /\ job[e] = None
    BY <1>0, <1>1 DEF Lasts, LastSaid
<1>4. inbound[1].msg.seq <= decoded[e] /\ (relay[e] = "send" => inbound[1].msg.seq < decoded[e])
    BY <1>0, <1>1, <1>2 DEF Order
<1>5. decoded[e] <= wrote[e]
    BY <1>0 DEF Stream
<1>6. decoded[e] = wrote[e] /\ relay[e] # "send"
    BY <1>1, <1>3, <1>4, <1>5
<1>7. ASSUME NEW i \in 1 .. Len(inbound'), Unhandled(e, i)' PROVE FALSE
  <2>1. i + 1 \in 1 .. Len(inbound) /\ Unhandled(e, i + 1)
    <3>1. Traced(e, 1) /\ 1 \in {0, 1}
        BY TailTraced
    <3> QED
        BY <1>7, <3>1, UnhandledTraced
  <2>2. inbound[1].msg.seq < inbound[i + 1].msg.seq /\ inbound[i + 1].msg.seq <= decoded[e]
    <3>1. 1 < i + 1
        BY <1>1, <2>1
    <3>2. inbound[1].msg.seq < inbound[i + 1].msg.seq
        BY <1>0, <1>1, <1>2, <2>1, <3>1 DEF Order
    <3>3. inbound[i + 1].msg.seq <= decoded[e]
        BY <1>0, <2>1 DEF Order
    <3> QED
        BY <3>2, <3>3
  <2>3. inbound[i + 1].msg.seq \in Nat
      BY <1>1, <2>1
  <2> QED
      BY <1>1, <1>3, <1>6, <2>2, <2>3
<1>8. ~UnderWay(e)
    BY <1>0, <1>1, <1>2 DEF OneTask, Idle
<1>9. Idle(e)'
    BY <1>3, <1>6, <1>7 DEF Idle
<1> QED
    BY <1>8, <1>9

LEMMA LoopRecvKeeps ==
    ASSUME RelayInv, LoopRecv
    PROVE  RelayInv'
<1>0. RelayTypeOK /\ Quiet
    BY DEF RelayInv
<1>1. RelayTypeOK'
    BY <1>0, LoopRecvType
<1>2. /\ alive' = alive /\ job' = job /\ wrote' = wrote /\ writing' = writing /\ sock' = sock
      /\ buf' = buf /\ need' = need /\ decoded' = decoded /\ hold' = hold /\ relay' = relay
      /\ out' = out /\ sockDown' = sockDown
      /\ sends = <<>> /\ inbound # <<>> /\ inbound' = Tail(inbound)
    BY DEF LoopRecv, remoteVars
<1>3. Head(inbound) = inbound[1]
    BY <1>0, <1>2, FirstIn
<1>4. \/ \A i \in 1 .. Len(sends') : sends'[i].to \notin Execs
      \/ /\ inbound[1].msg.type = "TaskDone"
         /\ \A i \in 1 .. Len(sends') : sends'[i].to \in Execs =>
               i = Len(sends') /\ sends'[i].to = inbound[1].from
    BY <1>0, <1>3, HandlerSends
<1>5. Quiet'
  <2>1. /\ Len(inbound) \in Nat /\ Len(inbound') = Len(inbound) - 1
        /\ \A i \in 1 .. Len(inbound) - 1 : inbound'[i] = inbound[i + 1]
      BY <1>0, <1>2, HeadTail DEF RelayTypeOK
  <2>2. \A i \in 1 .. Len(inbound') : i + 1 \in 1 .. Len(inbound) /\ inbound'[i] = inbound[i + 1]
      BY <2>1
  <2>3. \A i \in 1 .. Len(inbound') : inbound'[i].from \in Clients => inbound'[i].msg.type = "Dropped"
      BY <1>0, <2>2 DEF Quiet
  <2> QED
      BY <1>0, <1>2, <2>3 DEF Quiet
<1>6. ASSUME NEW e \in Execs PROVE ExecInv(e)'
  <2>0. ExecInv(e) /\ Stream(e) /\ Order(e) /\ Lasts(e) /\ OneTask(e) /\ AtEnd(e)
      BY ExecParts
  <2>1. Traced(e, 1) /\ 1 \in {0, 1}
      BY <1>0, <1>2, TailTraced
  <2>2. Flow(e)' = Flow(e)
      BY <1>2 DEF Flow
  <2>3. Stream(e)'
      BY <1>2, <2>0, StreamKept
  <2>4. Order(e)'
      BY <1>2, <2>0, <2>1, OrderTraced
  <2>5. Lasts(e)'
      BY <1>2, <2>0, <2>1, <2>2, LastsTraced
  <2>6. Idle(e) => Idle(e)'
    <3>1. Idle(e) => relay'[e] # "send"
        BY <1>2 DEF Idle
    <3> QED
        BY <1>2, <2>1, <3>1, IdleTraced
  <2>7. OneTask(e)'
    <3>1. CASE ~Sending(e)'
      <4>1. UnderWay(e)' => UnderWay(e)
          BY <1>2, <3>1 DEF UnderWay
      <4>2. \A i \in 1 .. Len(sends') : sends'[i].to # e
          BY <3>1 DEF Sending
      <4> QED
          BY <1>2, <2>0, <2>6, <3>1, <4>1, <4>2 DEF OneTask
    <3>2. CASE Sending(e)'
      <4>1. PICK i \in 1 .. Len(sends') : sends'[i].to = e
          BY <3>2 DEF Sending
      <4>2. /\ inbound[1].msg.type = "TaskDone" /\ inbound[1].from = e
            /\ \A j \in 1 .. Len(sends') : sends'[j].to = e => j = Len(sends')
          BY <1>4, <4>1
      <4>3. ~UnderWay(e) /\ Idle(e)'
          BY <1>0, <1>2, <2>0, <4>2, DoneIsLast
      <4>4. out[e] = <<>> /\ relay[e] # "write" /\ sockDown[e] = <<>>
          BY <4>3 DEF UnderWay
      <4>5. out'[e] = <<>> /\ relay'[e] # "write" /\ sockDown'[e] = <<>>
          BY <1>2, <4>4
      <4>6. Len(out'[e]) <= 1 /\ Len(sockDown'[e]) <= 1
          BY <4>5
      <4> QED
          BY <4>2, <4>3, <4>5, <4>6 DEF OneTask
    <3> QED
        BY <3>1, <3>2
  <2>8. AtEnd(e)'
      BY <1>2, <2>0, AtEndKept
  <2> QED
      BY <2>3, <2>4, <2>5, <2>7, <2>8 DEF ExecInv
<1> QED
    BY <1>1, <1>5, <1>6 DEF RelayInv

LEMMA LoopSendKeeps ==
    ASSUME RelayInv, LoopSend
    PROVE  RelayInv'
<1>0. RelayTypeOK /\ Quiet
    BY DEF RelayInv
<1>1. RelayTypeOK'
    BY <1>0, LoopSendType
<1>2. /\ alive' = alive /\ job' = job /\ wrote' = wrote /\ writing' = writing /\ sock' = sock
      /\ buf' = buf /\ need' = need /\ decoded' = decoded /\ hold' = hold /\ relay' = relay
      /\ sockDown' = sockDown /\ inbound' = inbound /\ sends # <<>>
    BY DEF LoopSend, remoteVars
<1>3. Quiet'
    BY <1>0, <1>2, QuietKept
<1>4. PICK to, msg : /\ to = Head(sends).to /\ msg = Head(sends).msg
    OBVIOUS
<1>5. \/ sends' = Tail(sends) /\ out' = [out EXCEPT ![to] = Append(@, msg)]
      \/ sends' = Tail(sends) /\ out' = out
      \/ sends' = sends /\ out' = out
    BY <1>4 DEF LoopSend
<1>6. /\ Len(sends) \in Nat /\ Len(sends) >= 1 /\ Head(sends) = sends[1] /\ msg \in Messages
      /\ Len(Tail(sends)) = Len(sends) - 1
      /\ \A i \in 1 .. Len(sends) - 1 : Tail(sends)[i] = sends[i + 1]
  <2>1. sends \in Seq([to : Remotes \cup {None}, msg : Messages])
      BY <1>0 DEF RelayTypeOK
  <2>2. Head(sends) \in [to : Remotes \cup {None}, msg : Messages]
      BY <1>2, <2>1, HeadTail
  <2>3. msg \in Messages
      BY <1>4, <2>2
  <2> QED
      BY <1>2, <2>1, <2>3, HeadTail
<1>7. ASSUME NEW e \in Execs PROVE ExecInv(e)'
  <2>0. /\ e \in Remotes /\ Stream(e) /\ Order(e) /\ Lasts(e) /\ OneTask(e) /\ AtEnd(e)
        /\ out[e] \in Seq(Messages)
      BY <1>0, Apartness, ExecParts, Typed
  <2>2. Flow(e)' = Flow(e)
      BY <1>2 DEF Flow
  <2>3. Stream(e)'
      BY <1>2, <2>0, StreamKept
  <2>4. Order(e)'
      BY <1>2, <2>0, OrderKept
  <2>5. Lasts(e)'
      BY <1>2, <2>0, <2>2, LastsKept
  <2>6. Idle(e) => Idle(e)'
      BY <1>2 DEF Idle, Unhandled
  <2>7. OneTask(e)'
    <3>1. CASE sends' = sends /\ out' = out
        BY <1>2, <2>0, <3>1, OneTaskKept
    <3>2. CASE sends' = Tail(sends)
      <4>1. ASSUME NEW i \in 1 .. Len(sends'), sends'[i].to = e
            PROVE  i = Len(sends') /\ Sending(e)
        <5>1. i + 1 \in 1 .. Len(sends) /\ sends'[i] = sends[i + 1] /\ i \in Nat
            BY <1>6, <3>2
        <5>2. i + 1 = Len(sends)
            BY <2>0, <4>1, <5>1 DEF OneTask
        <5>3. i = Len(sends')
            BY <1>6, <3>2, <5>1, <5>2
        <5> QED
            BY <4>1, <5>1, <5>3 DEF Sending
      <4>2. Sending(e)' => Sending(e)
          BY <4>1 DEF Sending
      <4>3. CASE out'[e] = out[e]
        <5>1. UnderWay(e)' => UnderWay(e)
            BY <1>2, <4>2, <4>3 DEF UnderWay
        <5> QED
            BY <1>2, <2>0, <2>6, <4>1, <4>2, <4>3, <5>1 DEF OneTask
      <4>4. CASE to = e /\ out' = [out EXCEPT ![to] = Append(@, msg)]
        <5>1. 1 \in 1 .. Len(sends) /\ sends[1].to = e
            BY <1>4, <1>6, <4>4
        <5>2. Sending(e) /\ Len(sends) = 1
            BY <2>0, <5>1 DEF Sending, OneTask
        <5>3. ~Sending(e)'
          <6>1. Len(sends') = 0
              BY <1>6, <3>2, <5>2
          <6> QED
              BY <6>1 DEF Sending
        <5>4. out[e] = <<>> /\ relay[e] # "write" /\ sockDown[e] = <<>> /\ Idle(e)
            BY <2>0, <5>2 DEF OneTask, UnderWay
        <5>5. Len(out'[e]) <= 1
          <6>1. out'[e] = Append(out[e], msg)
              BY <1>0, <2>0, <4>4 DEF RelayTypeOK
          <6>2. Len(Append(out[e], msg)) = Len(out[e]) + 1
              BY <1>6, <2>0, AppendProperties
          <6>3. Len(out[e]) = 0
              BY <5>4
          <6> QED
              BY <6>1, <6>2, <6>3
        <5>6. relay'[e] # "write" /\ sockDown'[e] = <<>> /\ Len(sockDown'[e]) <= 1
          <6>1. relay'[e] # "write" /\ sockDown'[e] = <<>>
              BY <1>2, <5>4
          <6> QED
              BY <6>1
        <5> QED
            BY <2>6, <5>3, <5>4, <5>5, <5>6 DEF OneTask, Sending
      <4>5. to # e \/ out' = out => out'[e] = out[e]
          BY <1>0, <1>5, <2>0 DEF RelayTypeOK
      <4> QED
          BY <1>5, <4>3, <4>4, <4>5
    <3> QED
        BY <1>5, <3>1, <3>2
  <2>8. AtEnd(e)'
      BY <1>2, <2>0, AtEndKept
  <2> QED
      BY <2>3, <2>4, <2>5, <2>7, <2>8 DEF ExecInv
<1> QED
    BY <1>1, <1>3, <1>7 DEF RelayInv

-----------------------------------------------------------------------------
LEMMA RelayInitially ==
    ASSUME Init
    PROVE  RelayInv
<1>1. RelayTypeOK
  <2>1. Garbage \in Messages
      BY GarbageType
  <2>2. \A e \in Execs : FirstClient[e] \in Clients /\ Msg("Task", FirstClient[e], 0) \in Messages
      BY RelayAssumption DEF Msg, Messages
  <2>3. out \in [Remotes -> Seq(Messages)]
      BY <2>2 DEF Init
  <2>4. paired \in [Execs -> Clients \cup {None}] /\ waiting \subseteq Clients
      BY RelayAssumption DEF Init
  <2>5. /\ alive \in [Remotes -> BOOLEAN] /\ job \in [Execs -> Clients \cup {None}]
        /\ wrote \in [Execs -> Nat] /\ writing \in [Execs -> Seq(Units)]
        /\ sock \in [Remotes -> Seq(Units)] /\ buf \in [Remotes -> Seq(Units)]
        /\ need \in [Remotes -> {0, BodyLen}] /\ decoded \in [Remotes -> Nat]
      BY DEF Init
  <2>6. /\ relay \in [Remotes -> {"select", "send", "write", "drop", "done"}]
        /\ hold \in [Remotes -> Messages]
        /\ inbound \in Seq([from : Remotes, msg : Messages])
        /\ sockDown \in [Remotes -> Seq(Messages)]
        /\ sends \in Seq([to : Remotes \cup {None}, msg : Messages])
      BY <2>1 DEF Init
  <2> QED
      BY <2>3, <2>4, <2>5, <2>6 DEF RelayTypeOK
<1>2. Quiet
  <2>1. Len(inbound) = 0
      BY DEF Init
  <2> QED
      BY <2>1, Apartness DEF Init, Quiet
<1>3. ASSUME NEW e \in Execs PROVE ExecInv(e)
  <2>0. e \in Remotes
      BY Apartness
  <2>1. /\ buf[e] = <<>> /\ sock[e] = <<>> /\ writing[e] = <<>> /\ need[e] = 0 /\ decoded[e] = 0
        /\ wrote[e] = 0 /\ job[e] = None /\ relay[e] = "select" /\ sockDown[e] = <<>>
      BY <2>0 DEF Init
  <2>2. /\ Len(inbound) = 0 /\ Len(sends) = 0
      BY DEF Init
  <2>3. Len(out[e]) = 1
      BY <2>0 DEF Init
  <2>4. Flow(e) \in Seq(Units) /\ Len(Flow(e)) = 0
    <3>1. Len(buf[e]) = 0 /\ Len(sock[e]) = 0 /\ Len(writing[e]) = 0
        BY <2>1
    <3>2. Flow(e) \in Seq(Units) /\ Len(Flow(e)) = Len(buf[e]) + Len(sock[e]) + Len(writing[e])
        BY <1>1, Typed
    <3> QED
        BY <3>1, <3>2
  <2>5. Stream(e)
    <3>1. Taken(need[e]) = 0 /\ Len(writing[e]) <= FrameLen
      <4>1. Len(writing[e]) = 0
          BY <2>1
      <4> QED
          BY <2>1, <4>1, Lengths DEF Taken
    <3>2. PICK k \in Int : k = 0 - 0
        OBVIOUS
    <3>3. k = 0 /\ Span(k) = 0
        BY <3>2, SpanFacts
    <3>4. Span(0 - 0) = 0
        BY <3>2, <3>3
    <3> QED
        BY <2>1, <2>4, <3>1, <3>4 DEF Stream, Framed
  <2>6. Order(e)
      BY <2>1, <2>2 DEF Order
  <2>7. Lasts(e)
      BY <2>1, <2>2, <2>4 DEF Lasts
  <2>8. OneTask(e)
    <3>1. ~Sending(e)
        BY <2>2 DEF Sending
    <3>2. Idle(e)
        BY <2>1, <2>2 DEF Idle
    <3>3. Len(sockDown[e]) <= 1
        BY <2>1
    <3> QED
        BY <2>1, <2>2, <2>3, <3>1, <3>2, <3>3 DEF OneTask
  <2>9. AtEnd(e)
      BY <2>1 DEF AtEnd
  <2> QED
      BY <2>5, <2>6, <2>7, <2>8, <2>9 DEF ExecInv
<1> QED
    BY <1>1, <1>2, <1>3 DEF RelayInv

LEMMA RelayInvInductive ==
    ASSUME RelayInv, [Next]_vars
    PROVE  RelayInv'
<1>1. CASE \E e \in Execs : ExecStep(e)
    BY <1>1, ExecMessageKeeps, ExecWriteKeeps, ExecTaskKeeps DEF ExecStep
<1>2. CASE \E c \in Clients : ClientRead(c)
    BY <1>2, ClientReadKeeps
<1>3. ASSUME NEW x \in Remotes, RelayStep(x) PROVE RelayInv'
    BY <1>3, RelayReadKeeps, RelaySendKeeps, RelayTakeKeeps, RelayWriteKeeps, RelayEofKeeps, RelayDropKeeps
       DEF RelayStep
<1>4. ASSUME NEW x \in Remotes, Kill(x) PROVE RelayInv'
    BY <1>4, KillKeeps
<1>5. CASE LoopRecv
    BY <1>5, LoopRecvKeeps
<1>6. CASE LoopSend
    BY <1>6, LoopSendKeeps
<1>7. CASE UNCHANGED vars
  <2>1. /\ alive' = alive /\ job' = job /\ wrote' = wrote /\ writing' = writing /\ sock' = sock
        /\ buf' = buf /\ need' = need /\ decoded' = decoded /\ hold' = hold /\ relay' = relay
        /\ sockDown' = sockDown /\ inbound' = inbound /\ sends' = sends /\ out' = out
        /\ paired' = paired /\ waiting' = waiting
      BY <1>7 DEF vars, remoteVars, loopVars
  <2>2. RelayTypeOK'
      BY <2>1 DEF RelayInv, RelayTypeOK
  <2>3. Quiet'
      BY <2>1, QuietKept DEF RelayInv
  <2>4. ASSUME NEW e \in Execs PROVE ExecInv(e)'
    <3>1. ExecInv(e)
        BY ExecParts
    <3> QED
        BY <2>1, <3>1, Apart
  <2> QED
      BY <2>2, <2>3, <2>4 DEF RelayInv
<1> QED
    BY <1>1, <1>2, <1>3, <1>4, <1>5, <1>6, <1>7 DEF Next

(* FramesWhole of Relay: the relay of an exec (handle_connection) hands on *)
(* the messages of that exec whole, in order and nothing else, although    *)
(* its select! cancels read_message, and at the end of the stream it has   *)
(* handed on all the exec has finished writing.                            *)
THEOREM Framing == Spec => []FramesWhole
<1>1. Init => RelayInv
    BY RelayInitially
<1>2. RelayInv /\ [Next]_vars => RelayInv'
    BY RelayInvInductive
<1>3. RelayInv => FramesWhole
  <2>1. ASSUME RelayInv, NEW e \in Execs
        PROVE  /\ relay[e] = "send" => hold[e].type \in {"TaskOutput", "TaskDone"} /\ hold[e].seq = decoded[e]
               /\ relay[e] = "drop" => wrote[e] = decoded[e] + (IF writing[e] = <<>> THEN 0 ELSE 1)
    <3>1. Order(e) /\ AtEnd(e)
        BY <2>1, ExecParts
    <3> QED
        BY <3>1 DEF Order, AtEnd, Results
  <2> QED
      BY <2>1 DEF FramesWhole
<1> QED
    BY <1>1, <1>2, <1>3, PTL DEF Spec
=============================================================================
