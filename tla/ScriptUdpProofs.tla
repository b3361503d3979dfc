---------------------------- MODULE ScriptUdpProofs ----------------------------
(***************************************************************************)
(* What the application keeps for every script, every set of ports and any *)
(* number of lost datagrams: a request made of two commands' halves means  *)
(* that both commands lost a half, and descriptors are only lost to        *)
(* connects that threw.                                                    *)
(***************************************************************************)
EXTENDS ScriptUdp, TLAPS

Datagrams == [cmd : Nat \ {0}, part : {"op", "arg"}]

(* A datagram's place in what the script sends, and the last place so far. *)
At(d)  == IF d.part = "op" THEN 2 * d.cmd - 1 ELSE 2 * d.cmd
SentTo == IF half THEN 2 * Len(sent) - 1 ELSE 2 * Len(sent)

Waiting(s) == {s[i] : i \in 1..Len(s)}
Sorted(s)  == \A i, j \in 1..Len(s) : i < j => At(s[i]) < At(s[j])

(* The datagrams behind which nothing may be missing without being lost.   *)
Seen == Waiting(socket) \cup ({opcode} \ {Nothing})

(* The socket has what the script sent in the order in which it was sent,  *)
(* all of it later than the opcode just read, and between the first of     *)
(* them and the last datagram sent nothing is missing that was not lost.   *)
StreamInv ==
  /\ sent \in Seq(Command) /\ half \in BOOLEAN /\ (half => sent # <<>>)
  /\ socket \in Seq(Datagrams) /\ Sorted(socket)
  /\ opcode \in Datagrams \cup {Nothing}
  /\ opcode # Nothing => opcode.part = "op" /\ \A d \in Waiting(socket) : At(opcode) < At(d)
  /\ \A d \in Seen : At(d) <= SentTo
  /\ \A d \in Datagrams, e \in Seen : At(e) < At(d) /\ At(d) <= SentTo =>
       d \in Waiting(socket) \/ <<d.cmd, d.part>> \in lost

(* A socket that is open is one descriptor; every throw left one behind.   *)
ServerInv ==
  /\ open_ \in BOOLEAN /\ fds \in Int /\ failures \in Nat
  /\ port \in Port \cup {SERVER_PORT, Unbound}
  /\ fds <= failures + 1 /\ (~open_ => fds <= failures)

BusInv == pipe \in Seq(Commands)

IndInv == TypeOK /\ StreamInv /\ ServerInv /\ BusInv /\ PairedUnlessLost

-----------------------------------------------------------------------------
(* Places tell datagrams apart.                                            *)
LEMMA Places ==
  /\ \A d \in Datagrams : At(d) \in Nat \ {0} /\ d # Nothing
  /\ \A d, e \in Datagrams : At(d) = At(e) => d.cmd = e.cmd /\ d.part = e.part /\ d = e
  <1>1. ASSUME NEW d \in Datagrams PROVE At(d) \in Nat \ {0} /\ d # Nothing
    BY DEF Datagrams, At, Nothing
  <1>2. ASSUME NEW d \in Datagrams, NEW e \in Datagrams, At(d) = At(e)
        PROVE  d.cmd = e.cmd /\ d.part = e.part /\ d = e
    <2>1. d.cmd \in Nat /\ e.cmd \in Nat /\ d.part \in {"op", "arg"} /\ e.part \in {"op", "arg"}
      BY DEF Datagrams
    <2>2. d.cmd = e.cmd /\ d.part = e.part
      BY <1>2, <2>1 DEF At
    <2> QED
      BY <2>2 DEF Datagrams
  <1> QED
    BY <1>1, <1>2

LEMMA FirstWaits ==
  ASSUME NEW s \in Seq(Datagrams), s # <<>>, Sorted(s)
  PROVE  /\ Head(s) \in Datagrams /\ Tail(s) \in Seq(Datagrams) /\ Sorted(Tail(s))
         /\ Waiting(s) = {Head(s)} \cup Waiting(Tail(s))
         /\ \A d \in Waiting(Tail(s)) : At(Head(s)) < At(d)
  <1>1. /\ Len(s) \in Nat /\ Len(s) > 0 /\ Head(s) = s[1] /\ Head(s) \in Datagrams
        /\ Tail(s) \in Seq(Datagrams) /\ Len(Tail(s)) = Len(s) - 1
        /\ \A i \in 1..(Len(s) - 1) : Tail(s)[i] = s[i + 1]
    OBVIOUS
  <1>2. \A i \in 1..(Len(s) - 1) : i + 1 \in 1..Len(s) /\ 1 \in 1..Len(s) /\ 1 < i + 1
    BY <1>1
  <1>3. Sorted(Tail(s))
    <2> SUFFICES ASSUME NEW i \in 1..Len(Tail(s)), NEW j \in 1..Len(Tail(s)), i < j
                 PROVE  At(Tail(s)[i]) < At(Tail(s)[j])
      BY DEF Sorted
    <2>1. i + 1 < j + 1 /\ i + 1 \in 1..Len(s) /\ j + 1 \in 1..Len(s)
      BY <1>1
    <2> QED
      BY <1>1, <2>1 DEF Sorted
  <1>4. ASSUME NEW d \in Waiting(Tail(s)) PROVE At(Head(s)) < At(d) /\ d \in Waiting(s)
    <2>1. PICK i \in 1..(Len(s) - 1) : d = s[i + 1]
      BY <1>1 DEF Waiting
    <2> QED
      BY <1>1, <1>2, <2>1 DEF Sorted, Waiting
  <1>5. ASSUME NEW d \in Waiting(s) PROVE d \in {Head(s)} \cup Waiting(Tail(s))
    <2>1. PICK i \in 1..Len(s) : d = s[i]
      BY DEF Waiting
    <2>2. CASE i = 1
      BY <1>1, <2>1, <2>2
    <2>3. CASE i # 1
      <3>1. i - 1 \in 1..(Len(s) - 1) /\ (i - 1) + 1 = i
        BY <1>1, <2>3
      <3>2. i - 1 \in 1..Len(Tail(s)) /\ d = Tail(s)[i - 1]
        BY <1>1, <2>1, <3>1
      <3> QED
        BY <3>2 DEF Waiting
    <2> QED
      BY <2>2, <2>3
  <1>6. Head(s) \in Waiting(s)
    BY <1>1 DEF Waiting
  <1> QED
    BY <1>1, <1>3, <1>4, <1>5, <1>6

LEMMA LastWaits ==
  ASSUME NEW s \in Seq(Datagrams), Sorted(s), NEW d \in Datagrams, \A e \in Waiting(s) : At(e) < At(d)
  PROVE  /\ Append(s, d) \in Seq(Datagrams) /\ Sorted(Append(s, d))
         /\ Waiting(Append(s, d)) = Waiting(s) \cup {d}
  <1> DEFINE t == Append(s, d)  n == Len(s)
  <1>1. n \in Nat /\ t \in Seq(Datagrams) /\ Len(t) = n + 1 /\ t[n + 1] = d /\ \A i \in 1..n : t[i] = s[i]
    OBVIOUS
  <1>2. \A i \in 1..(n + 1) : i = n + 1 \/ i \in 1..n
    BY <1>1
  <1> HIDE DEF t
  <1>3. Sorted(t)
    <2> SUFFICES ASSUME NEW i \in 1..(n + 1), NEW j \in 1..(n + 1), i < j PROVE At(t[i]) < At(t[j])
      BY <1>1 DEF Sorted
    <2>1. i \in 1..n
      BY <1>1
    <2>2. CASE j \in 1..n
      BY <1>1, <2>1, <2>2 DEF Sorted
    <2>3. CASE j = n + 1
      <3>1. s[i] \in Waiting(s)
        BY <2>1 DEF Waiting
      <3> QED
        BY <1>1, <2>1, <2>3, <3>1
    <2> QED
      BY <1>2, <2>2, <2>3
  <1>4. ASSUME NEW x \in Waiting(t) PROVE x \in Waiting(s) \cup {d}
    <2>1. PICK i \in 1..(n + 1) : x = t[i]
      BY <1>1 DEF Waiting
    <2> QED
      BY <1>1, <1>2, <2>1 DEF Waiting
  <1>5. ASSUME NEW x \in Waiting(s) PROVE x \in Waiting(t)
    <2>1. PICK i \in 1..n : x = s[i]
      BY DEF Waiting
    <2>2. i \in 1..Len(t) /\ x = t[i]
      BY <1>1, <2>1
    <2> QED
      BY <2>2 DEF Waiting
  <1>6. d \in Waiting(t)
    <2>1. n + 1 \in 1..Len(t)
      BY <1>1
    <2> QED
      BY <1>1, <2>1 DEF Waiting
  <1> QED
    BY <1>1, <1>3, <1>4, <1>5, <1>6 DEF t

(* What a handler publishes names the command of its opcode and that of    *)
(* the text it read; with a picture, a download or the camera's power it   *)
(* has read an argument.                                                   *)
LEMMA RequestIs ==
  ASSUME ScriptAssumption, NEW k, sent[k] \in Command, NEW d \in Datagrams \cup {Nothing}
  PROVE  LET r == Request(k, d)
         IN  r # Nothing =>
               /\ r.opOf = k /\ r.argOf = (IF d = Nothing THEN k ELSE d.cmd)
               /\ r.op \in {"SnapRequest", "DownloadRequest", "DevicePower"} => d # Nothing /\ d.part = "arg"
  <1> DEFINE Told(r, op) ==
        /\ r.opOf = k /\ r.argOf = (IF d = Nothing THEN k ELSE d.cmd) /\ r.op = op
  <1>1. ASSUME NEW op, Numeric(k, d, op) # Nothing
        PROVE  Told(Numeric(k, d, op), op) /\ d # Nothing /\ d.part = "arg"
    BY <1>1 DEF Numeric
  <1>2. ASSUME CameraPower(k, d) # Nothing
        PROVE  Told(CameraPower(k, d), "DevicePower") /\ d # Nothing /\ d.part = "arg"
    BY <1>2 DEF CameraPower
  <1>3. sent[k].op \in OpCode
    BY DEF ScriptAssumption
  <1>4. CASE sent[k].op = "SNAP"
    <2>1. Request(k, d) = Numeric(k, d, "SnapRequest")
      BY <1>4 DEF Request
    <2> QED
      BY <1>1, <2>1
  <1>5. CASE sent[k].op = "DOWNLOAD"
    <2>1. Request(k, d) = Numeric(k, d, "DownloadRequest")
      BY <1>5 DEF Request
    <2> QED
      BY <1>1, <2>1
  <1>6. CASE sent[k].op = "CAM_POWER"
    <2>1. Request(k, d) = CameraPower(k, d)
      BY <1>6 DEF Request
    <2> QED
      BY <1>2, <2>1
  <1>7. CASE sent[k].op \in {"GPS", "KIDDIE"}
    BY <1>7 DEF Request
  <1> QED
    BY <1>3, <1>4, <1>5, <1>6, <1>7 DEF OpCode

-----------------------------------------------------------------------------
LEMMA InitInv == Init => IndInv
  <1> SUFFICES ASSUME Init PROVE IndInv
    OBVIOUS
  <1>1. TypeOK
    BY ScriptAssumption DEF Init, TypeOK, ScriptAssumption, Unbound, UINT16
  <1>2. ServerInv /\ BusInv /\ PairedUnlessLost
    BY DEF Init, ServerInv, BusInv, PairedUnlessLost
  <1>3. StreamInv
    <2>1. /\ Waiting(socket) = {} /\ Seen = {} /\ Sorted(socket)
          /\ Len(sent) = 0 /\ sent \in Seq(Command) /\ socket \in Seq(Datagrams)
      BY DEF Init, Waiting, Seen, Sorted
    <2> QED
      BY <2>1 DEF Init, StreamInv
  <1> QED
    BY <1>1, <1>2, <1>3 DEF IndInv

(* Nothing that was published becomes wrong by losing more.                *)
LEMMA StillPaired ==
  ASSUME PairedUnlessLost, lost \subseteq lost', published' = published \/ published' = Nothing
  PROVE  PairedUnlessLost'
  BY DEF PairedUnlessLost

(* The next datagram is the last to arrive, or is lost.                    *)
LEMMA SendInv ==
  ASSUME IndInv, NEW k \in Nat \ {0}, NEW p \in {"op", "arg"}, Datagram(k, p),
         At([cmd |-> k, part |-> p]) = SentTo + 1, SentTo' = SentTo + 1,
         sent' \in Seq(Command), half' \in BOOLEAN, half' => sent' # <<>>,
         UNCHANGED <<server, app, bus, published>>
  PROVE  IndInv'
  <1> DEFINE x == [cmd |-> k, part |-> p]
  <1>1. x \in Datagrams /\ x.cmd = k /\ x.part = p
    BY DEF Datagrams
  <1>2. TypeOK /\ StreamInv /\ ServerInv /\ BusInv /\ PairedUnlessLost
    BY DEF IndInv
  <1> HIDE DEF x
  <1>3. /\ UNCHANGED <<open_, port, fds, failures, phase, opcode, gpsCount_, pipe, published>>
        /\ lost \subseteq lost'
        /\ \/ port = SERVER_PORT /\ socket' = Append(socket, x) /\ lost' = lost
           \/ socket' = socket /\ lost' = lost \cup {<<x.cmd, x.part>>}
    BY <1>1 DEF Datagram, server, app, bus, x
  <1>4. SentTo \in Nat /\ At(x) = SentTo + 1
    <2>1. Len(sent) \in Nat /\ (half => Len(sent) > 0)
      BY <1>2 DEF StreamInv
    <2> QED
      BY <2>1 DEF SentTo, x
  <1>5. Waiting(socket) \subseteq Datagrams /\ Seen \subseteq Datagrams
    BY <1>2 DEF StreamInv, Waiting, Seen
  <1>6. \A d \in Seen : At(d) <= SentTo /\ At(d) < At(x) /\ At(d) \in Nat
    BY <1>2, <1>4, <1>5, Places DEF StreamInv
  <1>7. /\ socket' \in Seq(Datagrams) /\ Sorted(socket')
        /\ \/ Waiting(socket') = Waiting(socket) /\ <<x.cmd, x.part>> \in lost'
           \/ Waiting(socket') = Waiting(socket) \cup {x}
    <2>1. CASE socket' = Append(socket, x)
      <3>1. \A e \in Waiting(socket) : At(e) < At(x)
        BY <1>6 DEF Seen
      <3> QED
        BY <1>1, <1>2, <2>1, <3>1, LastWaits DEF StreamInv
    <2>2. CASE socket' = socket /\ lost' = lost \cup {<<x.cmd, x.part>>}
      BY <1>2, <2>2 DEF StreamInv
    <2> QED
      BY <1>3, <2>1, <2>2
  <1>8. \A d \in Waiting(socket') : At(d) <= SentTo + 1
    BY <1>4, <1>6, <1>7 DEF Seen
  <1>9. opcode # Nothing => At(opcode) < At(x) /\ At(opcode) <= SentTo /\ At(opcode) \in Nat
    BY <1>6 DEF Seen
  <1>10. StreamInv'
    <2>1. Seen' \subseteq Seen \cup {x} /\ opcode' = opcode
      BY <1>3, <1>7 DEF Seen
    <2>2. \A d \in Seen' : At(d) <= SentTo'
      BY <1>4, <1>6, <2>1
    <2>3. opcode' # Nothing => opcode'.part = "op" /\ \A d \in Waiting(socket') : At(opcode') < At(d)
      BY <1>2, <1>3, <1>7, <1>9 DEF StreamInv
    <2>4. ASSUME NEW d \in Datagrams, NEW e \in Seen', At(e) < At(d), At(d) <= SentTo'
          PROVE  d \in Waiting(socket') \/ <<d.cmd, d.part>> \in lost'
      <3>1. CASE At(d) = At(x)
        <4>1. d = x
          BY <1>1, <3>1, Places
        <4> QED
          BY <1>7, <4>1
      <3>2. CASE At(d) # At(x)
        <4>1. At(d) <= SentTo /\ At(d) \in Nat
          BY <1>4, <2>4, <3>2, Places
        <4>2. e # x
          BY <1>4, <2>4, <4>1
        <4>3. e \in Seen
          BY <2>1, <4>2
        <4>4. d \in Waiting(socket) \/ <<d.cmd, d.part>> \in lost
          BY <1>2, <2>4, <4>1, <4>3 DEF StreamInv
        <4> QED
          BY <1>3, <1>7, <4>4
      <3> QED
        BY <3>1, <3>2
    <2> QED
      BY <1>2, <1>3, <1>7, <2>2, <2>3, <2>4 DEF StreamInv
  <1>11. TypeOK'
    <2>1. socket' # <<>> => port = SERVER_PORT
      BY <1>2, <1>3 DEF TypeOK
    <2> QED
      BY <1>2, <1>3, <2>1 DEF TypeOK
  <1>12. ServerInv' /\ BusInv'
    BY <1>2, <1>3 DEF ServerInv, BusInv
  <1>13. PairedUnlessLost'
    BY <1>2, <1>3, StillPaired
  <1> QED
    BY <1>10, <1>11, <1>12, <1>13 DEF IndInv

LEMMA ScriptInv ==
  ASSUME IndInv, SendOp \/ SendArg
  PROVE  IndInv'
  <1>1. sent \in Seq(Command) /\ Len(sent) \in Nat /\ (half => Len(sent) > 0)
    BY DEF IndInv, StreamInv
  <1>2. CASE SendOp
    <2>1. PICK c \in Command : sent' = Append(sent, c)
      BY <1>2 DEF SendOp
    <2>2. sent' \in Seq(Command) /\ Len(sent') = Len(sent) + 1 /\ sent' # <<>>
      BY <1>1, <2>1
    <2>3. half = FALSE /\ half' = TRUE
      BY <1>2 DEF SendOp, IndInv, StreamInv
    <2>4. /\ At([cmd |-> Len(sent) + 1, part |-> "op"]) = SentTo + 1 /\ SentTo' = SentTo + 1
          /\ Len(sent) + 1 \in Nat \ {0}
      BY <1>1, <2>2, <2>3 DEF At, SentTo
    <2> QED
      BY <1>2, <2>2, <2>3, <2>4, SendInv DEF SendOp
  <1>3. CASE SendArg
    <2>1. half = TRUE /\ half' = FALSE /\ sent' = sent
      BY <1>3 DEF SendArg, IndInv, StreamInv
    <2>2. /\ At([cmd |-> Len(sent), part |-> "arg"]) = SentTo + 1 /\ SentTo' = SentTo + 1
          /\ Len(sent) \in Nat \ {0}
      BY <1>1, <2>1 DEF At, SentTo
    <2> QED
      BY <1>1, <1>3, <2>1, <2>2, SendInv DEF SendArg
  <1> QED
    BY <1>2, <1>3

LEMMA PostInv ==
  ASSUME IndInv, NEW msg \in Commands, Post(msg)
  PROVE  IndInv'
  <1>1. pipe \in Seq(Commands) /\ Len(pipe) <= PipeDepth /\ PipeDepth \in Nat
    BY ScriptAssumption DEF IndInv, BusInv, TypeOK, ScriptAssumption
  <1>2. pipe' \in Seq(Commands) /\ Len(pipe') <= PipeDepth
    <2>1. CASE Len(pipe) < PipeDepth
      BY <1>1, <2>1 DEF Post
    <2>2. CASE ~(Len(pipe) < PipeDepth)
      BY <1>1, <2>2 DEF Post
    <2> QED
      BY <2>1, <2>2
  <1>3. UNCHANGED <<script, network, server, app, published>>
    BY DEF Post
  <1>4. TypeOK' /\ ServerInv' /\ BusInv' /\ PairedUnlessLost'
    BY <1>2, <1>3 DEF IndInv, TypeOK, ServerInv, BusInv, PairedUnlessLost, network, server, app
  <1>5. StreamInv'
    BY <1>3 DEF IndInv, StreamInv, Seen, SentTo, script, network, app
  <1> QED
    BY <1>4, <1>5 DEF IndInv

(* Closing the socket loses everything that waited in it.                  *)
LEMMA ReconnectInv ==
  ASSUME IndInv, NEW p \in Port \cup {SERVER_PORT}, Reconnect(p), phase = "receive",
         UNCHANGED <<script, phase, opcode>>, gpsCount_' \in Nat, gpsCount_' < UINT16,
         pipe' \in Seq(Commands), Len(pipe') <= PipeDepth, published' = Nothing
  PROVE  IndInv'
  <1>1. TypeOK /\ StreamInv /\ ServerInv /\ PairedUnlessLost
    BY DEF IndInv
  <1>2. p \in Nat /\ p # Unbound
    BY ScriptAssumption DEF ScriptAssumption, Unbound
  <1>3. socket' = <<>> /\ opcode = Nothing /\ opcode' = Nothing
    BY <1>1 DEF Reconnect, TypeOK
  <1>4. StreamInv'
    <2>1. Waiting(socket') = {} /\ Seen' = {} /\ Sorted(socket')
      BY <1>3 DEF Waiting, Seen, Sorted
    <2> QED
      BY <1>1, <1>3, <2>1 DEF StreamInv, script
  <1>r. /\ open_' = (p \notin Taken)
        /\ port' = IF p \in Taken THEN Unbound ELSE p
        /\ failures' = IF p \in Taken THEN failures + 1 ELSE failures
    BY Zenon DEF Reconnect
  <1>5. ServerInv' /\ (open_' <=> port' # Unbound) /\ (~open_' => failures' > 0)
    <2>1. CASE p \in Taken
      <3>1. open_' = FALSE
        BY <1>r, <2>1, Zenon
      <3>2. port' = Unbound /\ failures' = failures + 1
        BY <1>r, <2>1
      <3>3. (open_ => fds' = fds) /\ (~open_ => fds' = fds + 1)
        BY <1>1 DEF Reconnect, ServerInv
      <3>4. ServerInv'
        <4>1. /\ open_ \in BOOLEAN /\ fds \in Int /\ failures \in Nat
              /\ fds <= failures + 1 /\ (~open_ => fds <= failures)
          BY <1>1 DEF ServerInv
        <4>2. fds' \in Int /\ failures' \in Nat /\ fds' <= failures' /\ fds' <= failures' + 1
          <5>1. failures' = failures + 1 /\ fds' <= failures + 1 /\ fds' \in Int
            BY <3>2, <3>3, <4>1
          <5> QED
            BY <4>1, <5>1
        <4>3. port' \in Port \cup {SERVER_PORT, Unbound} /\ open_' \in BOOLEAN
          BY <3>1, <3>2
        <4> QED
          BY <4>2, <4>3 DEF ServerInv
      <3>5. failures' > 0
        BY <1>1, <3>2 DEF ServerInv
      <3> QED
        BY <3>1, <3>2, <3>4, <3>5
    <2>2. CASE p \notin Taken
      <3>1. open_' = TRUE
        BY <1>r, <2>2, Zenon
      <3>2. port' = p /\ failures' = failures
        BY <1>r, <2>2
      <3>3. (open_ => fds' = fds) /\ (~open_ => fds' = fds + 1)
        BY <1>1 DEF Reconnect, ServerInv
      <3>4. ServerInv'
        BY <1>1, <3>1, <3>2, <3>3 DEF ServerInv
      <3> QED
        BY <1>2, <3>1, <3>2, <3>4
    <2> QED
      BY <2>1, <2>2
  <1>6. TypeOK'
    BY <1>1, <1>3, <1>5 DEF TypeOK
  <1>7. PairedUnlessLost' /\ BusInv'
    BY DEF PairedUnlessLost, BusInv
  <1> QED
    BY <1>4, <1>5, <1>6, <1>7 DEF IndInv

LEMMA MessageInv ==
  ASSUME IndInv, ProcessMessage
  PROVE  IndInv'
  <1>1. /\ TypeOK /\ StreamInv /\ ServerInv /\ BusInv /\ PairedUnlessLost
    BY DEF IndInv
  <1>2. /\ pipe \in Seq(Commands) /\ pipe # <<>> /\ Len(pipe) <= PipeDepth /\ PipeDepth \in Nat
        /\ pipe' = Tail(pipe) /\ published' = Nothing
        /\ phase = "receive" /\ UNCHANGED <<script, phase, opcode>>
    BY <1>1, ScriptAssumption DEF BusInv, TypeOK, ScriptAssumption, ProcessMessage
  <1>3. Head(pipe) \in Commands /\ pipe' \in Seq(Commands) /\ Len(pipe') <= PipeDepth
    <2>1. /\ Len(pipe) \in Nat /\ Len(pipe) > 0 /\ Head(pipe) \in Commands
          /\ Tail(pipe) \in Seq(Commands) /\ Len(Tail(pipe)) = Len(pipe) - 1
      BY <1>2
    <2> QED
      BY <1>2, <2>1
  <1>4. gpsCount_ \in Nat /\ gpsCount_ < UINT16
    BY <1>1 DEF TypeOK
  <1>5. CASE Head(pipe).op = "Reset" /\ Reconnect(SERVER_PORT) /\ gpsCount_' = 0
    <2>1. gpsCount_' \in Nat /\ gpsCount_' < UINT16
      BY <1>5 DEF UINT16
    <2> QED
      BY <1>2, <1>3, <1>5, <2>1, ReconnectInv
  <1>6. CASE Head(pipe).op = "Configure" /\ Reconnect(Head(pipe).port) /\ UNCHANGED gpsCount_
    <2>1. Head(pipe).port \in Port
      BY <1>3, <1>6 DEF Commands
    <2> QED
      BY <1>2, <1>3, <1>4, <1>6, <2>1, ReconnectInv
  <1>7. CASE UNCHANGED <<gpsCount_, server, network>>
    <2>1. TypeOK' /\ ServerInv' /\ BusInv' /\ PairedUnlessLost'
      BY <1>1, <1>2, <1>3, <1>7 DEF TypeOK, ServerInv, BusInv, PairedUnlessLost, server, network
    <2>2. StreamInv'
      BY <1>1, <1>2, <1>7 DEF StreamInv, Seen, SentTo, script, network
    <2> QED
      BY <2>1, <2>2 DEF IndInv
  <1> QED
    BY <1>5, <1>6, <1>7 DEF ProcessMessage

LEMMA TimeoutInv ==
  ASSUME IndInv, ProcessTimeout
  PROVE  IndInv'
  <1>1. /\ UNCHANGED <<script, network, server, gpsCount_, opcode, pipe>>
        /\ phase = "receive" /\ phase' = "opcode" /\ published' = Nothing
    BY DEF ProcessTimeout, bus
  <1>2. TypeOK /\ ServerInv /\ BusInv
    BY DEF IndInv
  <1>3. TypeOK'
    BY <1>1, <1>2 DEF TypeOK, network, server
  <1>4. ServerInv'
    BY <1>1, <1>2 DEF ServerInv, server
  <1>5. BusInv' /\ PairedUnlessLost'
    BY <1>1, <1>2 DEF BusInv, PairedUnlessLost
  <1>6. StreamInv'
    BY <1>1 DEF IndInv, StreamInv, Seen, SentTo, script, network
  <1> QED
    BY <1>3, <1>4, <1>5, <1>6 DEF IndInv

(* The task takes the first datagram from the socket.                      *)
LEMMA ReadInv ==
  ASSUME StreamInv, socket # <<>>, socket' = Tail(socket), UNCHANGED <<script, lost>>,
         opcode' = Nothing \/ (opcode' = Head(socket) /\ Head(socket).part = "op")
  PROVE  StreamInv'
  <1> DEFINE x == Head(socket)
  <1>1. /\ x \in Datagrams /\ socket' \in Seq(Datagrams) /\ Sorted(socket')
        /\ Waiting(socket) = {x} \cup Waiting(socket')
        /\ \A d \in Waiting(socket') : At(x) < At(d)
    BY FirstWaits DEF StreamInv
  <1> HIDE DEF x
  <1>2. Seen' \subseteq Waiting(socket) /\ Waiting(socket) \subseteq Seen
    BY <1>1 DEF Seen, x
  <1>3. SentTo' = SentTo
    BY DEF SentTo, script
  <1>4. ASSUME NEW d \in Datagrams, NEW e \in Seen', At(e) < At(d), At(d) <= SentTo
        PROVE  d \in Waiting(socket') \/ <<d.cmd, d.part>> \in lost
    <2>1. d \in Waiting(socket) \/ <<d.cmd, d.part>> \in lost
      BY <1>2, <1>4 DEF StreamInv
    <2>2. d # x
      <3>1. e \in Datagrams /\ (e = x \/ At(x) < At(e))
        <4>1. e \in Waiting(socket)
          BY <1>2
        <4>2. Waiting(socket) \subseteq Datagrams
          BY DEF StreamInv, Waiting
        <4> QED
          BY <1>1, <4>1, <4>2, Zenon
      <3>2. At(e) \in Nat /\ At(x) \in Nat
        BY <1>1, <3>1, Places
      <3> QED
        BY <1>4, <3>1, <3>2
    <2> QED
      BY <1>1, <2>1, <2>2
  <1>5. \A d \in Seen' : At(d) <= SentTo'
    BY <1>2, <1>3 DEF StreamInv
  <1>6. opcode' \in Datagrams \cup {Nothing}
    BY <1>1 DEF x
  <1>7. opcode' # Nothing => opcode'.part = "op" /\ \A d \in Waiting(socket') : At(opcode') < At(d)
    BY <1>1 DEF x
  <1> QED
    BY <1>1, <1>3, <1>4, <1>5, <1>6, <1>7 DEF StreamInv, script

LEMMA OpcodeInv ==
  ASSUME IndInv, ReadOpcode
  PROVE  IndInv'
  <1>1. TypeOK /\ StreamInv /\ ServerInv /\ BusInv /\ PairedUnlessLost
    BY DEF IndInv
  <1>2. /\ UNCHANGED <<script, lost, server, gpsCount_, pipe>> /\ published' = Nothing
        /\ phase = "opcode" /\ opcode = Nothing
    BY <1>1 DEF ReadOpcode, bus, TypeOK
  <1>3. ServerInv' /\ BusInv' /\ PairedUnlessLost'
    BY <1>1, <1>2 DEF ServerInv, BusInv, PairedUnlessLost, server
  <1>4. CASE socket = <<>> /\ phase' = "receive" /\ UNCHANGED <<socket, opcode>>
    <2>1. TypeOK'
      BY <1>1, <1>2, <1>4 DEF TypeOK, server
    <2>2. StreamInv'
      BY <1>1, <1>2, <1>4 DEF StreamInv, Seen, SentTo, script
    <2> QED
      BY <1>3, <2>1, <2>2 DEF IndInv
  <1>5. CASE /\ socket # <<>> /\ Head(socket).part = "op" /\ socket' = Tail(socket)
             /\ opcode' = Head(socket) /\ phase' = "argument"
    <2>1. StreamInv'
      BY <1>1, <1>2, <1>5, ReadInv
    <2>2. opcode' # Nothing
      BY <1>1, <1>5, FirstWaits, Places DEF StreamInv
    <2>3. TypeOK'
      BY <1>1, <1>2, <1>5, <2>2 DEF TypeOK, server
    <2> QED
      BY <1>3, <2>1, <2>3 DEF IndInv
  <1>6. CASE /\ socket # <<>> /\ socket' = Tail(socket) /\ UNCHANGED opcode
             /\ phase' \in {"receive", "opcode"}
    <2>1. StreamInv'
      BY <1>1, <1>2, <1>6, ReadInv
    <2>2. TypeOK'
      BY <1>1, <1>2, <1>6 DEF TypeOK, server
    <2> QED
      BY <1>3, <2>1, <2>2 DEF IndInv
  <1> QED
    BY <1>4, <1>5, <1>6 DEF ReadOpcode, EndCommand

(* A handler meets the next datagram that was not lost.                    *)
LEMMA ArgumentInv ==
  ASSUME IndInv, ReadArgument
  PROVE  IndInv'
  <1> DEFINE k == opcode.cmd
             d == IF socket = <<>> THEN Nothing ELSE Head(socket)
             r == Request(k, d)
  <1>1. TypeOK /\ StreamInv /\ ServerInv /\ BusInv /\ PairedUnlessLost
    BY DEF IndInv
  <1>2. /\ UNCHANGED <<script, lost, server, pipe>> /\ opcode' = Nothing
        /\ phase = "argument" /\ phase' \in {"receive", "opcode"}
        /\ socket' = (IF socket = <<>> THEN socket ELSE Tail(socket)) /\ published' = r
    BY DEF ReadArgument, EndCommand, bus
  <1>3. opcode \in Datagrams /\ opcode # Nothing /\ opcode.part = "op" /\ k \in Nat \ {0}
    BY <1>1, <1>2 DEF TypeOK, StreamInv, Datagrams
  <1>4. gpsCount_' \in Nat /\ gpsCount_' < UINT16
    <2>1. gpsCount_' = gpsCount_ \/ gpsCount_' = ((gpsCount_ + 1) % UINT16)
      BY DEF ReadArgument
    <2>2. gpsCount_ \in Nat /\ gpsCount_ < UINT16
      BY <1>1 DEF TypeOK
    <2>3. UINT16 \in Nat /\ UINT16 > 0
      BY DEF UINT16
    <2> QED
      BY <2>1, <2>2, <2>3
  <1>5. ServerInv' /\ BusInv'
    BY <1>1, <1>2 DEF ServerInv, BusInv, server
  <1>6. TypeOK'
    <2>1. socket' # <<>> => socket # <<>>
      BY <1>2
    <2> QED
      BY <1>1, <1>2, <1>4, <2>1 DEF TypeOK, server
  <1>7. StreamInv'
    <2>1. CASE socket = <<>>
      <3>1. Waiting(socket') = {} /\ Seen' = {} /\ Sorted(socket') /\ SentTo' = SentTo /\ socket' = <<>>
        BY <1>2, <2>1 DEF Waiting, Seen, Sorted, SentTo, script
      <3> QED
        BY <1>1, <1>2, <3>1 DEF StreamInv, script
    <2>2. CASE socket # <<>>
      BY <1>1, <1>2, <2>2, ReadInv
    <2> QED
      BY <2>1, <2>2
  <1>8. PairedUnlessLost'
    <2>1. At(opcode) = 2 * k - 1 /\ At(opcode) <= SentTo /\ opcode \in Seen
      BY <1>1, <1>3 DEF StreamInv, Seen, At
    <2>2. k \in 1..Len(sent) /\ sent[k] \in Command /\ Len(sent) \in Nat
      <3>1. Len(sent) \in Nat /\ sent \in Seq(Command)
        BY <1>1 DEF StreamInv
      <3>2. 2 * k - 1 <= 2 * Len(sent)
        BY <1>3, <2>1, <3>1 DEF SentTo
      <3>3. k <= Len(sent)
        BY <1>3, <3>1, <3>2
      <3> QED
        BY <1>3, <3>1, <3>3
    <2>3. d \in Datagrams \cup {Nothing}
      BY <1>1, FirstWaits DEF StreamInv
    <2> HIDE DEF k, d
    <2>4. r # Nothing =>
            /\ r.opOf = k /\ r.argOf = (IF d = Nothing THEN k ELSE d.cmd)
            /\ r.op \in {"SnapRequest", "DownloadRequest", "DevicePower"} => d # Nothing /\ d.part = "arg"
      BY <2>2, <2>3, RequestIs, ScriptAssumption
    <2> HIDE DEF r
    <2> SUFFICES ASSUME r # Nothing, r.opOf # r.argOf
                 PROVE  /\ <<k, "arg">> \in lost
                        /\ d.part = "arg" => <<d.cmd, "op">> \in lost
      BY <1>2, <2>4 DEF PairedUnlessLost
    <2>5. d # Nothing /\ d.cmd # k /\ d \in Datagrams /\ d.cmd \in Nat \ {0}
      BY <2>3, <2>4 DEF Datagrams
    <2>6. /\ socket # <<>> /\ d \in Waiting(socket)
          /\ \A e \in Waiting(socket) : e = d \/ At(d) < At(e)
      BY <1>1, <2>5, FirstWaits DEF StreamInv, d
    <2>7. At(opcode) < At(d) /\ At(d) <= SentTo /\ At(d) \in Nat /\ SentTo \in Int
      <3>1. Len(sent) \in Nat
        BY <2>2
      <3> QED
        BY <1>1, <1>3, <2>5, <2>6, <3>1, Places DEF StreamInv, Seen, SentTo
    <2>8. ASSUME NEW e \in Datagrams, At(opcode) < At(e), At(e) < At(d)
          PROVE  <<e.cmd, e.part>> \in lost
      <3>1. At(e) \in Nat
        BY Places
      <3>2. At(e) <= SentTo
        BY <2>7, <2>8, <3>1
      <3>3. e \notin Waiting(socket)
        BY <2>6, <2>7, <2>8, <3>1
      <3> QED
        BY <1>1, <2>1, <2>8, <3>2, <3>3 DEF StreamInv
    <2>9. d.cmd > k /\ (d.part = "op" => At(d) = 2 * d.cmd - 1) /\ (d.part # "op" => At(d) = 2 * d.cmd)
      BY <1>3, <2>1, <2>5, <2>7 DEF At, k
    <2>10. <<k, "arg">> \in lost
      <3> DEFINE e == [cmd |-> k, part |-> "arg"]
      <3>1. e \in Datagrams /\ e.cmd = k /\ e.part = "arg" /\ At(e) = 2 * k
        BY <1>3 DEF Datagrams, At, k
      <3> HIDE DEF e
      <3>2. At(opcode) < At(e) /\ At(e) < At(d)
        BY <1>3, <2>1, <2>5, <2>9, <3>1 DEF k
      <3> QED
        BY <2>8, <3>1, <3>2
    <2>11. ASSUME d.part = "arg" PROVE <<d.cmd, "op">> \in lost
      <3> DEFINE e == [cmd |-> d.cmd, part |-> "op"]
      <3>1. e \in Datagrams /\ e.cmd = d.cmd /\ e.part = "op" /\ At(e) = 2 * d.cmd - 1
        BY <2>5 DEF Datagrams, At
      <3> HIDE DEF e
      <3>2. At(opcode) < At(e) /\ At(e) < At(d)
        BY <1>3, <2>1, <2>5, <2>9, <2>11, <3>1 DEF k
      <3> QED
        BY <2>8, <3>1, <3>2
    <2> QED
      BY <2>10, <2>11
  <1> QED
    BY <1>5, <1>6, <1>7, <1>8 DEF IndInv

LEMMA NextInv == IndInv /\ [Next]_vars => IndInv'
  <1>1. ASSUME IndInv, UNCHANGED vars PROVE IndInv'
    BY <1>1
    DEF vars, script, network, server, app, bus, IndInv, TypeOK, StreamInv, Seen, SentTo, ServerInv,
        BusInv, PairedUnlessLost
  <1> QED
    BY <1>1, ScriptInv, PostInv, MessageInv, TimeoutInv, OpcodeInv, ArgumentInv DEF Next

LEMMA Inductive == Spec => []IndInv
  BY InitInv, NextInv, PTL DEF Spec

-----------------------------------------------------------------------------
(* One lost datagram never turns two commands of a script into a third.    *)
THEOREM HalvesMeetOnlyByLoss == Spec => []PairedUnlessLost
  <1>1. IndInv => PairedUnlessLost
    BY DEF IndInv
  <1> QED
    BY <1>1, Inductive, PTL

(* Whatever is reset and configured, there is at most one descriptor more  *)
(* than connects threw.                                                    *)
THEOREM DescriptorsAreAccounted == Spec => []DescriptorsAccounted
  <1>1. IndInv => DescriptorsAccounted
    BY DEF IndInv, ServerInv, DescriptorsAccounted
  <1> QED
    BY <1>1, Inductive, PTL

-----------------------------------------------------------------------------
(* The bridge as a service of commands.                                    *)

OpsIn(s) == {d.cmd : d \in {e \in Waiting(s) : e.part = "op"}}

LEMMA OpsByIndex ==
  ASSUME NEW s \in Seq(Datagrams)
  PROVE  {s[i].cmd : i \in {j \in DOMAIN s : s[j].part = "op"}} = OpsIn(s)
  BY DEF OpsIn, Waiting

LEMMA UnservedIs ==
  ASSUME IndInv
  PROVE  Unserved = OpsIn(socket) \cup (IF opcode = Nothing THEN {} ELSE {opcode.cmd})
  BY OpsByIndex DEF Unserved, IndInv, StreamInv

(* Commands that are sent are behind those that wait; a lost half changes  *)
(* nothing.                                                                *)
LEMMA DatagramOps ==
  ASSUME IndInv, NEW k \in Nat \ {0}, NEW p \in {"op", "arg"}, Datagram(k, p),
         At([cmd |-> k, part |-> p]) = SentTo + 1, UNCHANGED opcode
  PROVE  Unserved' = Unserved \/ (p = "op" /\ Unserved' = Unserved \cup {k})
  <1> DEFINE x == [cmd |-> k, part |-> p]
  <1>1. x \in Datagrams /\ x.cmd = k /\ x.part = p
    BY DEF Datagrams
  <1>2. StreamInv
    BY DEF IndInv
  <1>3. CASE socket' = socket
    BY <1>3, UnservedIs DEF Unserved
  <1>4. CASE socket' = Append(socket, x)
    <2>1. \A e \in Waiting(socket) : At(e) < At(x)
      <3>1. Len(sent) \in Nat /\ SentTo \in Int
        BY <1>2 DEF StreamInv, SentTo
      <3>2. \A e \in Waiting(socket) : At(e) <= SentTo /\ At(e) \in Nat
        BY <1>2, Places DEF StreamInv, Seen, Waiting
      <3> QED
        BY <3>1, <3>2
    <2> HIDE DEF x
    <2>2. Waiting(socket') = Waiting(socket) \cup {x}
      BY <1>1, <1>2, <1>4, <2>1, LastWaits DEF StreamInv
    <2>3. OpsIn(socket') = OpsIn(socket) \cup (IF p = "op" THEN {k} ELSE {})
      BY <1>1, <2>2 DEF OpsIn
    <2>4. Unserved' = OpsIn(socket') \cup (IF opcode = Nothing THEN {} ELSE {opcode.cmd})
      <3>1. socket' \in Seq(Datagrams)
        BY <1>1, <1>2, <1>4 DEF StreamInv
      <3> QED
        BY <3>1 DEF Unserved, OpsIn, Waiting
    <2> QED
      BY <2>3, <2>4, UnservedIs
  <1> QED
    BY <1>3, <1>4 DEF Datagram

(* What the handlers publish is what the command is served with.           *)
LEMMA RequestMeans ==
  ASSUME NEW k \in 1..Len(sent), Len(sent) \in Nat, sent[k].op \in OpCode,
         NEW d \in Datagrams \cup {Nothing}, d # Nothing => d.cmd \in k..Len(sent),
         Request(k, d) # Nothing
  PROVE  Service!Means(Request(k, d), k)
  <1> DEFINE r == Request(k, d)
  <1>1. ASSUME NEW op, Numeric(k, d, op) # Nothing
        PROVE  LET q == Numeric(k, d, op)
               IN  /\ q.op = op /\ q.opOf = k /\ q.argOf \in k..Len(sent)
                   /\ q.id = ToId(sent[q.argOf].arg) /\ q.id # Bad
    BY <1>1 DEF Numeric
  <1>2. ASSUME CameraPower(k, d) # Nothing
        PROVE  LET q == CameraPower(k, d)
               IN  /\ q.op = "DevicePower" /\ q.opOf = k /\ q.argOf \in k..Len(sent)
                   /\ sent[q.argOf].arg \in {"on", "off"} /\ q.power = 1
    BY <1>2 DEF CameraPower
  <1>3. CASE sent[k].op = "SNAP"
    <2>1. r = Numeric(k, d, "SnapRequest")
      BY <1>3 DEF Request
    <2> QED
      BY <1>1, <1>3, <2>1 DEF Service!Means
  <1>4. CASE sent[k].op = "DOWNLOAD"
    <2>1. r = Numeric(k, d, "DownloadRequest")
      BY <1>4 DEF Request
    <2> QED
      BY <1>1, <1>4, <2>1 DEF Service!Means
  <1>5. CASE sent[k].op = "CAM_POWER"
    <2>1. r = CameraPower(k, d)
      BY <1>5 DEF Request
    <2> QED
      BY <1>2, <1>5, <2>1 DEF Service!Means
  <1>6. CASE sent[k].op \in {"GPS", "KIDDIE"}
    <2>1. (IF d = Nothing THEN k ELSE d.cmd) \in k..Len(sent)
      OBVIOUS
    <2> QED
      BY <1>6, <2>1 DEF Request, Service!Means
  <1> QED
    BY <1>3, <1>4, <1>5, <1>6 DEF OpCode

(* The opcode being served is the oldest of all; its handler takes one     *)
(* datagram, which is the next opcode if the argument is missing.          *)
LEMMA ArgumentServes ==
  ASSUME IndInv, ReadArgument
  PROVE  \E k \in Unserved : Service!Serve(k)
  <1> DEFINE k == opcode.cmd
             d == IF socket = <<>> THEN Nothing ELSE Head(socket)
  <1>1. TypeOK /\ StreamInv
    BY DEF IndInv
  <1>2. /\ UNCHANGED sent /\ opcode' = Nothing /\ phase = "argument"
        /\ socket' = (IF socket = <<>> THEN socket ELSE Tail(socket)) /\ published' = Request(k, d)
    BY DEF ReadArgument, script
  <1>3. /\ opcode \in Datagrams /\ opcode # Nothing /\ k \in Nat \ {0} /\ At(opcode) = 2 * k - 1
        /\ At(opcode) <= SentTo
    BY <1>1, <1>2 DEF TypeOK, StreamInv, Datagrams, At, Seen
  <1>4. Len(sent) \in Nat /\ sent \in Seq(Command) /\ SentTo \in Int /\ SentTo <= 2 * Len(sent)
    BY <1>1 DEF StreamInv, SentTo
  <1>5. k \in 1..Len(sent) /\ sent[k].op \in OpCode
    <2>1. k <= Len(sent)
      BY <1>3, <1>4
    <2> QED
      BY <1>3, <1>4, <2>1, ScriptAssumption DEF ScriptAssumption
  <1>6. \A e \in Waiting(socket) :
          /\ e \in Datagrams /\ e.cmd \in Nat /\ k <= e.cmd /\ e.cmd <= Len(sent)
          /\ e.part = "op" => k < e.cmd
    <2> SUFFICES ASSUME NEW e \in Waiting(socket)
                 PROVE  /\ e \in Datagrams /\ e.cmd \in Nat /\ k <= e.cmd /\ e.cmd <= Len(sent)
                        /\ e.part = "op" => k < e.cmd
      OBVIOUS
    <2>1. e \in Datagrams /\ At(opcode) < At(e) /\ At(e) <= SentTo
      BY <1>1, <1>3 DEF StreamInv, Waiting, Seen
    <2>2. e.cmd \in Nat /\ At(e) = (IF e.part = "op" THEN 2 * e.cmd - 1 ELSE 2 * e.cmd)
      BY <2>1 DEF Datagrams, At
    <2> QED
      BY <1>3, <1>4, <2>1, <2>2
  <1> HIDE DEF k
  <1>7. Service!First(k, Unserved) /\ Unserved \ {k} = OpsIn(socket)
    <2>1. Unserved = OpsIn(socket) \cup {k}
      BY <1>3, UnservedIs DEF k
    <2>2. \A j \in OpsIn(socket) : j \in Nat /\ k < j
      BY <1>6 DEF OpsIn
    <2> QED
      BY <1>3, <2>1, <2>2 DEF Service!First
  <1>8. Unserved' = OpsIn(socket')
    <2>1. socket' \in Seq(Datagrams)
      BY <1>1, <1>2, FirstWaits DEF StreamInv
    <2> QED
      BY <1>2, <2>1, OpsByIndex DEF Unserved
  <1>9. \/ OpsIn(socket') = OpsIn(socket)
        \/ \E j \in OpsIn(socket) : Service!First(j, OpsIn(socket)) /\ OpsIn(socket') = OpsIn(socket) \ {j}
    <2>1. CASE socket = <<>>
      BY <1>2, <2>1
    <2>2. CASE socket # <<>>
      <3> DEFINE x == Head(socket)  T == Tail(socket)
      <3>1. /\ x \in Datagrams /\ socket' = T
            /\ Waiting(socket) = {x} \cup Waiting(T)
            /\ \A e \in Waiting(T) : At(x) < At(e)
        BY <1>1, <1>2, <2>2, FirstWaits DEF StreamInv
      <3> HIDE DEF x, T
      <3>2. CASE x.part # "op"
        BY <3>1, <3>2 DEF OpsIn
      <3>3. CASE x.part = "op"
        <4>1. OpsIn(socket) = {x.cmd} \cup OpsIn(T)
          BY <3>1, <3>3 DEF OpsIn
        <4>2. x.cmd \in Nat /\ \A j \in OpsIn(T) : j \in Nat /\ x.cmd < j
          <5>1. \A e \in Waiting(T) : e \in Datagrams /\ At(x) < At(e)
            BY <1>6, <3>1
          <5>2. \A e \in Datagrams : e.part = "op" => At(e) = 2 * e.cmd - 1 /\ e.cmd \in Nat
            BY DEF Datagrams, At
          <5> QED
            BY <3>1, <3>3, <5>1, <5>2 DEF OpsIn
        <4>3. OpsIn(T) = OpsIn(socket) \ {x.cmd}
          BY <4>1, <4>2
        <4> QED
          BY <3>1, <4>1, <4>2, <4>3 DEF Service!First
      <3> QED
        BY <3>2, <3>3
    <2> QED
      BY <2>1, <2>2
  <1>10. published' = Nothing \/ Service!Means(published', k)
    <2>1. d \in Datagrams \cup {Nothing} /\ (d # Nothing => d.cmd \in k..Len(sent))
      <3>1. CASE socket = <<>>
        BY <3>1
      <3>2. CASE socket # <<>>
        <4>1. Head(socket) \in Waiting(socket)
          BY <1>1, <3>2, FirstWaits DEF StreamInv
        <4> QED
          BY <1>3, <1>4, <1>6, <3>2, <4>1
      <3> QED
        BY <3>1, <3>2
    <2> HIDE DEF d
    <2> QED
      BY <1>2, <1>4, <1>5, <2>1, RequestMeans
  <1> QED
    BY <1>2, <1>7, <1>8, <1>9, <1>10 DEF Service!Serve, Service!First

(* Every step is one of the service or none of its business.               *)
LEMMA StepServes ==
  ASSUME IndInv, [Next]_vars
  PROVE  Service!Next \/ UNCHANGED Service!serviceVars
  <1> USE DEF script, network, server, app, bus
  <1>0. TypeOK /\ StreamInv /\ Len(sent) \in Nat /\ half \in BOOLEAN
    BY DEF IndInv, StreamInv
  <1>1. CASE SendOp
    <2>1. PICK c \in Command : sent' = Append(sent, c)
      BY <1>1 DEF SendOp
    <2>2. At([cmd |-> Len(sent) + 1, part |-> "op"]) = SentTo + 1 /\ Len(sent) + 1 \in Nat \ {0}
      BY <1>0, <1>1 DEF SendOp, At, SentTo
    <2>3. Unserved' \in {Unserved, Unserved \cup {Len(sent) + 1}} /\ UNCHANGED published
      BY <1>1, <2>2, DatagramOps DEF SendOp
    <2> QED
      BY <2>1, <2>3 DEF Service!Next, Service!Submit
  <1>2. CASE SendArg
    <2>1. At([cmd |-> Len(sent), part |-> "arg"]) = SentTo + 1 /\ Len(sent) \in Nat \ {0}
      BY <1>0, <1>2 DEF SendArg, At, SentTo, StreamInv
    <2>2. UNCHANGED <<sent, Unserved, published>>
      BY <1>2, <2>1, DatagramOps DEF SendArg
    <2> QED
      BY <2>2 DEF Service!serviceVars
  <1>3. ASSUME NEW msg \in Commands, Post(msg) PROVE UNCHANGED Service!serviceVars
    BY <1>3 DEF Post, Unserved, Service!serviceVars
  <1>4. CASE ProcessMessage
    <2>1. opcode = Nothing /\ UNCHANGED <<sent, opcode>> /\ published' = Nothing
      BY <1>0, <1>4 DEF ProcessMessage, TypeOK
    <2>2. CASE socket' = <<>>
      <3>1. Unserved' = {}
        BY <2>1, <2>2 DEF Unserved
      <3> QED
        BY <2>1, <3>1 DEF Service!Next, Service!Reset
    <2>3. CASE UNCHANGED socket
      BY <2>1, <2>3 DEF Unserved, Service!Next, Service!Rest
    <2> QED
      BY <1>4, <2>2, <2>3 DEF ProcessMessage, Reconnect
  <1>5. CASE ProcessTimeout
    BY <1>5 DEF ProcessTimeout, Unserved, Service!Next, Service!Rest
  <1>6. CASE ReadOpcode
    <2>1. opcode = Nothing /\ UNCHANGED sent /\ published' = Nothing
      BY <1>0, <1>6 DEF ReadOpcode, TypeOK
    <2>2. CASE UNCHANGED <<socket, opcode>>
      BY <2>1, <2>2 DEF Unserved, Service!Next, Service!Rest
    <2>3. CASE /\ socket # <<>> /\ socket' = Tail(socket)
               /\ \/ Head(socket).part = "op" /\ opcode' = Head(socket)
                  \/ Head(socket).part = "arg" /\ UNCHANGED opcode
      <3> DEFINE x == Head(socket)
      <3>1. x \in Datagrams /\ x # Nothing /\ Waiting(socket) = {x} \cup Waiting(socket')
            /\ socket' \in Seq(Datagrams)
        BY <1>0, <2>3, FirstWaits, Places DEF StreamInv
      <3>2. Unserved = OpsIn(socket)
        BY <2>1, UnservedIs
      <3>3. Unserved' = OpsIn(socket') \cup (IF opcode' = Nothing THEN {} ELSE {opcode'.cmd})
        BY <3>1 DEF Unserved, OpsIn, Waiting
      <3> HIDE DEF x
      <3>4. OpsIn(socket) = OpsIn(socket') \cup (IF x.part = "op" THEN {x.cmd} ELSE {})
        BY <3>1 DEF OpsIn
      <3>5. Unserved' = Unserved
        BY <2>1, <2>3, <3>1, <3>2, <3>3, <3>4 DEF x
      <3> QED
        BY <2>1, <3>5 DEF Service!Next, Service!Rest
    <2> QED
      BY <1>6, <2>2, <2>3 DEF ReadOpcode
  <1>7. CASE ReadArgument
    BY <1>7, ArgumentServes DEF Service!Next
  <1>8. CASE UNCHANGED vars
    BY <1>8 DEF vars, Unserved, Service!serviceVars
  <1> QED
    BY <1>1, <1>2, <1>3, <1>4, <1>5, <1>6, <1>7, <1>8 DEF Next

(* Requests go back to a script's commands, in their order and each at     *)
(* most once, numbers as they were written and power for "off" as for "on" *)
(* (check_script and the handlers); two commands mix only by loss.         *)
THEOREM RequestsAreTheScripts == Spec => AsksAsTold
  <1>1. Init => Service!Init
    <2> SUFFICES ASSUME Init PROVE Service!Init
      OBVIOUS
    <2>1. Unserved = {}
      BY DEF Init, Unserved
    <2> QED
      BY <2>1 DEF Init, Service!Init
  <1>2. IndInv /\ [Next]_vars => [Service!Next]_(Service!serviceVars)
    BY StepServes
  <1>3. Spec => Service!Spec
    BY <1>1, <1>2, Inductive, PTL DEF Spec, Service!Spec
  <1> QED
    BY <1>3, HalvesMeetOnlyByLoss, PTL DEF AsksAsTold
=============================================================================
