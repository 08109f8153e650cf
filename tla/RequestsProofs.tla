--------------------------- MODULE RequestsProofs ---------------------------
(***************************************************************************)
(* Replies are well framed and the assertions of client_print decide, for   *)
(* any number of connections, any files and any capacity of the wires.      *)
(*                                                                         *)
(* The invariant follows one message: what a client has read of it, what it *)
(* has received, what is on the wire and what the server thread still has   *)
(* to write are one part of the message after the other, all of it until    *)
(* the server ends.  The body of that message is the file if the file is    *)
(* what the file set says, because the thread has learnt from the first     *)
(* token of the connection which file the client wants.                     *)
(***************************************************************************)
EXTENDS Requests, QueueLemmas

(* s is the part of t that begins after its first p elements.               *)
Part(s, t, p) ==
  /\ p + Len(s) <= Len(t)
  /\ \A i \in 1 .. Len(s) : s[i] = t[p + i]

(* A sequence, cut after its first n elements.                              *)
LEMMA CutInTwo ==
  ASSUME NEW S, NEW s \in Seq(S), NEW n \in 0 .. Len(s)
  PROVE  /\ Taken(s, n) \in Seq(S) /\ Len(Taken(s, n)) = n
         /\ \A i \in 1 .. n : Taken(s, n)[i] = s[i]
         /\ Drop(s, n) \in Seq(S) /\ Len(Drop(s, n)) = Len(s) - n
         /\ \A i \in 1 .. Len(s) - n : Drop(s, n)[i] = s[n + i]
<1>1. Len(s) \in Nat /\ n \in Int /\ \A i \in 1 .. Len(s) : s[i] \in S
  BY LenProperties, ElementOfSeq
<1>2. /\ Taken(s, n) \in Seq(S)
      /\ Len(Taken(s, n)) = IF 1 <= n THEN n - 1 + 1 ELSE 0
      /\ \A i \in 1 .. n - 1 + 1 : Taken(s, n)[i] = s[1 + i - 1]
  <2>1. \A i \in 1 .. n : s[i] \in S
    BY <1>1
  <2>2. QED
    BY <2>1, <1>1, SubSeqProperties DEF Taken
<1>3. /\ Drop(s, n) \in Seq(S)
      /\ Len(Drop(s, n)) = IF n + 1 <= Len(s) THEN Len(s) - (n + 1) + 1 ELSE 0
      /\ \A i \in 1 .. Len(s) - (n + 1) + 1 : Drop(s, n)[i] = s[n + 1 + i - 1]
  <2>1. \A i \in n + 1 .. Len(s) : s[i] \in S
    BY <1>1
  <2>2. n + 1 \in Int /\ Len(s) \in Int
    BY <1>1
  <2>3. QED
    BY <2>1, <2>2, SubSeqProperties DEF Drop
<1>4. Len(Taken(s, n)) = n /\ \A i \in 1 .. n : Taken(s, n)[i] = s[i]
  BY <1>1, <1>2
<1> DEFINE d == Drop(s, n)
           l == Len(s)
           e == Len(d)
<1> HIDE DEF d
<1>5. e = IF n + 1 <= l THEN l - (n + 1) + 1 ELSE 0
  BY <1>3 DEF d
<1>6. e = l - n
  <2> l \in Nat /\ n \in Nat /\ n <= l
    BY <1>1
  <2> HIDE DEF l, e
  <2> QED BY <1>5
<1>7. \A i \in 1 .. l - n : d[i] = s[n + i]
  <2>1. ASSUME NEW i \in 1 .. l - n PROVE d[i] = s[n + i]
    <3>1. i \in 1 .. Len(s) - (n + 1) + 1 /\ n + 1 + i - 1 = n + i
      BY <1>1
    <3> QED BY <3>1, <1>3 DEF d
  <2> QED BY <2>1
<1> QED BY <1>2, <1>3, <1>4, <1>6, <1>7 DEF d

(* What is cut off a part is a part, and so is the rest.                    *)
LEMMA CutPart ==
  ASSUME NEW S, NEW s \in Seq(S), NEW n \in 0 .. Len(s), NEW t, Len(t) \in Nat,
         NEW p \in Nat, Part(s, t, p)
  PROVE  Part(Taken(s, n), t, p) /\ Part(Drop(s, n), t, p + n)
<1>1. Len(s) \in Nat /\ n \in Nat
  BY LenProperties
<1>2. Part(Taken(s, n), t, p)
  BY <1>1, CutInTwo DEF Part
<1>3. Len(Drop(s, n)) = Len(s) - n /\ \A i \in 1 .. Len(s) - n : Drop(s, n)[i] = s[n + i]
  BY CutInTwo
<1>4. ASSUME NEW i \in 1 .. Len(s) - n PROVE s[n + i] = t[(p + n) + i]
  <2>1. n + i \in 1 .. Len(s) /\ p + (n + i) = (p + n) + i
    BY <1>1
  <2> QED BY <2>1 DEF Part
<1>5. (p + n) + Len(Drop(s, n)) <= Len(t)
  BY <1>1, <1>3 DEF Part
<1> QED BY <1>2, <1>3, <1>4, <1>5 DEF Part

(* Two adjacent parts together are a part.                                  *)
LEMMA JoinParts ==
  ASSUME NEW S, NEW s \in Seq(S), NEW r \in Seq(S), NEW t, Len(t) \in Nat, NEW p \in Nat,
         Part(s, t, p), Part(r, t, p + Len(s))
  PROVE  Part(s \o r, t, p) /\ Len(s \o r) = Len(s) + Len(r) /\ s \o r \in Seq(S)
<1>1. Len(s) \in Nat /\ Len(r) \in Nat
  BY LenProperties
<1>2. /\ s \o r \in Seq(S) /\ Len(s \o r) = Len(s) + Len(r)
      /\ \A i \in 1 .. Len(s) + Len(r) :
           (s \o r)[i] = IF i <= Len(s) THEN s[i] ELSE r[i - Len(s)]
  BY ConcatProperties
<1>3. ASSUME NEW i \in 1 .. Len(s) + Len(r) PROVE (s \o r)[i] = t[p + i]
  <2>1. CASE i <= Len(s)
    BY <1>1, <1>2, <2>1 DEF Part
  <2>2. CASE i > Len(s)
    <3>1. i - Len(s) \in 1 .. Len(r) /\ (p + Len(s)) + (i - Len(s)) = p + i
      BY <1>1, <2>2
    <3>2. r[i - Len(s)] = t[(p + Len(s)) + (i - Len(s))]
      BY <3>1 DEF Part
    <3> QED BY <1>1, <1>2, <2>2, <3>1, <3>2
  <2> QED BY <1>1, <2>1, <2>2
<1>4. p + (Len(s) + Len(r)) <= Len(t)
  BY <1>1 DEF Part
<1> QED BY <1>2, <1>3, <1>4 DEF Part

-----------------------------------------------------------------------------
(* Rio_readlineb: a line is what stands before the first line end, with it, *)
(* or all there is.                                                         *)
LEMMA LineOfBytes ==
  ASSUME NEW S, NEW u \in Seq(S)
  PROVE  /\ Len(Line(u)) \in 0 .. Len(u)
         /\ Line(u) = Taken(u, Len(Line(u)))
         /\ AfterLine(u) = Drop(u, Len(Line(u)))
         /\ ~IsWhole(u) => Len(Line(u)) = Len(u) /\ \A i \in 1 .. Len(u) : u[i] # EOL
         /\ IsWhole(u) => /\ Len(Line(u)) \in 1 .. Len(u) /\ u[Len(Line(u))] = EOL
                          /\ \A i \in 1 .. Len(Line(u)) - 1 : u[i] # EOL
<1> DEFINE I == {i \in 1 .. Len(u) : u[i] = EOL}
<1>1. Len(u) \in Nat
  BY LenProperties
<1>2. LineEnd(u) = IF I # {} THEN Min(I) ELSE 0
  BY DEF LineEnd, SelectInSeq
<1>3. AfterLine(u) = Drop(u, Len(Line(u)))
  BY DEF AfterLine, Drop
<1>4. CASE I = {}
  <2>1. LineEnd(u) = 0 /\ \A i \in 1 .. Len(u) : u[i] # EOL
    BY <1>2, <1>4
  <2>2. Line(u) = u /\ ~IsWhole(u)
    BY <2>1 DEF Line, IsWhole
  <2>3. Taken(u, Len(u)) = u
    <3>1. Len(u) \in 0 .. Len(u)
      BY <1>1
    <3> QED BY <3>1, CutInTwo, SeqEqual
  <2> QED BY <1>1, <1>3, <2>1, <2>2, <2>3
<1>5. CASE I # {}
  <2>1. PICK k \in I : \A j \in I : k <= j
    <3>1. I \subseteq Nat
      BY <1>1
    <3> HIDE DEF I
    <3> QED BY <1>5, <3>1, Least
  <2>2. Min(I) \in I /\ \A j \in I : Min(I) <= j
    <3> HIDE DEF I
    <3> QED BY <2>1 DEF Min
  <2> DEFINE e == LineEnd(u)
  <2>3. e \in 1 .. Len(u) /\ u[e] = EOL /\ \A j \in I : e <= j
    BY <1>2, <1>5, <2>2
  <2>4. \A i \in 1 .. e - 1 : u[i] # EOL
    <3>1. ASSUME NEW i \in 1 .. e - 1, u[i] = EOL PROVE FALSE
      <4>1. i \in I /\ i < e
        BY <1>1, <2>3, <3>1
      <4> QED BY <4>1, <2>3, <1>1
    <3> QED BY <3>1
  <2>5. IsWhole(u) /\ Line(u) = Taken(u, e)
    BY <1>1, <2>3 DEF IsWhole, Line, Taken
  <2>6. Len(Taken(u, e)) = e
    <3>1. e \in 0 .. Len(u)
      BY <1>1, <2>3
    <3> QED BY <3>1, CutInTwo
  <2> QED BY <1>1, <1>3, <2>3, <2>4, <2>5, <2>6
<1> QED BY <1>4, <1>5

(* No line was returned: there was nothing to return.                       *)
LEMMA EmptyLine ==
  ASSUME NEW S, NEW u \in Seq(S), Line(u) = <<>>
  PROVE  u = <<>> /\ ~IsWhole(u)
<1>1. Len(Line(u)) = 0 /\ Len(u) \in Nat
  BY EmptySeq, LenProperties
<1>2. ~IsWhole(u)
  BY <1>1, LineOfBytes
<1> QED BY <1>1, <1>2 DEF Line

(* The messages.                                                            *)
Message(s, b) == Headed(s, Len(b), b)

(* The status codes the server answers with.                                *)
Status == {200, 404, 501}

(* What the tokens of a message are.                                        *)
MessageIs(s, b, m) ==
  /\ m \in Seq(Token) /\ Len(m) = 7 + Len(b)
  /\ m[1] = <<"status", s>> /\ m[2] = EOL
  /\ m[3] = <<"length", Len(b)>> /\ m[4] = EOL
  /\ m[5] = <<"csum", Total(b)>> /\ m[6] = EOL /\ m[7] = EOL
  /\ \A i \in 1 .. Len(b) : m[7 + i] = <<"byte", b[i]>>

(* What request_sendfile and request_error write, token by token.           *)
LEMMA MessageByToken ==
  ASSUME NEW s \in Status, NEW b \in Seq(Byte)
  PROVE  MessageIs(s, b, Message(s, b)) /\ Total(b) \in Nat /\ Len(b) \in Nat
<1>1. Len(b) \in Nat /\ \A i \in 1 .. Len(b) : b[i] \in Byte
  BY LenProperties, ElementOfSeq
<1>2. Total(b) \in Nat
  <2>1. \A i \in 1 .. Len(b) : b[i] \in Nat
    BY <1>1 DEF Byte
  <2> QED BY <1>1, <2>1, SumOfNats DEF Total
<1> DEFINE h == <<<<"status", s>>, EOL, <<"length", Len(b)>>, EOL, <<"csum", Total(b)>>, EOL, EOL>>
           d == Bytes(b)
<1>3. <<"status", s>> \in Token /\ <<"length", Len(b)>> \in Token /\ <<"csum", Total(b)>> \in Token
      /\ EOL \in Token
  BY <1>1, <1>2 DEF Token, EOL, Status
<1>4. h \in Seq(Token) /\ Len(h) = 7 
  BY <1>3
<1>5. d \in Seq(Token) /\ Len(d) = Len(b) /\ \A i \in 1 .. Len(b) : d[i] = <<"byte", b[i]>>
  <2>1. DOMAIN b = 1 .. Len(b)
    BY LenProperties
  <2>2. \A i \in 1 .. Len(b) : <<"byte", b[i]>> \in Token
    BY <1>1 DEF Token, Byte
  <2>3. d = [i \in 1 .. Len(b) |-> <<"byte", b[i]>>]
    BY <2>1 DEF Bytes
  <2> QED BY <1>1, <2>2, <2>3
<1>6. /\ h \o d \in Seq(Token) /\ Len(h \o d) = 7 + Len(b)
      /\ \A i \in 1 .. 7 + Len(b) : (h \o d)[i] = IF i <= 7 THEN h[i] ELSE d[i - 7]
  <2> HIDE DEF h, d
  <2>1. /\ h \o d \in Seq(Token) /\ Len(h \o d) = Len(h) + Len(d)
        /\ \A i \in 1 .. Len(h) + Len(d) : (h \o d)[i] = IF i <= Len(h) THEN h[i] ELSE d[i - Len(h)]
    <3>1. h \in Seq(Token) /\ d \in Seq(Token)
      BY <1>4, <1>5
    <3> QED BY ONLY <3>1, ConcatProperties
  <2> QED BY <2>1, <1>4, <1>5
<1>7. Message(s, b) = h \o d
  BY DEF Message, Headed
<1> DEFINE m == Message(s, b)
<1>8. \A i \in 1 .. 7 : m[i] = h[i]
  <2> HIDE DEF h, d
  <2> QED BY <1>1, <1>6, <1>7
<1>9. \A i \in 1 .. Len(b) : m[7 + i] = d[i]
  <2> HIDE DEF h, d
  <2>1. ASSUME NEW i \in 1 .. Len(b) PROVE m[7 + i] = d[i]
    <3>1. 7 + i \in 1 .. 7 + Len(b) /\ ~(7 + i <= 7) /\ (7 + i) - 7 = i
      BY <1>1
    <3> QED BY <1>6, <1>7, <3>1
  <2> QED BY <2>1
<1>10. m[1] = <<"status", s>> /\ m[2] = EOL /\ m[3] = <<"length", Len(b)>> /\ m[4] = EOL
       /\ m[5] = <<"csum", Total(b)>> /\ m[6] = EOL /\ m[7] = EOL
  <2> HIDE DEF m
  <2> QED BY <1>8
<1> QED BY <1>1, <1>2, <1>5, <1>6, <1>7, <1>9, <1>10 DEF MessageIs

(* Only a line end is a line end.                                           *)
LEMMA KindsDiffer ==
  ASSUME NEW v
  PROVE  <<"status", v>> # EOL /\ <<"length", v>> # EOL /\ <<"csum", v>> # EOL
<1> DEFINE a == <<"status", v>>
           b == <<"length", v>>
           c == <<"csum", v>>
<1>1. a[1] = "status" /\ b[1] = "length" /\ c[1] = "csum" /\ EOL[1] = "byte"
  BY DEF EOL
<1> QED BY <1>1

(* The end of the header line that begins after p tokens of a message.      *)
LEMMA HeaderLine ==
  ASSUME NEW s, NEW b \in Seq(Byte), NEW m, MessageIs(s, b, m), NEW p \in {0, 2, 4, 6},
         NEW u \in Seq(Token), Part(u, m, p)
  PROVE  /\ IsWhole(u) => Len(Line(u)) = IF p = 6 THEN 1 ELSE 2
         /\ ~IsWhole(u) => Len(u) <= IF p = 6 THEN 0 ELSE 1
<1>0. Len(u) \in Nat /\ Len(b) \in Nat
  BY LenProperties
<1>1. \A i \in 1 .. Len(u) : u[i] = m[p + i]
  BY DEF Part
<1> DEFINE k == Len(Line(u))
<1>2. ~IsWhole(u) => \A i \in 1 .. Len(u) : u[i] # EOL
  BY LineOfBytes
<1>3. IsWhole(u) => k \in 1 .. Len(u) /\ u[k] = EOL /\ \A i \in 1 .. k - 1 : u[i] # EOL
  BY LineOfBytes
<1> HIDE DEF k
<1>4. CASE p = 6
  <2>1. m[6 + 1] = EOL
    BY DEF MessageIs
  <2>2. Len(u) >= 1 => u[1] = EOL
    BY <1>0, <1>1, <1>4, <2>1
  <2>3. IsWhole(u) => k = 1
    BY <1>0, <1>3, <2>2
  <2>4. ~IsWhole(u) => Len(u) <= 0
    BY <1>0, <1>2, <2>2
  <2> QED BY <1>4, <2>3, <2>4 DEF k
<1>5. CASE p # 6
  <2>1. m[p + 1] # EOL /\ m[p + 2] = EOL
    <3>1. <<"status", s>> # EOL /\ <<"length", Len(b)>> # EOL /\ <<"csum", Total(b)>> # EOL
      BY KindsDiffer
    <3>2. m[1] # EOL /\ m[2] = EOL /\ m[3] # EOL /\ m[4] = EOL /\ m[5] # EOL /\ m[6] = EOL
      BY <3>1 DEF MessageIs
    <3> QED BY <1>5, <3>2
  <2>2. Len(u) >= 2 => u[2] = EOL
    BY <1>0, <1>1, <2>1
  <2>3. Len(u) >= 1 => u[1] # EOL
    BY <1>0, <1>1, <2>1
  <2>4. IsWhole(u) => k = 2
    BY <1>0, <1>3, <2>2, <2>3
  <2>5. ~IsWhole(u) => Len(u) <= 1
    BY <1>0, <1>2, <2>2
  <2> QED BY <1>5, <2>4, <2>5 DEF k
<1> QED BY <1>4, <1>5

(* The type of the server record.                                           *)
ServerType ==
  [pc : {"idle", "line", "first", "headers", "file", "load", "send", "reply", "crashed"},
   conn : Conn \cup {Missing}, name : Name \cup {Missing}, unread : Seq(Token),
   size : Nat, buf : Seq(Byte), out : Seq(Token)]
(* The type of a client record.                                             *)
ClientType ==
  [pc : {"new"} \cup Active \cup Ended, want : Name \cup {Missing}, out : Seq(Token),
   unread : Seq(Token), length : Nat, csum : Nat, body : Seq(Byte)]

(* Every variable has its type, and a wire holds no more than fits.         *)
Typed ==
  /\ up \in [Conn -> Seq(Token)] /\ down \in [Conn -> Seq(Token)]
  /\ \A c \in Conn : Len(up[c]) <= WireCap /\ Len(down[c]) <= WireCap
  /\ closed \subseteq Conn
  /\ server \in ServerType
  /\ client \in [Conn -> ClientType]

(* A file only gets shorter, so one that is what the file set says has been *)
(* so all along.                                                            *)
DiskOk ==
  /\ disk \in [Name -> Seq(Byte) \cup {Missing}]
  /\ \A f \in Name : disk[f] # File[f] /\ disk[f] # Missing => Len(disk[f]) < Len(File[f])

(* The server thread has read the request line and not yet composed a       *)
(* reply.                                                                   *)
Working == server.pc \in {"first", "headers", "file", "load", "send"}

(* What the server thread knows at each label.                              *)
ServerOk ==
  /\ server.pc = "idle" => server = Idle
  /\ server.pc \notin {"idle", "crashed"} => Here \in Conn \ closed
  /\ Working => server.name \in Name
  /\ Working /\ server.pc # "send" => server.buf = <<>>
  /\ server.pc = "line" => server.buf = <<>>
  /\ server.pc = "load" /\ Servable(server.name) => server.size = Len(File[server.name])
  /\ server.pc = "send" =>
       /\ Len(server.buf) = server.size
       /\ Servable(server.name) => server.buf = File[server.name]

(* The connection the server thread is at.                                  *)
Serving(c) == server.pc \notin {"idle", "crashed"} /\ Here = c

(* A client that has not begun.                                             *)
NewOk(c) ==
  client[c].pc = "new" =>
    /\ client[c] = NewClient /\ c \notin closed /\ ~Serving(c)
    /\ up[c] = <<>> /\ down[c] = <<>>

(* The first token that is left in what has been read, is on its way or is  *)
(* still to be written.                                                     *)
FirstIs(first, read, flying, kept) ==
  /\ read # <<>> => read[1] = first
  /\ read = <<>> /\ flying # <<>> => flying[1] = first
  /\ read = <<>> /\ flying = <<>> => kept # <<>> /\ kept[1] = first

(* How the request of the client of c begins.                               *)
Asks(c) == <<"get", client[c].want>>

(* The server thread learns what the client asks for.                       *)
RequestOk(c) ==
  client[c].pc \in Active =>
    /\ client[c].want \in Name
    /\ c \notin closed /\ ~Dead =>
         /\ ~Serving(c) => FirstIs(Asks(c), <<>>, up[c], client[c].out)
         /\ Serving(c) /\ server.pc = "line" =>
              FirstIs(Asks(c), server.unread, up[c], client[c].out)
         /\ Serving(c) /\ Working => server.name = client[c].want

(* A client has read p tokens of a message with the body b.                 *)
ReadTo(cl, b, p) ==
  \/ cl.pc \in {"send", "status"} /\ p = 0 /\ cl.body = <<>>
  \/ /\ cl.pc = "header" /\ p \in {2, 4, 6} /\ cl.body = <<>>
     /\ p >= 4 => cl.length = Len(b)
     /\ p >= 6 => cl.csum = Total(b)
  \/ /\ cl.pc = "body" /\ p = 7 + Len(cl.body) /\ Part(cl.body, b, 0)
     /\ cl.length = Len(b) /\ cl.csum = Total(b)

(* The tokens of a message that the client of c or its wire have got.       *)
Sent(c, p) == p + Len(client[c].unread) + Len(down[c])

(* A message with the body b is on its way to c: what the client has read,  *)
(* what it has received, what is on the wire and what the server thread     *)
(* still has to write are one part of the message after the other.          *)
Flow(c, m, b, p) ==
  /\ ReadTo(client[c], b, p)
  /\ Part(client[c].unread, m, p)
  /\ Part(down[c], m, p + Len(client[c].unread))
  /\ c \in closed => Sent(c, p) = Len(m)
  /\ Serving(c) => /\ Part(server.out, m, Sent(c, p))
                   /\ Sent(c, p) + Len(server.out) = Len(m)
  /\ Servable(client[c].want) => b = File[client[c].want]

(* Some message is on its way to c.                                         *)
Answered(c) ==
  \E s \in Status, b \in Seq(Byte), p \in Nat : Flow(c, Message(s, b), b, p)

(* Nothing was written to c.                                                *)
Fresh(c) ==
  /\ client[c].pc \in {"send", "status"} /\ client[c].body = <<>>
  /\ client[c].unread = <<>> /\ down[c] = <<>>

(* The server ended before the client of c had the headers.                 *)
Drained(c) ==
  /\ c \notin closed /\ Dead
  /\ client[c].pc \in {"header", "body"} /\ client[c].body = <<>>
  /\ client[c].unread = <<>> /\ down[c] = <<>>

(* What the client of c has read is the beginning of one message.           *)
Served(c) == c \in closed \/ Dead \/ (Serving(c) /\ server.pc = "reply")

(* A client reads the beginning of one message, and nothing before the      *)
(* server writes one.                                                       *)
ReplyOk(c) ==
  client[c].pc \in Active =>
    /\ Served(c) => Answered(c) \/ Drained(c)
    /\ ~Served(c) => Fresh(c)

(* What holds of each connection.                                           *)
ConnOk(c) == NewOk(c) /\ RequestOk(c) /\ ReplyOk(c)
(* The invariant.                                                           *)
RInv == Typed /\ DiskOk /\ ServerOk /\ \A c \in Conn : ConnOk(c)

-----------------------------------------------------------------------------
(* What a step on another connection leaves alone.                          *)
Kept(c) ==
  /\ client'[c] = client[c] /\ up'[c] = up[c] /\ down'[c] = down[c]
  /\ c \in closed' <=> c \in closed

(* No file becomes what the file set says.                                  *)
DiskKept == \A f \in Name : disk'[f] = File[f] => disk[f] = File[f]

(* The server thread stays away from c.                                     *)
ServerElsewhere(c) ==
  \/ server' = server
  \/ ~Serving(c) /\ ~Serving(c)' /\ ~Dead /\ ~Dead'

(* Then what holds of c goes on to hold.                                    *)
LEMMA Elsewhere ==
  ASSUME NEW c \in Conn, ConnOk(c), Kept(c), DiskKept, ServerElsewhere(c)
  PROVE  ConnOk(c)'
<1>1. NewOk(c)'
  BY DEF ConnOk, NewOk, Kept, ServerElsewhere, Serving, Here
<1>2. RequestOk(c)'
  BY DEF ConnOk, RequestOk, Kept, ServerElsewhere, Serving, Here, Dead, Asks, Working
<1>3. ReplyOk(c)'
  <2>1. SUFFICES ASSUME client[c].pc \in Active
                 PROVE  /\ Served(c)' => Answered(c)' \/ Drained(c)'
                        /\ ~Served(c)' => Fresh(c)'
    BY DEF Kept, ReplyOk
  <2>2. Served(c)' <=> Served(c)
    BY DEF Served, Kept, ServerElsewhere, Dead, Serving, Here
  <2>3. Fresh(c) => Fresh(c)'
    BY DEF Fresh, Kept
  <2>4. Drained(c) => Drained(c)'
    BY DEF Drained, Kept, ServerElsewhere, Dead
  <2>5. Answered(c) => Answered(c)'
    <3>1. SUFFICES ASSUME Answered(c) PROVE Answered(c)'
      OBVIOUS
    <3>2. PICK s \in Status, b \in Seq(Byte), p \in Nat : Flow(c, Message(s, b), b, p)
      BY <3>1 DEF Answered
    <3>3. Flow(c, Message(s, b), b, p)'
      <4>1. client[c].want \in Name
        BY <2>1 DEF ConnOk, RequestOk
      <4>2. Servable(client[c].want)' => Servable(client[c].want)
        BY <4>1 DEF Kept, DiskKept, Servable
      <4>3. Serving(c)' => Serving(c) /\ server' = server
        BY DEF ServerElsewhere, Serving, Here
      <4> QED BY <3>2, <4>2, <4>3 DEF Flow, Kept, Sent
    <3> QED BY <3>3 DEF Answered
  <2> QED BY <2>1, <2>2, <2>3, <2>4, <2>5 DEF ConnOk, ReplyOk
<1> QED BY <1>1, <1>2, <1>3 DEF ConnOk

(* At the beginning nobody has begun.                                       *)
LEMMA InitOk == Init => RInv
<1> SUFFICES ASSUME Init PROVE RInv
  OBVIOUS
<1> USE DEF Init
<1>1. Typed
  <2>1. Idle \in ServerType
    BY DEF Idle, ServerType
  <2>2. NewClient \in ClientType
    BY DEF NewClient, ClientType
  <2> QED BY <2>1, <2>2, RequestsAssumption DEF Typed
<1>2. DiskOk
  BY RequestsAssumption DEF DiskOk
<1>3. ServerOk
  BY DEF ServerOk, Idle, Working
<1>4. ASSUME NEW c \in Conn PROVE ConnOk(c)
  BY DEF ConnOk, NewOk, RequestOk, ReplyOk, Serving, Idle, NewClient, Active, Waiting
<1> QED BY <1>1, <1>2, <1>3, <1>4 DEF RInv

(* One server record of the right type.                                     *)
LEMMA ServerFields ==
  ASSUME Typed
  PROVE  /\ server.conn \in Conn \cup {Missing} /\ server.name \in Name \cup {Missing}
         /\ server.unread \in Seq(Token) /\ server.size \in Nat /\ server.buf \in Seq(Byte)
         /\ server.out \in Seq(Token)
         /\ server.pc \in {"idle", "line", "first", "headers", "file", "load", "send", "reply",
                           "crashed"}
BY DEF Typed, ServerType

(* The records the threads begin with have their types.                     *)
LEMMA RecordsTyped == Idle \in ServerType /\ NewClient \in ClientType
BY DEF Idle, ServerType, NewClient, ClientType

(* One client record of the right type.                                     *)
LEMMA ClientFields ==
  ASSUME Typed, NEW c \in Conn
  PROVE  /\ client[c].pc \in {"new"} \cup Active \cup Ended
         /\ client[c].want \in Name \cup {Missing} /\ client[c].out \in Seq(Token)
         /\ client[c].unread \in Seq(Token) /\ client[c].length \in Nat /\ client[c].csum \in Nat
         /\ client[c].body \in Seq(Byte)
BY DEF Typed, ClientType

(* A step of the server thread disturbs no other connection.                *)
LEMMA OneServed ==
  ASSUME RInv, NEW d \in Conn, ~Dead, Serving(d)' \/ server'.pc = "idle",
         Serving(d) \/ server.pc = "idle",
         \A c \in Conn : c # d => Kept(c), DiskKept, ConnOk(d)'
  PROVE  \A c \in Conn : ConnOk(c)'
<1>1. SUFFICES ASSUME NEW c \in Conn, c # d PROVE ConnOk(c)'
  OBVIOUS
<1>2. ~Serving(c) /\ ~Serving(c)' /\ ~Dead'
  BY <1>1 DEF Serving, Here, Dead
<1> QED BY <1>1, <1>2, Elsewhere DEF RInv, ServerElsewhere

(* When no file changes.                                                    *)
LEMMA SameDisk == ASSUME disk' = disk PROVE DiskKept /\ (DiskOk => DiskOk')
BY DEF DiskKept, DiskOk

(* accept: the first token of the request is still to come.                 *)
LEMMA AcceptKeeps ==
  ASSUME RInv, NEW d \in Conn, Accept(d)
  PROVE  RInv'
<1> USE DEF Accept
<1>1. server = Idle /\ server' = [Idle EXCEPT !.pc = "line", !.conn = d]
  BY DEF RInv, ServerOk
<1>2. Typed'
  <2>1. server' \in ServerType
    BY <1>1, RecordsTyped DEF ServerType
  <2> QED BY <2>1 DEF RInv, Typed
<1>3. ServerOk'
  BY <1>1 DEF ServerOk, Idle, Here, Working
<1>4. Serving(d)' /\ ~Serving(d) /\ ~Dead /\ ~Dead'
  BY <1>1 DEF Serving, Here, Dead, Idle
<1>5. ConnOk(d)'
  <2>0. ConnOk(d) /\ client' = client /\ up' = up /\ down' = down /\ closed' = closed
    BY DEF RInv
  <2>1. NewOk(d)'
    BY <2>0 DEF NewOk
  <2>2. RequestOk(d)'
    BY <2>0, <1>1, <1>4 DEF ConnOk, RequestOk, Asks, Idle, Working
  <2>3. ReplyOk(d)'
    <3>1. client[d].pc \in Active => ~Served(d) /\ Fresh(d)
      BY <2>0, <1>4 DEF ConnOk, ReplyOk, Served
    <3>2. Fresh(d) => Fresh(d)'
      BY <2>0 DEF Fresh
    <3>3. ~Served(d)'
      BY <1>1, <1>4, <2>0 DEF Served, Idle
    <3> QED BY <2>0, <3>1, <3>2, <3>3 DEF ReplyOk
  <2> QED BY <2>1, <2>2, <2>3 DEF ConnOk
<1>6. \A c \in Conn : ConnOk(c)'
  BY <1>4, <1>5, SameDisk, OneServed DEF Kept
<1> QED BY <1>2, <1>3, <1>6, SameDisk DEF RInv

(* The server thread goes on with a request, and writes nothing yet.        *)
GoesOn(d) ==
  /\ Here = d /\ Serving(d) /\ server.pc # "reply"
  /\ server'.pc \in {"line", "first", "headers", "file", "load", "send"} /\ server'.conn = d
  /\ server' \in ServerType
  /\ UNCHANGED <<down, closed, client, disk>>
  /\ up' \in [Conn -> Seq(Token)] /\ \A c \in Conn : Len(up'[c]) <= WireCap
  /\ \A c \in Conn : c # d => up'[c] = up[c]

(* Such a step keeps the invariant if the thread knows what it should.      *)
LEMMA GoesOnKeeps ==
  ASSUME RInv, NEW d \in Conn, GoesOn(d), ServerOk', RequestOk(d)'
  PROVE  RInv'
<1>0. Serving(d) /\ Serving(d)' /\ ~Dead /\ ~Dead' /\ d \notin closed
  BY DEF GoesOn, Serving, Here, Dead, RInv, ServerOk
<1>1. Typed'
  BY DEF RInv, Typed, GoesOn
<1>2. NewOk(d)'
  <2>1. client[d].pc # "new"
    BY <1>0 DEF RInv, ConnOk, NewOk
  <2> QED BY <2>1 DEF GoesOn, NewOk
<1>3. ReplyOk(d)'
  <2>1. ~Served(d)
    BY <1>0 DEF Served, GoesOn
  <2>2. ~Served(d)'
    BY <1>0 DEF Served, GoesOn
  <2>3. client[d].pc \in Active => Fresh(d)
    BY <1>0, <2>1 DEF RInv, ConnOk, ReplyOk
  <2>4. client[d].pc \in Active => Fresh(d)'
    BY <2>3 DEF Fresh, GoesOn
  <2> QED BY <2>2, <2>4 DEF ReplyOk, GoesOn
<1>4. ConnOk(d)'
  BY <1>2, <1>3 DEF ConnOk
<1>5. \A c \in Conn : c # d => Kept(c)
  BY DEF Kept, GoesOn
<1>6. \A c \in Conn : ConnOk(c)'
  <2>1. DiskKept
    BY SameDisk DEF GoesOn
  <2> QED BY <1>0, <1>4, <1>5, <2>1, OneServed
<1>7. DiskOk'
  BY SameDisk DEF RInv, GoesOn
<1> QED BY <1>1, <1>6, <1>7 DEF RInv

(* n tokens are taken from b and added to a.                                *)
Moved(S, a, b, n) ==
  /\ a \o Taken(b, n) \in Seq(S) /\ Drop(b, n) \in Seq(S)
  /\ Len(a \o Taken(b, n)) = Len(a) + n
  /\ Len(Drop(b, n)) = Len(b) - n
  /\ a \o Taken(b, n) # <<>>
  /\ (a \o Taken(b, n))[1] = IF a # <<>> THEN a[1] ELSE b[1]

(* Moving tokens on does not change which comes first.                      *)
LEMMA MovedOn ==
  ASSUME NEW S, NEW a \in Seq(S), NEW b \in Seq(S), NEW n \in 1 .. Len(b)
  PROVE  Moved(S, a, b, n)
<1>1. Len(a) \in Nat /\ Len(b) \in Nat /\ n \in 0 .. Len(b) /\ n >= 1
  BY LenProperties
<1>2a. /\ Taken(b, n) \in Seq(S) /\ Len(Taken(b, n)) = n
       /\ \A i \in 1 .. n : Taken(b, n)[i] = b[i]
       /\ Drop(b, n) \in Seq(S) /\ Len(Drop(b, n)) = Len(b) - n
  BY <1>1, CutInTwo
<1>2. /\ Taken(b, n) \in Seq(S) /\ Len(Taken(b, n)) = n /\ Taken(b, n)[1] = b[1]
      /\ Drop(b, n) \in Seq(S) /\ Len(Drop(b, n)) = Len(b) - n
  BY <1>1, <1>2a
<1> DEFINE t == Taken(b, n)
<1> HIDE DEF t
<1>3. /\ a \o t \in Seq(S) /\ Len(a \o t) = Len(a) + Len(t)
      /\ \A i \in 1 .. Len(a) + Len(t) : (a \o t)[i] = IF i <= Len(a) THEN a[i] ELSE t[i - Len(a)]
  BY <1>2, ConcatProperties DEF t
<1>4. Len(t) = n /\ t[1] = b[1]
  BY <1>2 DEF t
<1>5. (a \o t)[1] = IF 1 <= Len(a) THEN a[1] ELSE t[1 - Len(a)]
  BY <1>1, <1>3, <1>4
<1>6. a # <<>> <=> 1 <= Len(a)
  BY <1>1, EmptySeq
<1>7. (a \o t)[1] = IF a # <<>> THEN a[1] ELSE b[1]
  <2>1. CASE a # <<>>
    BY <2>1, <1>5, <1>6
  <2>2. CASE a = <<>>
    <3>1. Len(a) = 0 /\ 1 - Len(a) = 1
      BY <2>2, EmptySeq
    <3> QED BY <2>2, <3>1, <1>4, <1>5, <1>6
  <2> QED BY <2>1, <2>2
<1>8. a \o t # <<>>
  <2>1. Len(a \o t) # 0
    BY <1>1, <1>3, <1>4
  <2> QED BY <2>1, EmptySeq
<1> QED BY <1>2, <1>3, <1>4, <1>7, <1>8 DEF t, Moved

(* ... when a thread receives some.                                         *)
LEMMA Received ==
  ASSUME NEW S, NEW x, NEW read \in Seq(S), NEW flying \in Seq(S), NEW kept,
         NEW n \in 1 .. Len(flying), FirstIs(x, read, flying, kept)
  PROVE  FirstIs(x, read \o Taken(flying, n), Drop(flying, n), kept)
<1>1. flying # <<>>
  BY EmptySeq
<1>2a. Moved(S, read, flying, n)
  BY MovedOn
<1>2. /\ read \o Taken(flying, n) # <<>>
      /\ (read \o Taken(flying, n))[1] = IF read # <<>> THEN read[1] ELSE flying[1]
  BY <1>2a DEF Moved
<1> QED BY <1>1, <1>2 DEF FirstIs

(* ... when a thread writes some.                                           *)
LEMMA Written ==
  ASSUME NEW S, NEW x, NEW read, NEW flying \in Seq(S), NEW kept \in Seq(S),
         NEW n \in 1 .. Len(kept), FirstIs(x, read, flying, kept)
  PROVE  FirstIs(x, read, flying \o Taken(kept, n), Drop(kept, n))
<1>1. kept # <<>>
  BY EmptySeq
<1>2a. Moved(S, flying, kept, n)
  BY MovedOn
<1>2. /\ flying \o Taken(kept, n) # <<>>
      /\ (flying \o Taken(kept, n))[1] = IF flying # <<>> THEN flying[1] ELSE kept[1]
  BY <1>2a DEF Moved
<1> QED BY <1>1, <1>2 DEF FirstIs

(* read, called by Rio_readlineb in the server thread.                      *)
LEMMA ServerReceiveKeeps ==
  ASSUME RInv, ServerReceive
  PROVE  RInv'
<1>0. Here \in Conn /\ Here \notin closed /\ Serving(Here) /\ ~Dead
  BY DEF RInv, ServerOk, ServerReceive, ServerReading, Serving, Dead
<1>1. PICK d \in Conn : d = Here
  BY <1>0
<1>2. PICK n \in 1 .. Len(up[d]) :
        /\ server' = [server EXCEPT !.unread = @ \o Taken(up[d], n)]
        /\ up' = [up EXCEPT ![d] = Drop(@, n)]
  BY <1>1 DEF ServerReceive, Pieces
<1>3. up[d] \in Seq(Token) /\ server.unread \in Seq(Token) /\ Len(up[d]) <= WireCap
  BY ServerFields DEF RInv, Typed
<1> DEFINE read == server.unread \o Taken(up[d], n)
           rest == Drop(up[d], n)
<1>3a. Moved(Token, server.unread, up[d], n)
  BY <1>3, MovedOn
<1>4. read \in Seq(Token) /\ rest \in Seq(Token) /\ Len(rest) <= WireCap
  <2>1. Len(up[d]) \in Nat /\ Len(rest) = Len(up[d]) - n /\ n \in Nat /\ WireCap \in Nat
    <3>1. Len(up[d]) \in Nat /\ WireCap \in Nat
      BY <1>3, LenProperties, RequestsAssumption
    <3>2. Len(rest) = Len(up[d]) - n
      BY <1>3a DEF Moved
    <3> HIDE DEF rest
    <3> QED BY <3>1, <3>2
  <2>2. read \in Seq(Token) /\ rest \in Seq(Token)
    BY <1>3a DEF Moved
  <2> HIDE DEF read, rest
  <2>3. Len(rest) <= Len(up[d])
    BY <2>1
  <2> QED BY <1>3, <2>1, <2>2
<1> HIDE DEF read, rest
<1>5. server' = [server EXCEPT !.unread = read] /\ up' = [up EXCEPT ![d] = rest]
  BY <1>2 DEF read, rest
<1>6. /\ server'.pc = server.pc /\ server'.conn = server.conn /\ server'.name = server.name
      /\ server'.unread = read /\ server'.buf = server.buf /\ server'.size = server.size
      /\ server' \in ServerType
  BY <1>4, <1>5 DEF RInv, Typed, ServerType
<1>7. GoesOn(d)
  <2>1. server'.pc \in {"line", "first", "headers", "file", "load", "send"} /\ server.pc # "reply"
    BY <1>6 DEF ServerReceive, ServerReading
  <2>2. up' \in [Conn -> Seq(Token)] /\ \A c \in Conn : c # d => up'[c] = up[c]
    BY <1>4, <1>5 DEF RInv, Typed
  <2>3. \A c \in Conn : Len(up'[c]) <= WireCap
    BY <1>4, <1>5 DEF RInv, Typed
  <2>4. UNCHANGED <<down, closed, client, disk>>
    BY DEF ServerReceive
  <2>5. Serving(d) /\ Here = d /\ server'.conn = d
    BY <1>0, <1>1, <1>6 DEF Here
  <2> QED BY <1>6, <2>1, <2>2, <2>3, <2>4, <2>5 DEF GoesOn
<1>8. ServerOk'
  BY <1>6 DEF RInv, ServerOk, Here, Working, ServerReceive, ServerReading, Servable
<1>9. RequestOk(d)'
  <2>1. ASSUME server.pc = "line", FirstIs(Asks(d), server.unread, up[d], client[d].out)
        PROVE  FirstIs(Asks(d), read, rest, client[d].out)
    BY <2>1, <1>3, Received DEF read, rest
  <2>2. up'[d] = rest /\ client' = client /\ closed' = closed
    BY <1>5 DEF RInv, Typed, ServerReceive
  <2>3. Asks(d)' = Asks(d) /\ Dead' = Dead /\ (Working' <=> Working) /\ Serving(d) /\ Serving(d)'
    BY <1>0, <1>1, <1>6, <2>2 DEF Asks, Dead, Working, Serving, Here
  <2>4. RequestOk(d)
    BY DEF RInv, ConnOk
  <2> QED BY <2>1, <2>2, <2>3, <2>4, <1>6 DEF RequestOk
<1> QED BY <1>7, <1>8, <1>9, GoesOnKeeps

(* The rest of what has been read is a sequence of tokens too.              *)
LEMMA RestTyped ==
  ASSUME NEW S, NEW u \in Seq(S)
  PROVE  AfterLine(u) \in Seq(S)
BY LineOfBytes, CutInTwo

(* The server record when a line has been read.                             *)
LEMMA PastLineFields ==
  ASSUME Typed
  PROVE  /\ PastLine \in ServerType
         /\ PastLine.pc = server.pc /\ PastLine.conn = server.conn
         /\ PastLine.name = server.name /\ PastLine.buf = server.buf
         /\ PastLine.size = server.size /\ PastLine.out = server.out
<1>1. AfterLine(server.unread) \in Seq(Token)
  BY ServerFields, RestTyped
<1> QED BY <1>1 DEF PastLine, Typed, ServerType

(* The thread goes on without reading.                                      *)
LEMMA NothingRead ==
  ASSUME RInv, NEW d \in Conn, Here = d, Serving(d), server.pc # "reply",
         server'.pc \in {"line", "first", "headers", "file", "load", "send"}, server'.conn = d,
         server' \in ServerType, UNCHANGED <<up, down, closed, client, disk>>
  PROVE  GoesOn(d)
BY DEF GoesOn, RInv, Typed

(* request_init: unless the client is gone, the line says what it wants.    *)
LEMMA ReadRequestLineGoesOn ==
  ASSUME RInv, ReadRequestLine, server'.pc = "first"
  PROVE  RInv'
<1>0. Here \in Conn /\ Here \notin closed /\ Serving(Here) /\ ~Dead /\ server.pc = "line"
  BY DEF RInv, ServerOk, ReadRequestLine, Serving, Dead
<1>1. PICK d \in Conn : d = Here
  BY <1>0
<1>2. PICK f \in Name : /\ IsWhole(server.unread) => f = Line(server.unread)[1][2]
                        /\ server' = [PastLine EXCEPT !.pc = "first", !.name = f]
  BY DEF ReadRequestLine, Respond, Idle
<1>3. Typed
  BY DEF RInv
<1>4. server' \in ServerType
  <2>1. PastLine \in ServerType
    BY <1>3, PastLineFields
  <2> QED BY <1>2, <2>1 DEF ServerType
<1>5. server'.pc = "first" /\ server'.conn = server.conn /\ server'.name = f
      /\ server'.buf = server.buf /\ server'.size = server.size
  <2>1. PastLine \in ServerType
    BY <1>3, PastLineFields
  <2> QED BY <1>2, <1>3, <2>1, PastLineFields DEF ServerType
<1>6. GoesOn(d)
  <2>1. UNCHANGED <<up, down, closed, client, disk>>
    BY DEF ReadRequestLine
  <2> QED BY <1>0, <1>1, <1>4, <1>5, <2>1, NothingRead DEF Here
<1>7. ServerOk'
  BY <1>0, <1>1, <1>5 DEF ServerOk, RInv, Working, Here, ReadRequestLine
<1>8. RequestOk(d)'
  <2>1. SUFFICES ASSUME client[d].pc \in Active PROVE f = client[d].want
    <3>1. client' = client /\ closed' = closed /\ server'.pc = "first" /\ Here' = Here
      BY <1>5 DEF ReadRequestLine, Here
    <3>2. RequestOk(d)
      BY DEF RInv, ConnOk
    <3>3. ~(server.pc \in {"idle", "crashed"}) /\ Serving(d)'
      BY <1>0, <1>1, <1>5, <3>1 DEF Serving
    <3> QED BY <3>1, <3>2, <3>3, <1>5 DEF RequestOk, Working
  <2>2. ~Gone(Here)
    BY <1>1, <2>1 DEF Gone, Active, Waiting
  <2>3. IsWhole(server.unread)
    BY <2>2 DEF ReadRequestLine, Returns, ServerEof
  <2>4. server.unread \in Seq(Token)
    BY <1>3, ServerFields
  <2>5. FirstIs(Asks(d), server.unread, up[d], client[d].out)
    BY <1>0, <1>1, <2>1 DEF RInv, ConnOk, RequestOk
  <2> DEFINE k == Len(Line(server.unread))
  <2>6. k \in 1 .. Len(server.unread) /\ Line(server.unread) = Taken(server.unread, k)
    BY <2>3, <2>4, LineOfBytes
  <2>7. Line(server.unread)[1] = server.unread[1]
    <3> HIDE DEF k
    <3>1. Len(server.unread) \in Nat /\ k \in 0 .. Len(server.unread) /\ 1 \in 1 .. k
      BY <2>4, <2>6, LenProperties
    <3>2. \A i \in 1 .. k : Taken(server.unread, k)[i] = server.unread[i]
      BY <2>4, <3>1, CutInTwo
    <3> QED BY <2>6, <3>1, <3>2
  <2>8. server.unread # <<>>
    <3>1. Len(server.unread) # 0
      BY <2>6, <2>4, LenProperties
    <3> QED BY <3>1, EmptySeq
  <2>9. Line(server.unread)[1] = <<"get", client[d].want>>
    BY <2>5, <2>7, <2>8 DEF FirstIs, Asks
  <2> QED BY <1>2, <2>3, <2>9
<1> QED BY <1>6, <1>7, <1>8, GoesOnKeeps

(* A step that keeps the name the thread has learnt.                        *)
LEMMA NameKept ==
  ASSUME RInv, NEW d \in Conn, Here = d, Working, Working', server'.name = server.name,
         server'.conn = d, UNCHANGED <<closed, client>>
  PROVE  RequestOk(d)'
<1>1. Serving(d) /\ Serving(d)' /\ ~Dead /\ ~Dead'
  BY DEF Serving, Working, Here, Dead
<1> QED BY <1>1 DEF RInv, ConnOk, RequestOk, Working

(* request_read_headers changes nothing a reply depends on.                 *)
LEMMA ReadHeaderKeeps ==
  ASSUME RInv, ReadHeader
  PROVE  RInv'
<1>0. Here \in Conn /\ Here \notin closed /\ Serving(Here) /\ server.pc \in {"first", "headers"}
  BY DEF RInv, ServerOk, ReadHeader, Serving
<1>1. PICK d \in Conn : d = Here
  BY <1>0
<1>2. PICK l \in {"headers", "file"} : server' = [PastLine EXCEPT !.pc = l]
  BY DEF ReadHeader
<1>3. Typed /\ UNCHANGED <<up, down, closed, client, disk>>
  BY DEF RInv, ReadHeader
<1>4. PastLine \in ServerType
  BY <1>3, PastLineFields
<1>5. server' \in ServerType
  BY <1>2, <1>4 DEF ServerType
<1>6. server'.pc = l /\ server'.conn = server.conn /\ server'.name = server.name
      /\ server'.buf = server.buf /\ server'.size = server.size
  BY <1>2, <1>3, <1>4, PastLineFields DEF ServerType
<1>7. GoesOn(d)
  BY <1>0, <1>1, <1>3, <1>5, <1>6, NothingRead DEF Here
<1>8. ServerOk'
  BY <1>0, <1>1, <1>3, <1>6 DEF ServerOk, RInv, Working, Here
<1>9. RequestOk(d)'
  BY <1>0, <1>1, <1>3, <1>6, NameKept DEF Working, Here
<1> QED BY <1>7, <1>8, <1>9, GoesOnKeeps

(* request_readfile, up to stat: the size is that of the file.              *)
LEMMA StatGoesOn ==
  ASSUME RInv, Stat, server'.pc # "reply"
  PROVE  RInv'
<1>0. Here \in Conn /\ Here \notin closed /\ Serving(Here) /\ server.pc = "file"
      /\ server.name \in Name /\ server.buf = <<>>
  BY DEF RInv, ServerOk, Stat, Serving, Working
<1>1. PICK d \in Conn : d = Here
  BY <1>0
<1>2. PICK f \in Name : f = server.name
  BY <1>0
<1>3. Typed /\ UNCHANGED <<up, down, closed, client, disk>>
  BY DEF RInv, Stat
<1>4. /\ disk[f] # Missing
      /\ server' = [server EXCEPT !.pc = IF disk[f] = <<>> THEN "send" ELSE "load",
                                  !.size = Len(disk[f])]
  BY <1>2 DEF Stat, Respond, Idle
<1>5. disk[f] \in Seq(Byte) /\ Len(disk[f]) \in Nat
  <2>1. disk[f] \in Seq(Byte)
    BY <1>4 DEF RInv, DiskOk
  <2> QED BY <2>1, LenProperties
<1>6. PICK l \in {"load", "send"} : /\ l = IF disk[f] = <<>> THEN "send" ELSE "load"
                                    /\ server' = [server EXCEPT !.pc = l, !.size = Len(disk[f])]
  BY <1>4
<1>7. server' \in ServerType
  BY <1>3, <1>5, <1>6 DEF Typed, ServerType
<1>8. server'.pc = l /\ server'.conn = server.conn /\ server'.name = f
      /\ server'.buf = <<>> /\ server'.size = Len(disk[f])
  BY <1>0, <1>2, <1>3, <1>6 DEF Typed, ServerType
<1>9. GoesOn(d)
  BY <1>0, <1>1, <1>3, <1>7, <1>8, NothingRead DEF Here
<1>10. ServerOk'
  <2>1. Servable(f)' <=> Servable(f)
    BY <1>3 DEF Servable
  <2>2. Servable(f) => Len(disk[f]) = Len(File[f])
    BY DEF Servable
  <2>3. l = "send" => disk[f] = <<>> /\ Len(disk[f]) = 0 /\ Len(<<>>) = 0
    BY <1>6, EmptySeq
  <2>4. l = "send" /\ Servable(f) => File[f] = <<>>
    BY <2>3 DEF Servable
  <2>5. Here' \in Conn \ closed'
    BY <1>0, <1>1, <1>3, <1>8 DEF Here
  <2>6. server'.pc = "send" =>
          /\ Len(server'.buf) = server'.size
          /\ Servable(server.name)' => server'.buf = File[server'.name]
    BY <1>8, <2>1, <2>3, <2>4
  <2> QED BY <1>8, <2>1, <2>2, <2>5, <2>6 DEF ServerOk, Working
<1>11. RequestOk(d)'
  BY <1>0, <1>1, <1>2, <1>3, <1>8, NameKept DEF Working, Here
<1> QED BY <1>9, <1>10, <1>11, GoesOnKeeps

(* What request_readfile leaves in file_buf.                                *)
LEMMA LoadedBytes ==
  ASSUME NEW bytes \in Seq(Byte), NEW size \in Nat, NEW buf \in Loaded(bytes, size)
  PROVE  /\ buf \in Seq(Byte) /\ Len(buf) = size
         /\ size = Len(bytes) => buf = bytes
<1>1. Len(bytes) \in Nat
  BY LenProperties
<1>2. CASE Len(bytes) >= size
  <2>1. buf = Taken(bytes, size) /\ size \in 0 .. Len(bytes)
    BY <1>1, <1>2 DEF Loaded
  <2>2. buf \in Seq(Byte) /\ Len(buf) = size /\ \A i \in 1 .. size : buf[i] = bytes[i]
    BY <2>1, CutInTwo
  <2> QED BY <2>2, SeqEqual
<1>3. CASE Len(bytes) < size
  <2>1. PICK rest \in [1 .. size - Len(bytes) -> Byte] : buf = bytes \o rest
    BY <1>1, <1>3 DEF Loaded
  <2>2. size - Len(bytes) \in Nat
    BY <1>1, <1>3
  <2>3. rest \in Seq(Byte) /\ Len(rest) = size - Len(bytes)
    BY <2>2
  <2>4. buf \in Seq(Byte) /\ Len(buf) = Len(bytes) + Len(rest)
    BY <2>1, <2>3, ConcatProperties
  <2> QED BY <1>1, <1>3, <2>3, <2>4
<1> QED BY <1>1, <1>2, <1>3

(* request_readfile: the buffer has the size announced, and is the file.    *)
LEMMA LoadGoesOn ==
  ASSUME RInv, Load, server'.pc # "crashed"
  PROVE  RInv'
<1>0. Here \in Conn /\ Here \notin closed /\ Serving(Here) /\ server.pc = "load"
      /\ server.name \in Name
  BY DEF RInv, ServerOk, Load, Serving, Working
<1>1. PICK d \in Conn : d = Here
  BY <1>0
<1>2. PICK f \in Name : f = server.name
  BY <1>0
<1>3. Typed /\ UNCHANGED <<up, down, closed, client, disk>>
  BY DEF RInv, Load, Crash, Idle
<1>4. PICK buf \in Loaded(disk[f], server.size) :
        disk[f] # Missing /\ server' = [server EXCEPT !.pc = "send", !.buf = buf]
  BY <1>2 DEF Load, Crash, Idle
<1>5. disk[f] \in Seq(Byte)
  BY <1>4 DEF RInv, DiskOk
<1>6. buf \in Seq(Byte) /\ Len(buf) = server.size /\ (server.size = Len(disk[f]) => buf = disk[f])
  BY <1>3, <1>4, <1>5, ServerFields, LoadedBytes
<1>7. server' \in ServerType
  BY <1>3, <1>4, <1>6 DEF Typed, ServerType
<1>8. server'.pc = "send" /\ server'.conn = server.conn /\ server'.name = f
      /\ server'.buf = buf /\ server'.size = server.size
  BY <1>2, <1>3, <1>4 DEF Typed, ServerType
<1>9. GoesOn(d)
  BY <1>0, <1>1, <1>3, <1>7, <1>8, NothingRead DEF Here
<1>10. ServerOk'
  <2>1. Servable(f)' <=> Servable(f)
    BY <1>3 DEF Servable
  <2>2. Servable(f) => buf = File[f]
    BY <1>0, <1>2, <1>6 DEF RInv, ServerOk, Servable
  <2>3. Here' \in Conn \ closed'
    BY <1>0, <1>1, <1>3, <1>8 DEF Here
  <2> QED BY <1>6, <1>8, <2>1, <2>2, <2>3 DEF ServerOk, Working
<1>11. RequestOk(d)'
  BY <1>0, <1>1, <1>2, <1>3, <1>8, NameKept DEF Working, Here
<1> QED BY <1>9, <1>10, <1>11, GoesOnKeeps

(* Nothing of a message has been written yet.                               *)
LEMMA NothingSent ==
  ASSUME NEW cl, NEW b, NEW m, Len(m) \in Nat, cl.pc \in {"send", "status"}, cl.body = <<>>
  PROVE  ReadTo(cl, b, 0) /\ Part(<<>>, m, 0)
<1>1. Len(<<>>) = 0
  BY EmptySeq
<1> QED BY <1>1 DEF ReadTo, Part

(* A message that is still to be written is all of it.                      *)
LEMMA WholePart == ASSUME NEW m, Len(m) \in Nat PROVE Part(m, m, 0)
BY DEF Part

(* A reply begins: a client that waits for it has read nothing so far.      *)
LEMMA RespondKeeps ==
  ASSUME RInv, NEW d \in Conn, Here = d, Serving(d), server.pc # "reply",
         NEW s \in Status, NEW b \in Seq(Byte), Respond(Message(s, b)),
         UNCHANGED <<up, down, closed, client, disk>>,
         client[d].pc \in Active /\ Servable(client[d].want) => b = File[client[d].want]
  PROVE  RInv'
<1> DEFINE m == Message(s, b)
<1>1. m \in Seq(Token) /\ Len(m) \in Nat
  BY MessageByToken, LenProperties DEF MessageIs
<1> HIDE DEF m
<1>2. server' = [Idle EXCEPT !.pc = "reply", !.conn = d, !.out = m]
  BY DEF Respond, m
<1>3. server' \in ServerType /\ server'.pc = "reply" /\ server'.conn = d /\ server'.out = m
  BY <1>1, <1>2, RecordsTyped DEF ServerType
<1>4. Typed'
  BY <1>3 DEF RInv, Typed
<1>5. d \notin closed /\ ~Dead /\ Serving(d)'
  BY <1>3 DEF RInv, ServerOk, Serving, Here, Dead
<1>6. ServerOk'
  BY <1>3, <1>5 DEF ServerOk, Working, Here
<1>7. NewOk(d)'
  BY DEF RInv, ConnOk, NewOk
<1>8. RequestOk(d)'
  BY <1>3, <1>5 DEF RInv, ConnOk, RequestOk, Working
<1>9. ReplyOk(d)'
  <2>1. SUFFICES ASSUME client[d].pc \in Active PROVE Answered(d)' /\ Served(d)'
    BY DEF ReplyOk
  <2>2. Fresh(d)
    BY <1>5, <2>1 DEF RInv, ConnOk, ReplyOk, Served
  <2>3. ReadTo(client[d], b, 0) /\ Part(<<>>, m, 0)
    BY <1>1, <2>2, NothingSent DEF Fresh
  <2>4. Part(m, m, 0)
    BY <1>1, WholePart
  <2>5. Sent(d, 0) = 0 /\ Len(<<>>) = 0
    BY <2>2, EmptySeq DEF Sent, Fresh
  <2>6. Sent(d, 0)' = 0
    BY <2>5 DEF Sent
  <2>7. Servable(client[d].want)' => b = File[client[d].want]
    BY <2>1 DEF Servable
  <2>8. Flow(d, m, b, 0)'
    <3>1. Part(client[d].unread, m, 0) /\ Part(down[d], m, 0 + Len(client[d].unread))
      BY <2>2, <2>3, <2>5 DEF Fresh
    <3> QED BY <1>1, <1>3, <1>5, <2>3, <2>4, <2>6, <2>7, <3>1 DEF Flow
  <2>9. Answered(d)'
    BY <2>8 DEF Answered, m
  <2> QED BY <1>3, <1>5, <2>9 DEF Served
<1>10. ConnOk(d)'
  BY <1>7, <1>8, <1>9 DEF ConnOk
<1>11. \A c \in Conn : ConnOk(c)'
  <2>1. DiskKept /\ \A c \in Conn : c # d => Kept(c)
    BY SameDisk DEF Kept
  <2> QED BY <1>5, <1>10, <2>1, OneServed
<1>12. DiskOk'
  BY SameDisk DEF RInv
<1> QED BY <1>4, <1>6, <1>11, <1>12 DEF RInv

(* request_error's page.                                                    *)
LEMMA ErrorPage ==
  ASSUME NEW s
  PROVE  <<1, 10>> \in Seq(Byte) /\ ErrorReply(s) = Message(s, <<1, 10>>)
BY DEF ErrorReply, Message, Byte

(* request_init, an unknown method (of a client that is gone) included.     *)
LEMMA ReadRequestLineKeeps ==
  ASSUME RInv, ReadRequestLine
  PROVE  RInv'
<1>1. CASE server'.pc = "first"
  BY <1>1, ReadRequestLineGoesOn
<1>2. CASE server'.pc # "first"
  <2>0. Here \in Conn /\ Serving(Here) /\ server.pc = "line"
    BY DEF RInv, ServerOk, ReadRequestLine, Serving
  <2>1. PICK d \in Conn : d = Here
    BY <2>0
  <2>2. ~IsWhole(server.unread) /\ Respond(ErrorReply(501))
    <3>1. ASSUME NEW f \in Name, server' = [PastLine EXCEPT !.pc = "first", !.name = f]
          PROVE  FALSE
      <4>1. PastLine \in ServerType
        BY PastLineFields DEF RInv
      <4>2. server'.pc = "first"
        BY <3>1, <4>1 DEF ServerType
      <4> QED BY <1>2, <4>2
    <3> QED BY <3>1 DEF ReadRequestLine
  <2>3. client[d].pc \notin Active
    BY <2>1, <2>2 DEF ReadRequestLine, Returns, ServerEof, Gone, Active, Waiting
  <2>4. UNCHANGED <<up, down, closed, client, disk>>
    BY DEF ReadRequestLine
  <2>5. Respond(Message(501, <<1, 10>>)) /\ <<1, 10>> \in Seq(Byte) /\ 501 \in Status
    BY <2>2, ErrorPage DEF Status
  <2> QED BY <2>0, <2>1, <2>3, <2>4, <2>5, RespondKeeps
<1> QED BY <1>1, <1>2

(* request_readfile, an error page for what cannot be given out included.   *)
LEMMA StatKeeps ==
  ASSUME RInv, Stat
  PROVE  RInv'
<1>1. CASE server'.pc # "reply"
  BY <1>1, StatGoesOn
<1>2. CASE server'.pc = "reply"
  <2>0. Here \in Conn /\ Here \notin closed /\ Serving(Here) /\ server.pc = "file" /\ ~Dead
        /\ server.name \in Name
    BY DEF RInv, ServerOk, Stat, Serving, Working, Dead
  <2>1. PICK d \in Conn : d = Here
    BY <2>0
  <2>2. (server.name \in Hidden \/ disk[server.name] = Missing) /\ Respond(ErrorReply(404))
    <3>1. SUFFICES ASSUME ~(server.name \in Hidden \/ disk[server.name] = Missing) PROVE FALSE
      BY DEF Stat
    <3>2. PICK n : \E l \in {"send", "load"} : server' = [server EXCEPT !.pc = l, !.size = n]
      BY <3>1 DEF Stat
    <3> QED BY <1>2, <3>2 DEF RInv, Typed, ServerType
  <2>3. client[d].pc \in Active => client[d].want = server.name
    BY <2>0, <2>1 DEF RInv, ConnOk, RequestOk, Working
  <2>4. ~Servable(server.name)
    BY <2>0, <2>2, RequestsAssumption DEF Servable
  <2>5. UNCHANGED <<up, down, closed, client, disk>>
    BY DEF Stat
  <2>6. Respond(Message(404, <<1, 10>>)) /\ <<1, 10>> \in Seq(Byte) /\ 404 \in Status
    BY <2>2, ErrorPage DEF Status
  <2> QED BY <2>0, <2>1, <2>3, <2>4, <2>5, <2>6, RespondKeeps
<1> QED BY <1>1, <1>2

(* request_sendfile begins to write the file.                               *)
LEMMA ComposeKeeps ==
  ASSUME RInv, Compose
  PROVE  RInv'
<1>0. Here \in Conn /\ Here \notin closed /\ Serving(Here) /\ server.pc = "send" /\ ~Dead
  BY DEF RInv, ServerOk, Compose, Serving, Dead
<1>1. PICK d \in Conn : d = Here
  BY <1>0
<1>2. server.buf \in Seq(Byte)
  BY ServerFields DEF RInv
<1>3. Respond(Message(200, server.buf)) /\ 200 \in Status
  BY DEF Compose, Message, Reply, Status
<1>4. client[d].pc \in Active => client[d].want = server.name
  BY <1>0, <1>1 DEF RInv, ConnOk, RequestOk, Working
<1>5. Servable(server.name) => server.buf = File[server.name]
  BY <1>0 DEF RInv, ServerOk
<1>6. PICK b \in Seq(Byte) : b = server.buf
  BY <1>2
<1> QED BY <1>0, <1>1, <1>3, <1>4, <1>5, <1>6, RespondKeeps DEF Compose

(* The process ends: whoever waits has read the beginning of some reply, or *)
(* nothing.                                                                 *)
LEMMA CrashKeeps ==
  ASSUME RInv, ~Dead, Crash, UNCHANGED <<down, closed, client, disk>>
  PROVE  RInv'
<1>1. server' \in ServerType /\ server'.pc = "crashed"
  BY RecordsTyped DEF Crash, ServerType
<1>2. up' = [c \in Conn |-> <<>>]
  BY DEF Crash
<1>3. Typed'
  <2>1. <<>> \in Seq(Token) /\ Len(<<>>) = 0 /\ WireCap \in Nat
    BY EmptySeq, RequestsAssumption
  <2>2. up' \in [Conn -> Seq(Token)] /\ \A c \in Conn : Len(up'[c]) <= WireCap
    BY <1>2, <2>1
  <2> QED BY <1>1, <2>2 DEF RInv, Typed
<1>4. DiskOk'
  BY SameDisk DEF RInv
<1>5. ServerOk'
  BY <1>1 DEF ServerOk, Working
<1>6. ASSUME NEW c \in Conn PROVE ConnOk(c)'
  <2>0. Dead' /\ ~Serving(c)'
    BY <1>1 DEF Dead, Serving
  <2>1. NewOk(c)'
    BY <1>2, <2>0 DEF RInv, ConnOk, NewOk
  <2>2. RequestOk(c)'
    BY <2>0 DEF RInv, ConnOk, RequestOk
  <2>3. ReplyOk(c)'
    <3>1. SUFFICES ASSUME client[c].pc \in Active PROVE Answered(c)'
      BY <2>0 DEF ReplyOk, Served
    <3>2. CASE Served(c)
      <4>1. PICK s \in Status, b \in Seq(Byte), p \in Nat : Flow(c, Message(s, b), b, p)
        BY <3>1, <3>2 DEF RInv, ConnOk, ReplyOk, Drained, Answered
      <4>2. Flow(c, Message(s, b), b, p)'
        BY <2>0, <4>1 DEF Flow, Sent, Servable
      <4> QED BY <4>2 DEF Answered
    <3>3. CASE ~Served(c)
      <4>1. Fresh(c) /\ c \notin closed /\ client[c].want \in Name
        BY <3>1, <3>3 DEF RInv, ConnOk, ReplyOk, RequestOk, Served
      <4>2. PICK b \in Seq(Byte) : b = File[client[c].want]
        BY <4>1, RequestsAssumption
      <4> DEFINE m == Message(200, b)
      <4>3. 200 \in Status /\ Len(m) \in Nat
        BY MessageByToken, LenProperties DEF Status, MessageIs
      <4> HIDE DEF m
      <4>4. ReadTo(client[c], b, 0) /\ Part(<<>>, m, 0)
        BY <4>1, <4>3, NothingSent DEF Fresh
      <4>5. Part(client[c].unread, m, 0) /\ Part(down[c], m, 0 + Len(client[c].unread))
        BY <4>1, <4>4, EmptySeq DEF Fresh
      <4>6. Flow(c, m, b, 0)'
        BY <2>0, <4>1, <4>2, <4>4, <4>5 DEF Flow
      <4> QED BY <4>3, <4>6 DEF Answered, m
    <3> QED BY <3>2, <3>3
  <2> QED BY <2>1, <2>2, <2>3 DEF ConnOk
<1> QED BY <1>3, <1>4, <1>5, <1>6 DEF RInv

(* request_readfile, the end of the process when the file is gone included. *)
LEMMA LoadKeeps ==
  ASSUME RInv, Load
  PROVE  RInv'
<1>1. CASE server'.pc # "crashed"
  BY <1>1, LoadGoesOn
<1>2. CASE server'.pc = "crashed"
  <2>1. server.pc = "load" /\ ~Dead
    BY DEF Load, Dead
  <2>2. Crash
    <3>1. ASSUME NEW buf, server' = [server EXCEPT !.pc = "send", !.buf = buf] PROVE FALSE
      BY <1>2, <3>1 DEF RInv, Typed, ServerType
    <3> QED BY <3>1 DEF Load
  <2>3. UNCHANGED <<down, closed, client, disk>>
    BY DEF Load
  <2> QED BY <2>1, <2>2, <2>3, CrashKeeps
<1> QED BY <1>1, <1>2

(* What the server thread leaves to be written.                             *)
LEMMA ResumeTyped ==
  ASSUME RInv, NEW n \in 1 .. Len(server.out), server' = [server EXCEPT !.out = Resume(@, n)]
  PROVE  /\ server' \in ServerType /\ server'.out = Drop(server.out, n)
         /\ server'.pc = server.pc /\ server'.conn = server.conn
<1>1. server.out \in Seq(Token) /\ Len(server.out) \in Nat
  BY ServerFields, LenProperties DEF RInv
<1>2. Drop(server.out, n) \in Seq(Token)
  <2>1. n \in 0 .. Len(server.out)
    BY <1>1
  <2> QED BY <1>1, <2>1, CutInTwo
<1> QED BY <1>2 DEF RInv, Typed, ServerType, Resume

(* A reply is being written: the thread knows nothing but that.             *)
LEMMA ReplyServerOk ==
  ASSUME RInv, server.pc = "reply", server'.pc = "reply", server'.conn = server.conn,
         UNCHANGED closed
  PROVE  ServerOk'
BY DEF RInv, ServerOk, Here, Working

(* A write to a client that is gone.                                        *)
LEMMA WriteToNobodyKeeps ==
  ASSUME RInv, WriteToNobody
  PROVE  RInv'
<1>0. Here \in Conn /\ Here \notin closed /\ Serving(Here) /\ ~Dead
  BY DEF RInv, ServerOk, WriteToNobody, Serving, Dead
<1>1. CASE Crash
  BY <1>0, <1>1, CrashKeeps DEF WriteToNobody
<1>2. CASE ~Crash
  <2>1. PICK d \in Conn : d = Here
    BY <1>0
  <2>2. server.out \in Seq(Token) /\ DOMAIN server.out = 1 .. Len(server.out)
    BY ServerFields, LenProperties DEF RInv
  <2>3. PICK n \in 1 .. Len(server.out) : server' = [server EXCEPT !.out = Resume(@, n)]
    BY <1>2, <2>2 DEF WriteToNobody
  <2>4. server' \in ServerType /\ server'.pc = "reply" /\ server'.conn = server.conn
    BY <2>3, ResumeTyped DEF WriteToNobody
  <2>5. UNCHANGED <<up, down, closed, client, disk>> /\ server.pc = "reply"
    BY <1>2 DEF WriteToNobody
  <2>6. Typed' /\ ServerOk' /\ DiskOk'
    BY <2>4, <2>5, ReplyServerOk, SameDisk DEF RInv, Typed
  <2>7. client[d].pc \notin Active \cup {"new"}
    BY <2>1 DEF WriteToNobody, Gone, Active, Waiting
  <2>8. ConnOk(d)'
    BY <2>5, <2>7 DEF ConnOk, NewOk, RequestOk, ReplyOk
  <2>9. Serving(d) /\ Serving(d)' /\ DiskKept /\ \A c \in Conn : c # d => Kept(c)
    BY <1>0, <2>1, <2>4, <2>5, SameDisk DEF Kept, Serving, Here
  <2>10. \A c \in Conn : ConnOk(c)'
    BY <1>0, <2>8, <2>9, OneServed
  <2> QED BY <2>6, <2>10 DEF RInv
<1> QED BY <1>1, <1>2

(* write: the part that was taken goes to the wire, behind what is there.   *)
LEMMA ServerWriteKeeps ==
  ASSUME RInv, ServerWrite
  PROVE  RInv'
<1>0. Here \in Conn /\ Here \notin closed /\ Serving(Here) /\ ~Dead /\ server.pc = "reply"
  BY DEF RInv, ServerOk, ServerWrite, Serving, Dead
<1>1. PICK d \in Conn : d = Here
  BY <1>0
<1>2. /\ server.out \in Seq(Token) /\ Len(server.out) \in Nat
      /\ down[d] \in Seq(Token) /\ Len(down[d]) \in Nat /\ Len(down[d]) <= WireCap
      /\ client[d].unread \in Seq(Token) /\ Len(client[d].unread) \in Nat
      /\ WireCap \in Nat
  BY ServerFields, ClientFields, LenProperties, RequestsAssumption DEF RInv, Typed
<1>3. PICK n \in Fits(server.out, down[d]) :
        /\ server' = [server EXCEPT !.out = Resume(@, n)]
        /\ down' = [down EXCEPT ![d] = @ \o Taken(server.out, n)]
  BY <1>1 DEF ServerWrite
<1>4. n \in 1 .. Len(server.out) /\ Len(down[d]) + n <= WireCap
  BY <1>2 DEF Fits
<1>5. Moved(Token, down[d], server.out, n)
  BY <1>2, <1>4, MovedOn
<1> DEFINE wire == down[d] \o Taken(server.out, n)
           rest == Drop(server.out, n)
<1> HIDE DEF wire, rest
<1>6. wire \in Seq(Token) /\ Len(wire) = Len(down[d]) + n
      /\ rest \in Seq(Token) /\ Len(rest) = Len(server.out) - n
  BY <1>5 DEF Moved, wire, rest
<1>7. server' \in ServerType /\ server'.pc = "reply" /\ server'.conn = d /\ server'.out = rest
  BY <1>0, <1>1, <1>3, <1>4, ResumeTyped DEF rest, Here
<1>8. down' = [down EXCEPT ![d] = wire] /\ UNCHANGED <<up, closed, client, disk>>
  BY <1>3 DEF wire, ServerWrite
<1>9. Typed'
  <2>1. down' \in [Conn -> Seq(Token)] /\ \A c \in Conn : Len(down'[c]) <= WireCap
    BY <1>2, <1>4, <1>6, <1>8 DEF RInv, Typed
  <2> QED BY <1>7, <1>8, <2>1 DEF RInv, Typed
<1>10. ServerOk' /\ DiskOk'
  BY <1>0, <1>1, <1>7, <1>8, ReplyServerOk, SameDisk DEF RInv, Here
<1>11. down'[d] = wire /\ (\A c \in Conn : c # d => Kept(c)) /\ DiskKept
  BY <1>8, SameDisk DEF RInv, Typed, Kept
<1>12. Serving(d)' /\ Serving(d) /\ d \notin closed
  BY <1>0, <1>1, <1>7 DEF Serving, Here
<1>13. ConnOk(d)'
  <2>1. NewOk(d)'
    BY <1>8, <1>12 DEF RInv, ConnOk, NewOk
  <2>2. RequestOk(d)'
    BY <1>7, <1>8, <1>12 DEF RInv, ConnOk, RequestOk, Working
  <2>3. ReplyOk(d)'
    <3>1. SUFFICES ASSUME client[d].pc \in Active PROVE Answered(d)' /\ Served(d)'
      BY <1>8 DEF ReplyOk
    <3>2. PICK s \in Status, b \in Seq(Byte), p \in Nat : Flow(d, Message(s, b), b, p)
      BY <1>0, <1>12, <3>1 DEF RInv, ConnOk, ReplyOk, Drained, Answered, Served
    <3> DEFINE m == Message(s, b)
               q == p + Len(client[d].unread)
    <3>3. Len(m) \in Nat
      BY MessageByToken, LenProperties DEF MessageIs
    <3> HIDE DEF m
    <3>4. Part(down[d], m, q) /\ Part(server.out, m, q + Len(down[d])) /\ q \in Nat
          /\ q + Len(down[d]) + Len(server.out) = Len(m)
      <4>1. Sent(d, p) = q + Len(down[d])
        BY DEF Sent
      <4>2. q \in Nat
        BY <1>2
      <4> HIDE DEF q
      <4>3. /\ Part(down[d], m, q) /\ Part(server.out, m, Sent(d, p))
            /\ Sent(d, p) + Len(server.out) = Len(m)
        BY <1>12, <3>2 DEF Flow, m, q
      <4> QED BY <4>1, <4>2, <4>3
    <3> HIDE DEF q
    <3>5. /\ Part(Taken(server.out, n), m, q + Len(down[d]))
          /\ Part(rest, m, q + Len(down[d]) + n)
      <4>1. n \in 0 .. Len(server.out) /\ q + Len(down[d]) \in Nat
        BY <1>2, <1>4, <3>4
      <4> QED BY <1>2, <3>3, <3>4, <4>1, CutPart DEF rest
    <3>6. Part(wire, m, q)
      <4>1. Taken(server.out, n) \in Seq(Token)
        <5>1. n \in 0 .. Len(server.out)
          BY <1>2, <1>4
        <5> QED BY <1>2, <5>1, CutInTwo
      <4> QED BY <1>2, <3>3, <3>4, <3>5, <4>1, JoinParts DEF wire
    <3>7. Sent(d, p)' = q + Len(wire)
      BY <1>8, <1>11 DEF Sent, q
    <3>8. q + Len(wire) = q + Len(down[d]) + n /\ q + Len(wire) + Len(rest) = Len(m)
      <4>1. PICK l \in Nat, o \in Nat : l = Len(down[d]) /\ o = Len(server.out)
        BY <1>2
      <4>2. Len(wire) = l + n /\ Len(rest) = o - n
        BY <1>6, <4>1
      <4>3. q + l + o = Len(m)
        BY <3>4, <4>1
      <4>4. n \in Nat
        BY <1>4
      <4>5. q + Len(wire) = q + l + n
        BY <3>4, <4>1, <4>2, <4>4
      <4>6. q + Len(wire) + Len(rest) = Len(m)
        <5>1. q + Len(wire) + Len(rest) = (q + l + n) + (o - n)
          BY <4>2, <4>5
        <5>2. (q + l + n) + (o - n) = q + l + o
          <6>1. q \in Nat
            BY <3>4
          <6> QED BY ONLY <6>1, <4>4, l \in Nat, o \in Nat
        <5> QED BY <5>1, <5>2, <4>3
      <4> QED BY <4>1, <4>5, <4>6
    <3>9. Flow(d, m, b, p)'
      <4>1. ReadTo(client'[d], b, p) /\ Part(client'[d].unread, m, p)
        BY <1>8, <3>2 DEF Flow, m
      <4>2. Part(down'[d], m, p + Len(client'[d].unread))
        BY <1>8, <1>11, <3>6 DEF q
      <4>3. Part(server'.out, m, Sent(d, p)') /\ Sent(d, p)' + Len(server'.out) = Len(m)
        BY <1>7, <3>5, <3>7, <3>8
      <4>4. d \notin closed' /\ (Servable(client[d].want)' => b = File[client[d].want])
        BY <1>8, <1>12, <3>2 DEF Flow, Servable
      <4> QED BY <4>1, <4>2, <4>3, <4>4, <1>8 DEF Flow
    <3> QED BY <1>7, <1>12, <3>9 DEF Answered, Served, m
  <2> QED BY <2>1, <2>2, <2>3 DEF ConnOk
<1>14. \A c \in Conn : ConnOk(c)'
  BY <1>0, <1>11, <1>12, <1>13, OneServed
<1> QED BY <1>9, <1>10, <1>14 DEF RInv

(* close: all of the message has been written.                              *)
LEMMA DestroyKeeps ==
  ASSUME RInv, Destroy
  PROVE  RInv'
<1>0. Here \in Conn /\ Here \notin closed /\ Serving(Here) /\ ~Dead /\ server.pc = "reply"
  BY DEF RInv, ServerOk, Destroy, Serving, Dead
<1>1. PICK d \in Conn : d = Here
  BY <1>0
<1>2. server' = Idle /\ closed' = closed \cup {d} /\ UNCHANGED <<up, down, client, disk>>
      /\ server.out = <<>>
  BY <1>1 DEF Destroy
<1>3. Typed' /\ DiskOk'
  BY <1>2, RecordsTyped, SameDisk DEF RInv, Typed
<1>4. server'.pc = "idle"
  BY <1>2 DEF Idle
<1>5. ServerOk'
  BY <1>2, <1>4 DEF ServerOk, Working
<1>6. ConnOk(d)'
  <2>1. NewOk(d)'
    BY <1>0, <1>1, <1>2 DEF RInv, ConnOk, NewOk
  <2>2. RequestOk(d)'
    BY <1>2 DEF RInv, ConnOk, RequestOk
  <2>3. ReplyOk(d)'
    <3>1. SUFFICES ASSUME client[d].pc \in Active PROVE Answered(d)' /\ Served(d)'
      BY <1>2 DEF ReplyOk
    <3>2. PICK s \in Status, b \in Seq(Byte), p \in Nat : Flow(d, Message(s, b), b, p)
      BY <1>0, <1>1, <3>1 DEF RInv, ConnOk, ReplyOk, Drained, Answered, Served
    <3>3. Sent(d, p) = Len(Message(s, b))
      <4>1. Sent(d, p) + Len(server.out) = Len(Message(s, b)) /\ Len(server.out) = 0
        BY <1>0, <1>1, <1>2, <3>2, EmptySeq DEF Flow
      <4>2. Sent(d, p) \in Nat
        BY ClientFields, LenProperties DEF RInv, Typed, Sent
      <4> QED BY <4>1, <4>2
    <3>4. Flow(d, Message(s, b), b, p)'
      BY <1>2, <1>4, <3>2, <3>3 DEF Flow, Sent, Serving, Servable
    <3> QED BY <1>2, <3>4 DEF Answered, Served
  <2> QED BY <2>1, <2>2, <2>3 DEF ConnOk
<1>7. \A c \in Conn : c # d => Kept(c)
  BY <1>2 DEF Kept
<1>8. \A c \in Conn : ConnOk(c)'
  <2>1. DiskKept
    BY <1>2, SameDisk
  <2>2. Serving(d)
    BY <1>0, <1>1
  <2> QED BY <1>0, <1>4, <1>6, <1>7, <2>1, <2>2, OneServed
<1> QED BY <1>3, <1>5, <1>8 DEF RInv

(* A step of one client.                                                    *)
ClientMoves(d, cl) ==
  /\ client' = [client EXCEPT ![d] = cl] /\ cl \in ClientType
  /\ UNCHANGED <<closed, server, disk>>
  /\ up' \in [Conn -> Seq(Token)] /\ down' \in [Conn -> Seq(Token)]
  /\ \A c \in Conn : Len(up'[c]) <= WireCap /\ Len(down'[c]) <= WireCap
  /\ \A c \in Conn : c # d => up'[c] = up[c] /\ down'[c] = down[c]

(* Such a step keeps the invariant if it keeps what holds of its            *)
(* connection.                                                              *)
LEMMA OneClient ==
  ASSUME RInv, NEW d \in Conn, NEW cl, ClientMoves(d, cl), ConnOk(d)'
  PROVE  RInv'
<1>1. Typed'
  BY DEF RInv, Typed, ClientMoves
<1>2. DiskOk' /\ DiskKept
  BY SameDisk DEF RInv, ClientMoves
<1>3. ServerOk'
  BY DEF RInv, ServerOk, Working, Here, Servable, ClientMoves
<1>4. ASSUME NEW c \in Conn, c # d PROVE ConnOk(c)'
  <2>1. Kept(c)
    BY <1>4 DEF Kept, ClientMoves, RInv, Typed
  <2>2. ServerElsewhere(c)
    BY DEF ServerElsewhere, ClientMoves
  <2> QED BY <1>2, <2>1, <2>2, Elsewhere DEF RInv
<1> QED BY <1>1, <1>2, <1>3, <1>4 DEF RInv

(* The wires are left alone.                                                *)
LEMMA ClientAlone ==
  ASSUME RInv, NEW d \in Conn, NEW cl \in ClientType,
         client' = [client EXCEPT ![d] = cl], UNCHANGED <<up, down, closed, server, disk>>
  PROVE  ClientMoves(d, cl) /\ client'[d] = cl
BY DEF ClientMoves, RInv, Typed

(* client_send: the first token of what is to be written names the file.    *)
LEMMA ConnectKeeps ==
  ASSUME RInv, NEW d \in Conn, Connect(d)
  PROVE  RInv'
<1>1. /\ client[d] = NewClient /\ d \notin closed /\ ~Serving(d) /\ ~Dead
      /\ up[d] = <<>> /\ down[d] = <<>> /\ UNCHANGED <<up, down, closed, server, disk>>
  BY DEF Connect, RInv, ConnOk, NewOk
<1>2. PICK f \in Name :
        client' = [client EXCEPT ![d].pc = "send", ![d].want = f, ![d].out = Request(f)]
  BY DEF Connect
<1>3. Request(f) \in Seq(Token) /\ Request(f) # <<>> /\ Request(f)[1] = <<"get", f>>
  <2>1. <<"get", f>> \in Token /\ <<"host", 0>> \in Token /\ EOL \in Token
    BY DEF Token, EOL
  <2> QED BY <2>1 DEF Request
<1>4. PICK out \in Seq(Token) : out = Request(f) /\ out # <<>> /\ out[1] = <<"get", f>>
  BY <1>3
<1> DEFINE cl == [NewClient EXCEPT !.pc = "send", !.want = f, !.out = out]
<1>5. client' = [client EXCEPT ![d] = cl]
  BY <1>1, <1>2, <1>4 DEF RInv, Typed
<1>6. /\ cl \in ClientType /\ cl.pc = "send" /\ cl.want = f /\ cl.out = out
      /\ cl.body = <<>> /\ cl.unread = <<>>
  BY RecordsTyped DEF NewClient, ClientType, Active
<1> HIDE DEF cl
<1>7. ClientMoves(d, cl) /\ client'[d] = cl
  BY <1>1, <1>5, <1>6, ClientAlone
<1>8. ConnOk(d)'
  <2>1. NewOk(d)'
    BY <1>6, <1>7 DEF NewOk
  <2>2. RequestOk(d)'
    BY <1>1, <1>4, <1>6, <1>7 DEF RequestOk, FirstIs, Asks, Serving, Here
  <2>3. ReplyOk(d)'
    BY <1>1, <1>6, <1>7 DEF ReplyOk, Served, Fresh, Serving, Here, Dead
  <2> QED BY <2>1, <2>2, <2>3 DEF ConnOk
<1> QED BY <1>7, <1>8, OneClient

(* A client that has ended.                                                 *)
LEMMA EndKeeps ==
  ASSUME RInv, NEW d \in Conn, NEW how \in Ended, End(d, how),
         UNCHANGED <<up, closed, server, disk>>,
         down' = down \/ down' = [down EXCEPT ![d] = <<>>]
  PROVE  RInv'
<1> DEFINE cl == [NewClient EXCEPT !.pc = how]
<1>1. cl \in ClientType /\ cl.pc = how
  BY RecordsTyped DEF ClientType, Ended
<1> HIDE DEF cl
<1>2. client' = [client EXCEPT ![d] = cl] /\ client'[d] = cl
  BY DEF End, cl, RInv, Typed
<1>3. down' \in [Conn -> Seq(Token)] /\ (\A c \in Conn : Len(down'[c]) <= WireCap)
      /\ \A c \in Conn : c # d => down'[c] = down[c]
  <2>1. <<>> \in Seq(Token) /\ Len(<<>>) <= WireCap
    BY EmptySeq, RequestsAssumption
  <2>2. CASE down' = down
    BY <2>2 DEF RInv, Typed
  <2>3. CASE down' = [down EXCEPT ![d] = <<>>]
    BY <2>1, <2>3 DEF RInv, Typed
  <2> QED BY <2>2, <2>3
<1>4. ClientMoves(d, cl)
  BY <1>1, <1>2, <1>3 DEF ClientMoves, RInv, Typed
<1>5. ConnOk(d)'
  BY <1>1, <1>2 DEF ConnOk, NewOk, RequestOk, ReplyOk, Ended, Active, Waiting
<1> QED BY <1>4, <1>5, OneClient

(* A client whose read or write fails.                                      *)
LEMMA ClientFailsKeeps ==
  ASSUME RInv, NEW d \in Conn, ClientFails(d) PROVE RInv'
BY EndKeeps DEF ClientFails, Ended

(* A client that is killed.                                                 *)
LEMMA LeaveKeeps ==
  ASSUME RInv, NEW d \in Conn, Leave(d) PROVE RInv'
<1>1. PICK how \in {"left", "cut"} : End(d, how)
  BY DEF Leave
<1> QED BY <1>1, EndKeeps DEF Leave, Ended

(* write of a client: its request stays in order.                           *)
LEMMA ClientWriteKeeps ==
  ASSUME RInv, NEW d \in Conn, ClientWrite(d)
  PROVE  RInv'
<1>1. client[d].pc = "send" /\ ~Dead /\ UNCHANGED <<down, closed, server, disk>>
  BY DEF ClientWrite
<1>2. /\ client[d].out \in Seq(Token) /\ Len(client[d].out) \in Nat
      /\ up[d] \in Seq(Token) /\ Len(up[d]) \in Nat /\ WireCap \in Nat /\ client[d] \in ClientType
  BY ClientFields, LenProperties, RequestsAssumption DEF RInv, Typed
<1>3. PICK n \in Fits(client[d].out, up[d]) :
        /\ client' = [client EXCEPT ![d].out = Drop(@, n),
                                    ![d].pc = IF n = Len(client[d].out) THEN "status" ELSE @]
        /\ up' = [up EXCEPT ![d] = @ \o Taken(client[d].out, n)]
  BY DEF ClientWrite
<1>4. n \in 1 .. Len(client[d].out) /\ Len(up[d]) + n <= WireCap
  BY <1>2 DEF Fits
<1>5. Moved(Token, up[d], client[d].out, n)
  BY <1>2, <1>4, MovedOn
<1> DEFINE wire == up[d] \o Taken(client[d].out, n)
           rest == Drop(client[d].out, n)
<1> HIDE DEF wire, rest
<1>6. wire \in Seq(Token) /\ Len(wire) <= WireCap /\ rest \in Seq(Token)
  <2>1. wire \in Seq(Token) /\ Len(wire) = Len(up[d]) + n /\ rest \in Seq(Token)
    BY <1>5 DEF Moved, wire, rest
  <2> QED BY <1>4, <2>1
<1>7. PICK l \in {"send", "status"} :
        client' = [client EXCEPT ![d] = [client[d] EXCEPT !.out = rest, !.pc = l]]
  <2>1. PICK l \in {"send", "status"} :
          l = IF n = Len(client[d].out) THEN "status" ELSE client[d].pc
    BY <1>1
  <2>2. client' = [client EXCEPT ![d] = [client[d] EXCEPT !.out = rest, !.pc = l]]
    BY <1>3, <2>1 DEF rest, RInv, Typed
  <2> QED BY <2>2
<1> DEFINE cl == [client[d] EXCEPT !.out = rest, !.pc = l]
<1>8. /\ cl \in ClientType /\ cl.pc = l /\ cl.out = rest /\ cl.want = client[d].want
      /\ cl.unread = client[d].unread /\ cl.body = client[d].body
      /\ cl.length = client[d].length /\ cl.csum = client[d].csum
  BY <1>2, <1>6 DEF ClientType, Active, Waiting
<1> HIDE DEF cl
<1>9. up' = [up EXCEPT ![d] = wire] /\ client' = [client EXCEPT ![d] = cl]
  BY <1>3, <1>7 DEF wire, cl
<1>10. up'[d] = wire /\ client'[d] = cl
  BY <1>9 DEF RInv, Typed
<1>11. ClientMoves(d, cl)
  <2>1. up' \in [Conn -> Seq(Token)] /\ \A c \in Conn : Len(up'[c]) <= WireCap
    BY <1>6, <1>9 DEF RInv, Typed
  <2>2. \A c \in Conn : c # d => up'[c] = up[c] /\ down'[c] = down[c]
    BY <1>1, <1>9 DEF RInv, Typed
  <2> QED BY <1>1, <1>8, <1>9, <2>1, <2>2 DEF ClientMoves, RInv, Typed
<1>12. ConnOk(d)'
  <2>1. NewOk(d)'
    BY <1>8, <1>10 DEF NewOk
  <2>2. RequestOk(d)'
    <3>1. ASSUME NEW read, FirstIs(Asks(d), read, up[d], client[d].out)
          PROVE  FirstIs(Asks(d), read, wire, rest)
      BY <1>2, <1>4, <3>1, Written DEF wire, rest
    <3>2. Asks(d)' = Asks(d)
      BY <1>8, <1>10 DEF Asks
    <3>3. RequestOk(d) /\ client[d].pc \in Active
      BY <1>1 DEF RInv, ConnOk, Active
    <3>4. (Dead' <=> Dead) /\ (Serving(d)' <=> Serving(d)) /\ (Working' <=> Working)
          /\ server' = server /\ closed' = closed
      BY <1>1 DEF Dead, Serving, Working, Here
    <3> QED BY <1>8, <1>10, <3>1, <3>2, <3>3, <3>4 DEF RequestOk
  <2>3. ReplyOk(d)'
    <3>0. client[d].pc \in Active /\ (Served(d)' <=> Served(d))
      BY <1>1 DEF Active, Served, Dead, Serving, Here
    <3>1. CASE Served(d)
      <4>1. PICK s \in Status, b \in Seq(Byte), p \in Nat : Flow(d, Message(s, b), b, p)
        BY <1>1, <3>0, <3>1 DEF RInv, ConnOk, ReplyOk, Drained, Answered
      <4>2. ReadTo(cl, b, p)
        BY <1>1, <1>8, <4>1 DEF Flow, ReadTo
      <4>3. Flow(d, Message(s, b), b, p)'
        <5>1. Sent(d, p)' = Sent(d, p)
          BY <1>1, <1>8, <1>10 DEF Sent
        <5>2. Serving(d)' <=> Serving(d)
          BY <1>1 DEF Serving, Here
        <5> QED BY <1>1, <1>8, <1>10, <4>1, <4>2, <5>1, <5>2 DEF Flow, Servable
      <4> QED BY <3>0, <3>1, <4>3 DEF ReplyOk, Answered
    <3>2. CASE ~Served(d)
      <4>1. Fresh(d)
        BY <3>0, <3>2 DEF RInv, ConnOk, ReplyOk
      <4> QED BY <1>1, <1>8, <1>10, <3>0, <3>2, <4>1 DEF ReplyOk, Fresh
    <3> QED BY <3>1, <3>2
  <2> QED BY <2>1, <2>2, <2>3 DEF ConnOk
<1> QED BY <1>11, <1>12, OneClient

(* read of a client: the message stays in order.                            *)
LEMMA ClientReceiveKeeps ==
  ASSUME RInv, NEW d \in Conn, ClientReceive(d)
  PROVE  RInv'
<1>1. client[d].pc \in Waiting /\ UNCHANGED <<up, closed, server, disk>>
  BY DEF ClientReceive
<1>2. /\ client[d].unread \in Seq(Token) /\ Len(client[d].unread) \in Nat
      /\ down[d] \in Seq(Token) /\ Len(down[d]) \in Nat /\ Len(down[d]) <= WireCap
      /\ WireCap \in Nat /\ client[d] \in ClientType
  BY ClientFields, LenProperties, RequestsAssumption DEF RInv, Typed
<1>3. PICK n \in 1 .. Len(down[d]) :
        /\ client' = [client EXCEPT ![d].unread = @ \o Taken(down[d], n)]
        /\ down' = [down EXCEPT ![d] = Drop(@, n)]
  BY DEF ClientReceive, Pieces
<1>4. Moved(Token, client[d].unread, down[d], n)
  BY <1>2, MovedOn
<1> DEFINE got == client[d].unread \o Taken(down[d], n)
           rest == Drop(down[d], n)
<1> HIDE DEF got, rest
<1>5. /\ got \in Seq(Token) /\ Len(got) = Len(client[d].unread) + n
      /\ rest \in Seq(Token) /\ Len(rest) = Len(down[d]) - n
  BY <1>4 DEF Moved, got, rest
<1>6. Len(rest) <= WireCap
  <2>1. n \in Nat
    OBVIOUS
  <2> QED BY <1>2, <1>5, <2>1
<1> DEFINE cl == [client[d] EXCEPT !.unread = got]
<1>7. client' = [client EXCEPT ![d] = cl] /\ down' = [down EXCEPT ![d] = rest]
  BY <1>3 DEF got, rest, RInv, Typed
<1>8. /\ cl \in ClientType /\ cl.pc = client[d].pc /\ cl.out = client[d].out
      /\ cl.want = client[d].want /\ cl.unread = got /\ cl.body = client[d].body
      /\ cl.length = client[d].length /\ cl.csum = client[d].csum
  BY <1>2, <1>5 DEF ClientType
<1> HIDE DEF cl
<1>9. down'[d] = rest /\ client'[d] = cl
  BY <1>7 DEF RInv, Typed
<1>10. ClientMoves(d, cl)
  <2>1. down' \in [Conn -> Seq(Token)] /\ \A c \in Conn : Len(down'[c]) <= WireCap
    BY <1>5, <1>6, <1>7 DEF RInv, Typed
  <2>2. \A c \in Conn : c # d => up'[c] = up[c] /\ down'[c] = down[c]
    BY <1>1, <1>7 DEF RInv, Typed
  <2> QED BY <1>1, <1>7, <1>8, <2>1, <2>2 DEF ClientMoves, RInv, Typed
<1>11. ConnOk(d)'
  <2>1. NewOk(d)'
    BY <1>1, <1>8, <1>9 DEF NewOk, Waiting
  <2>2. RequestOk(d)'
    <3>1. RequestOk(d) /\ client[d].pc \in Active
      BY <1>1 DEF RInv, ConnOk, Active
    <3>2. (Dead' <=> Dead) /\ (Serving(d)' <=> Serving(d)) /\ (Working' <=> Working)
          /\ server' = server /\ closed' = closed /\ Asks(d)' = Asks(d) /\ up' = up
      BY <1>1, <1>8, <1>9 DEF Dead, Serving, Working, Here, Asks
    <3> QED BY <1>8, <1>9, <3>1, <3>2 DEF RequestOk
  <2>3. ReplyOk(d)'
    <3>0. client[d].pc \in Active /\ (Served(d)' <=> Served(d)) /\ (Serving(d)' <=> Serving(d))
      BY <1>1 DEF Active, Served, Dead, Serving, Here
    <3>1. down[d] # <<>>
      BY EmptySeq
    <3>2. Served(d)
      BY <3>0, <3>1 DEF RInv, ConnOk, ReplyOk, Fresh
    <3>3. PICK s \in Status, b \in Seq(Byte), p \in Nat : Flow(d, Message(s, b), b, p)
      BY <3>0, <3>1, <3>2 DEF RInv, ConnOk, ReplyOk, Drained, Answered
    <3> DEFINE m == Message(s, b)
    <3>4. Len(m) \in Nat
      BY MessageByToken, LenProperties DEF MessageIs
    <3> HIDE DEF m
    <3>5. /\ Part(client[d].unread, m, p) /\ Part(down[d], m, p + Len(client[d].unread))
          /\ ReadTo(client[d], b, p)
      BY <3>3 DEF Flow, m
    <3>6. /\ Part(Taken(down[d], n), m, p + Len(client[d].unread))
          /\ Part(rest, m, (p + Len(client[d].unread)) + n)
      <4>1. n \in 0 .. Len(down[d]) /\ p + Len(client[d].unread) \in Nat
        BY <1>2
      <4> QED BY <1>2, <3>4, <3>5, <4>1, CutPart DEF rest
    <3>7. Part(got, m, p)
      <4>1. Taken(down[d], n) \in Seq(Token)
        <5>1. n \in 0 .. Len(down[d])
          BY <1>2
        <5> QED BY <1>2, <5>1, CutInTwo
      <4> QED BY <1>2, <3>4, <3>5, <3>6, <4>1, JoinParts DEF got
    <3>8. p + Len(got) = (p + Len(client[d].unread)) + n
      BY <1>2, <1>5
    <3>9. Sent(d, p)' = Sent(d, p)
      <4>1. PICK i \in Nat, j \in Nat, k \in Nat :
              i = Len(client[d].unread) /\ j = Len(down[d]) /\ k = n
        <5>1. n \in Nat
          OBVIOUS
        <5> QED BY <1>2, <5>1
      <4>2. Sent(d, p) = p + i + j /\ Sent(d, p)' = p + (i + k) + (j - k)
        BY <1>5, <1>8, <1>9, <4>1 DEF Sent
      <4>3. p + (i + k) + (j - k) = p + i + j
        OBVIOUS
      <4> QED BY <4>2, <4>3
    <3>10. ReadTo(cl, b, p)
      BY <1>8, <3>5 DEF ReadTo
    <3>11. Flow(d, m, b, p)'
      BY <1>1, <1>8, <1>9, <3>0, <3>3, <3>6, <3>7, <3>8, <3>9, <3>10 DEF Flow, Servable, m
    <3> QED BY <3>0, <3>2, <3>11 DEF ReplyOk, Answered, m
  <2> QED BY <2>1, <2>2, <2>3 DEF ConnOk
<1> QED BY <1>10, <1>11, OneClient

(* A file is cut short or removed, and no longer what the file set says.    *)
LEMMA ShrinkKeeps ==
  ASSUME RInv, NEW f \in Fragile, Shrink(f)
  PROVE  RInv'
<1>1. f \in Name /\ disk[f] \in Seq(Byte) /\ UNCHANGED <<up, down, closed, server, client>>
  BY RequestsAssumption DEF Shrink, RInv, DiskOk
<1>2. PICK x : disk' = [disk EXCEPT ![f] = x]
               /\ (x = Missing \/ \E n \in 0 .. Len(disk[f]) - 1 : x = Taken(disk[f], n))
  BY DEF Shrink
<1>3. Len(disk[f]) \in Nat /\ Len(File[f]) \in Nat /\ Len(disk[f]) <= Len(File[f])
  <2>1. File[f] \in Seq(Byte)
    BY <1>1, RequestsAssumption
  <2>2. disk[f] # Missing
    BY DEF Shrink
  <2>3. Len(disk[f]) \in Nat /\ Len(File[f]) \in Nat
    BY <1>1, <2>1, LenProperties
  <2>4. disk[f] # File[f] => Len(disk[f]) < Len(File[f])
    BY <1>1, <2>2 DEF RInv, DiskOk
  <2> QED BY <2>3, <2>4
<1>4. x = Missing \/ (x \in Seq(Byte) /\ Len(x) < Len(File[f]))
  <2>1. ASSUME NEW n \in 0 .. Len(disk[f]) - 1, x = Taken(disk[f], n)
        PROVE  x \in Seq(Byte) /\ Len(x) < Len(File[f])
    <3>1. n \in 0 .. Len(disk[f]) /\ n < Len(File[f])
      BY <1>3
    <3> QED BY <1>1, <2>1, <3>1, CutInTwo
  <2> QED BY <1>2, <2>1
<1>5. x # File[f]
  BY <1>1, <1>3, <1>4, RequestsAssumption
<1>6. DiskOk'
  BY <1>1, <1>2, <1>4 DEF RInv, DiskOk
<1>7. DiskKept
  BY <1>1, <1>2, <1>5 DEF RInv, DiskOk, DiskKept
<1>8. Typed'
  BY <1>1 DEF RInv, Typed
<1>9. ServerOk'
  <2>1. server.name \in Name /\ Servable(server.name)' => Servable(server.name)
    BY <1>1, <1>7 DEF DiskKept, Servable
  <2>2. server' = server /\ closed' = closed
    BY <1>1
  <2> QED BY <2>1, <2>2 DEF RInv, ServerOk, Working, Here
<1>10. ASSUME NEW c \in Conn PROVE ConnOk(c)'
  BY <1>1, <1>7, Elsewhere DEF Kept, ServerElsewhere, RInv
<1> QED BY <1>6, <1>8, <1>9, <1>10 DEF RInv

(* What a header line says.                                                 *)
LEMMA HeaderSays ==
  ASSUME NEW s, NEW b \in Seq(Byte), NEW m, MessageIs(s, b, m), NEW p \in {0, 2, 4, 6}
  PROVE  /\ m[p + 1][1] = "length" => p = 2 /\ m[p + 1][2] = Len(b)
         /\ m[p + 1][1] = "csum" => p = 4 /\ m[p + 1][2] = Total(b)
         /\ p = 2 => m[p + 1][1] = "length"
         /\ p = 4 => m[p + 1][1] = "csum"
         /\ p = 6 => m[p + 1] = EOL
<1>1. /\ m[1][1] = "status" /\ m[3][1] = "length" /\ m[3][2] = Len(b)
      /\ m[5][1] = "csum" /\ m[5][2] = Total(b) /\ m[7] = EOL /\ m[7][1] = "byte"
  BY DEF MessageIs, EOL
<1>2. CASE p = 0
  BY <1>1, <1>2
<1>3. CASE p = 2
  BY <1>1, <1>3
<1>4. CASE p = 4
  BY <1>1, <1>4
<1>5. CASE p = 6
  BY <1>1, <1>5
<1> QED BY <1>2, <1>3, <1>4, <1>5

(* A line that has been read: how long it is and how it begins.             *)
LEMMA LineBegins ==
  ASSUME NEW S, NEW u \in Seq(S)
  PROVE  /\ Line(u) = <<>> <=> u = <<>>
         /\ u # <<>> => Line(u)[1] = u[1] /\ Len(Line(u)) \in 1 .. Len(u)
         /\ AfterLine(u) \in Seq(S) /\ Len(AfterLine(u)) = Len(u) - Len(Line(u))
         /\ ~IsWhole(u) => AfterLine(u) = <<>>
         /\ Line(u) \in Seq(S)
<1> DEFINE k == Len(Line(u))
<1>0. Len(u) \in Nat
  BY LenProperties
<1>1. k \in 0 .. Len(u) /\ Line(u) = Taken(u, k) /\ AfterLine(u) = Drop(u, k)
      /\ (~IsWhole(u) => k = Len(u)) /\ (IsWhole(u) => k \in 1 .. Len(u))
  BY LineOfBytes
<1> HIDE DEF k
<1>2. /\ Taken(u, k) \in Seq(S) /\ Len(Taken(u, k)) = k /\ \A i \in 1 .. k : Taken(u, k)[i] = u[i]
      /\ Drop(u, k) \in Seq(S) /\ Len(Drop(u, k)) = Len(u) - k
  BY <1>1, CutInTwo
<1>3. u # <<>> => k \in 1 .. Len(u)
  BY <1>0, <1>1, EmptySeq
<1>4. u # <<>> => Taken(u, k)[1] = u[1]
  BY <1>0, <1>2, <1>3
<1>5. Line(u) = <<>> => u = <<>>
  BY EmptyLine
<1>6. u = <<>> => Line(u) = <<>>
  <2>1. SUFFICES ASSUME u = <<>> PROVE Len(Taken(u, k)) = 0
    BY <1>1, <1>2, EmptySeq
  <2>2. Len(u) = 0
    BY <2>1, EmptySeq
  <2> QED BY <1>1, <1>2, <2>2
<1>7. ~IsWhole(u) => Drop(u, k) = <<>>
  <2>1. SUFFICES ASSUME ~IsWhole(u) PROVE Len(Drop(u, k)) = 0
    BY <1>2, EmptySeq
  <2> QED BY <1>0, <1>1, <1>2, <2>1
<1> QED BY <1>1, <1>2, <1>3, <1>4, <1>5, <1>6, <1>7 DEF k

(* What client_print knows after a header line g.                           *)
Scanned(cl, g, len, sum) ==
  /\ len = IF cl.pc # "status" /\ g # <<>> /\ g[1][1] = "length" THEN g[1][2] ELSE cl.length
  /\ sum = IF cl.pc # "status" /\ g # <<>> /\ g[1][1] = "csum" THEN g[1][2] ELSE cl.csum

(* The step as a change of four fields.                                     *)
LEMMA HeaderStep ==
  ASSUME RInv, NEW d \in Conn, ClientHeader(d)
  PROVE  \E l, len, sum :
           /\ l = IF Got(d) \in {Blank, <<>>} THEN "body" ELSE "header"
           /\ Scanned(client[d], Got(d), len, sum)
           /\ client' = [client EXCEPT ![d] =
                [client[d] EXCEPT !.unread = AfterLine(client[d].unread), !.pc = l,
                                  !.length = len, !.csum = sum]]
<1>0. client[d] \in ClientType
  BY DEF RInv, Typed
<1>1. PICK r \in ClientType : r = client[d]
  BY <1>0
<1>2. PICK g : g = Got(d)
  OBVIOUS
<1>3. PICK a : a = AfterLine(r.unread)
  OBVIOUS
<1>4. PICK l \in {"body", "header"} : l = IF g \in {Blank, <<>>} THEN "body" ELSE "header"
  OBVIOUS
<1> DEFINE cl == [r EXCEPT !.unread = a, !.pc = l]
<1>5. client' = [client EXCEPT ![d] = IF r.pc = "status" THEN cl ELSE Scan(cl, g)]
  BY <1>1, <1>2, <1>3, <1>4 DEF ClientHeader, RInv, Typed
<1>6. PICK len, sum : Scanned(r, g, len, sum)
  BY DEF Scanned
<1>7. (IF r.pc = "status" THEN cl ELSE Scan(cl, g))
        = [r EXCEPT !.unread = a, !.pc = l, !.length = len, !.csum = sum]
  BY <1>6 DEF Scanned, Scan, ClientType
<1>8. client' = [client EXCEPT ![d] =
                   [client[d] EXCEPT !.unread = AfterLine(client[d].unread), !.pc = l,
                                     !.length = len, !.csum = sum]]
  BY <1>1, <1>3, <1>5, <1>7
<1>9. Scanned(client[d], Got(d), len, sum)
  BY <1>1, <1>2, <1>6
<1>10. l = IF Got(d) \in {Blank, <<>>} THEN "body" ELSE "header"
  BY <1>2, <1>4
<1> QED BY <1>8, <1>9, <1>10

(* The header loop of client_print: two tokens more have been read, the     *)
(* last time one.                                                           *)
LEMMA ClientHeaderKeeps ==
  ASSUME RInv, NEW d \in Conn, ClientHeader(d)
  PROVE  RInv'
<1>1. /\ client[d].pc \in {"status", "header"} /\ ClientReturns(d)
      /\ UNCHANGED <<up, down, closed, server, disk>>
  BY DEF ClientHeader
<1>2. PICK l, len, sum :
        /\ l = IF Got(d) \in {Blank, <<>>} THEN "body" ELSE "header"
        /\ Scanned(client[d], Got(d), len, sum)
        /\ client' = [client EXCEPT ![d] =
             [client[d] EXCEPT !.unread = AfterLine(client[d].unread), !.pc = l,
                               !.length = len, !.csum = sum]]
  BY HeaderStep
<1>3. client[d] \in ClientType /\ client[d].unread \in Seq(Token)
      /\ client[d].length \in Nat /\ client[d].csum \in Nat
  BY ClientFields DEF RInv, Typed
<1>4. PICK u \in Seq(Token) : u = client[d].unread
  BY <1>3
<1>5. Got(d) = Line(u) /\ AfterLine(u) \in Seq(Token) /\ Len(u) \in Nat
  BY <1>4, LineBegins, LenProperties DEF Got
<1> DEFINE cl == [client[d] EXCEPT !.unread = AfterLine(u), !.pc = l, !.length = len, !.csum = sum]
<1>6. /\ cl.pc = l /\ cl.unread = AfterLine(u) /\ cl.length = len /\ cl.csum = sum
      /\ cl.want = client[d].want /\ cl.out = client[d].out /\ cl.body = client[d].body
  BY <1>3 DEF ClientType
<1>6a. l \in {"body", "header"}
  BY <1>2
<1>7. len \in Nat /\ sum \in Nat => cl \in ClientType
  BY <1>3, <1>5, <1>6a DEF ClientType, Active, Waiting
<1> HIDE DEF cl
<1>8. client' = [client EXCEPT ![d] = cl]
  BY <1>2, <1>4 DEF cl
<1>9. client'[d] = cl
  BY <1>8 DEF RInv, Typed
<1>10. SUFFICES len \in Nat /\ sum \in Nat /\ ReplyOk(d)'
  <2>1. SUFFICES ASSUME len \in Nat, sum \in Nat, ReplyOk(d)' PROVE RInv'
    OBVIOUS
  <2>2. ClientMoves(d, cl)
    BY <1>1, <1>7, <1>8, <2>1, ClientAlone
  <2>3. NewOk(d)'
    BY <1>6, <1>6a, <1>9 DEF NewOk
  <2>4. RequestOk(d)'
    <3>1. RequestOk(d) /\ client[d].pc \in Active
      BY <1>1 DEF RInv, ConnOk, Active, Waiting
    <3>2. (Dead' <=> Dead) /\ (Serving(d)' <=> Serving(d)) /\ (Working' <=> Working)
          /\ server' = server /\ closed' = closed /\ Asks(d)' = Asks(d) /\ up' = up
      BY <1>1, <1>6, <1>9 DEF Dead, Serving, Working, Here, Asks
    <3> QED BY <1>6, <1>9, <3>1, <3>2 DEF RequestOk
  <2> QED BY <2>1, <2>2, <2>3, <2>4, OneClient DEF ConnOk
<1>11. client[d].pc \in Active /\ (Served(d)' <=> Served(d)) /\ (Serving(d)' <=> Serving(d))
       /\ (Dead' <=> Dead) /\ closed' = closed
  BY <1>1 DEF Active, Waiting, Served, Dead, Serving, Here
<1>12. ASSUME u = <<>>
       PROVE  /\ Served(d) /\ len \in Nat /\ sum \in Nat /\ l = "body"
              /\ cl.unread = <<>> /\ down[d] = <<>> /\ (d \in closed \/ Dead)
  <2>1. Line(u) = <<>> /\ ~IsWhole(u)
    BY <1>12, LineBegins, EmptyLine
  <2>2. AfterLine(u) = <<>>
    BY <2>1, LineBegins
  <2>3. ClientEof(d)
    BY <1>1, <1>4, <2>1 DEF ClientReturns
  <2> QED BY <1>2, <1>3, <1>5, <1>6, <2>1, <2>2, <2>3 DEF Scanned, ClientEof, Served
<1>13. CASE ~Served(d)
  BY <1>4, <1>11, <1>12, <1>13 DEF RInv, ConnOk, ReplyOk, Fresh
<1>14. CASE Served(d) /\ Drained(d)
  <2>1. Drained(d)'
    BY <1>1, <1>4, <1>6, <1>9, <1>11, <1>12, <1>14 DEF Drained
  <2> QED BY <1>4, <1>11, <1>12, <1>14, <2>1 DEF ReplyOk, Drained
<1>15. CASE Served(d) /\ Answered(d)
  <2>1. PICK s \in Status, b \in Seq(Byte), p \in Nat : Flow(d, Message(s, b), b, p)
    BY <1>15 DEF Answered
  <2> DEFINE m == Message(s, b)
  <2>2. MessageIs(s, b, m) /\ Len(m) \in Nat /\ Len(b) \in Nat /\ Total(b) \in Nat
    BY MessageByToken, LenProperties DEF MessageIs
  <2> HIDE DEF m
  <2>3. Part(u, m, p) /\ Part(down[d], m, p + Len(u)) /\ ReadTo(client[d], b, p)
    BY <1>4, <2>1 DEF Flow, m
  <2>4. p \in {0, 2, 4, 6} /\ client[d].body = <<>> /\ (client[d].pc = "status" <=> p = 0)
        /\ (p >= 4 => client[d].length = Len(b)) /\ (p >= 6 => client[d].csum = Total(b))
    BY <1>1, <2>3 DEF ReadTo
  <2>5. u # <<>> => Line(u)[1] = m[p + 1]
    <3>1. SUFFICES ASSUME u # <<>> PROVE u[1] = m[p + 1]
      BY LineBegins
    <3>2. 1 \in 1 .. Len(u)
      BY <1>5, <3>1, EmptySeq
    <3> QED BY <2>3, <3>2 DEF Part
  <2>6. /\ u # <<>> /\ p = 2 => len = Len(b)
        /\ ~(u # <<>> /\ p = 2) => len = client[d].length
        /\ u # <<>> /\ p = 4 => sum = Total(b)
        /\ ~(u # <<>> /\ p = 4) => sum = client[d].csum
    <3>1. Line(u) = <<>> <=> u = <<>>
      BY LineBegins
    <3> DEFINE x == m[p + 1]
    <3>2. /\ x[1] = "length" => p = 2 /\ x[2] = Len(b)
          /\ x[1] = "csum" => p = 4 /\ x[2] = Total(b)
          /\ p = 2 => x[1] = "length"
          /\ p = 4 => x[1] = "csum"
      BY <2>2, <2>4, HeaderSays
    <3>3. u # <<>> => Line(u)[1] = x
      BY <2>5
    <3>4. p = 2 \/ p = 4 => client[d].pc # "status"
      BY <2>4
    <3>5. Scanned(client[d], Line(u), len, sum)
      BY <1>2, <1>5
    <3> HIDE DEF x
    <3>6. CASE u = <<>>
      BY <3>1, <3>5, <3>6 DEF Scanned
    <3>7. CASE u # <<>>
      <4>1. /\ len = IF client[d].pc # "status" /\ x[1] = "length" THEN x[2] ELSE client[d].length
            /\ sum = IF client[d].pc # "status" /\ x[1] = "csum" THEN x[2] ELSE client[d].csum
        BY <3>1, <3>3, <3>5, <3>7 DEF Scanned
      <4> QED BY <4>1, <3>2, <3>4, <3>7
    <3> QED BY <3>6, <3>7
  <2>7. len \in Nat /\ sum \in Nat
    BY <1>3, <2>2, <2>6
  <2>8. CASE IsWhole(u)
    <3> DEFINE k == Len(Line(u))
    <3>1. k = (IF p = 6 THEN 1 ELSE 2) /\ k \in 0 .. Len(u) /\ k \in 1 .. Len(u)
          /\ AfterLine(u) = Drop(u, k)
      BY <2>2, <2>3, <2>4, <2>8, HeaderLine, LineOfBytes
    <3>2. u # <<>> /\ Line(u) # <<>>
      BY <3>1, LineBegins, EmptySeq
    <3>3. Part(AfterLine(u), m, p + k) /\ Len(AfterLine(u)) = Len(u) - k
      <4>1. Part(Drop(u, k), m, p + k)
        BY <2>2, <2>3, <3>1, CutPart
      <4>2. Len(AfterLine(u)) = Len(u) - k
        BY LineBegins
      <4> QED BY <3>1, <4>1, <4>2
    <3>4. l = IF p = 6 THEN "body" ELSE "header"
      <4>1. CASE p = 6
        <5>1. Line(u) \in Seq(Token) /\ Len(Line(u)) = 1 /\ Line(u)[1] = EOL
          BY <2>2, <2>5, <3>1, <3>2, <4>1, HeaderSays, LineBegins
        <5>2. Line(u) = Blank
          BY <5>1 DEF Blank
        <5> QED BY <1>2, <1>5, <4>1, <5>2
      <4>2. CASE p # 6
        <5>1. Len(Line(u)) = 2 /\ Len(Blank) = 1
          BY <3>1, <4>2 DEF Blank
        <5>2. ASSUME Line(u) = Blank PROVE FALSE
          <6>1. PICK x \in Int, y \in Int : x = Len(Line(u)) /\ y = Len(Blank) /\ x = 2 /\ y = 1
            BY <5>1
          <6>2. x = y
            BY <5>2, <6>1
          <6> QED BY <6>1, <6>2
        <5> QED BY <1>2, <1>5, <3>2, <4>2, <5>2
      <4> QED BY <4>1, <4>2
    <3> HIDE DEF k
    <3>5. ReadTo(cl, b, p + k)
      <4>1. cl.body = <<>> /\ Len(<<>>) = 0 /\ Part(<<>>, b, 0)
        BY <1>6, <2>2, <2>4, EmptySeq DEF Part
      <4>2. CASE p = 6
        BY <1>6, <2>4, <2>6, <3>1, <3>4, <4>1, <4>2 DEF ReadTo
      <4>3. CASE p = 4
        BY <1>6, <2>4, <2>6, <3>1, <3>2, <3>4, <4>1, <4>3 DEF ReadTo
      <4>4. CASE p = 2
        BY <1>6, <2>4, <2>6, <3>1, <3>2, <3>4, <4>1, <4>4 DEF ReadTo
      <4>5. CASE p = 0
        BY <1>6, <2>4, <2>6, <3>1, <3>2, <3>4, <4>1, <4>5 DEF ReadTo
      <4> QED BY <2>4, <4>2, <4>3, <4>4, <4>5
    <3>6. p + k \in Nat /\ k \in Nat
      BY <3>1
    <3>7. (p + k) + Len(AfterLine(u)) = p + Len(u)
      BY <1>5, <3>3, <3>6
    <3>8. Sent(d, p + k)' = Sent(d, p)
      BY <1>1, <1>4, <1>6, <1>9, <3>7 DEF Sent
    <3>9. Flow(d, m, b, p + k)'
      BY <1>1, <1>4, <1>6, <1>9, <1>11, <2>1, <2>3, <3>3, <3>5, <3>7, <3>8
         DEF Flow, Servable, m
    <3>10. Answered(d)'
      BY <3>6, <3>9 DEF Answered, m
    <3> QED BY <1>11, <1>15, <2>7, <3>10 DEF ReplyOk
  <2>9. CASE ~IsWhole(u)
    <3>1. down[d] = <<>> /\ (d \in closed \/ Dead)
      BY <1>1, <1>4, <2>9 DEF ClientReturns, ClientEof
    <3>2. p + Len(u) <= 6
      <4>1. Len(u) <= IF p = 6 THEN 0 ELSE 1
        BY <2>2, <2>3, <2>4, <2>9, HeaderLine
      <4> QED BY <1>5, <2>4, <4>1
    <3>3. Sent(d, p) <= 6 /\ Len(m) >= 7
      <4>1. Len(down[d]) = 0
        BY <3>1, EmptySeq
      <4>2. Sent(d, p) = p + Len(u) + 0
        BY <1>4, <4>1 DEF Sent
      <4>3. Len(m) >= 7
        BY <2>2 DEF MessageIs
      <4> QED BY <1>5, <3>2, <4>2, <4>3
    <3>4. d \notin closed
      <4>1. d \in closed => Sent(d, p) = Len(m)
        BY <2>1 DEF Flow, m
      <4> QED BY <2>2, <3>3, <4>1
    <3>5. AfterLine(u) = <<>>
      BY <2>9, LineBegins
    <3>6. Drained(d)'
      BY <1>1, <1>6, <1>6a, <1>9, <1>11, <2>4, <3>1, <3>4, <3>5 DEF Drained
    <3> QED BY <1>11, <1>15, <2>7, <3>6 DEF ReplyOk
  <2> QED BY <2>8, <2>9
<1> QED BY <1>11, <1>13, <1>14, <1>15 DEF RInv, ConnOk, ReplyOk

(* The bytes of a line of the body.                                         *)
LEMMA BodyLine ==
  ASSUME NEW s, NEW b \in Seq(Byte), NEW m, MessageIs(s, b, m), NEW read \in Seq(Byte),
         NEW u \in Seq(Token), Part(u, m, 7 + Len(read))
  PROVE  /\ Values(Line(u)) \in Seq(Byte) /\ Len(Values(Line(u))) = Len(Line(u))
         /\ Part(Values(Line(u)), b, Len(read))
<1>0. Len(read) \in Nat /\ Len(b) \in Nat /\ Len(u) \in Nat /\ Len(m) = 7 + Len(b)
  BY LenProperties DEF MessageIs
<1> DEFINE k == Len(Line(u))
           q == Len(read)
<1>1. k \in 0 .. Len(u) /\ Line(u) = Taken(u, k)
  BY LineOfBytes
<1> HIDE DEF k, q
<1>2. /\ Taken(u, k) \in Seq(Token) /\ Len(Taken(u, k)) = k
      /\ \A i \in 1 .. k : Taken(u, k)[i] = u[i]
  BY <1>1, CutInTwo
<1>3. DOMAIN Line(u) = 1 .. k /\ k \in Nat
  BY <1>0, <1>1, <1>2, LenProperties
<1>4. Values(Line(u)) = [i \in 1 .. k |-> Line(u)[i][2]]
  BY <1>3 DEF Values
<1>5. ASSUME NEW i \in 1 .. k
      PROVE  Line(u)[i][2] = b[q + i] /\ q + i \in 1 .. Len(b)
  <2>1. i \in 1 .. Len(u) /\ q \in Nat /\ Line(u)[i] = u[i]
    BY <1>0, <1>1, <1>2 DEF q
  <2>2. u[i] = m[(7 + q) + i] /\ (7 + q) + Len(u) <= 7 + Len(b)
    BY <1>0, <2>1 DEF Part, q
  <2>3. (7 + q) + i = 7 + (q + i) /\ q + i \in 1 .. Len(b)
    BY <1>0, <2>1, <2>2
  <2>4. m[7 + (q + i)] = <<"byte", b[q + i]>>
    BY <2>3 DEF MessageIs
  <2> QED BY <2>1, <2>2, <2>3, <2>4
<1>6. \A i \in 1 .. k : b[q + i] \in Byte
  BY <1>5, ElementOfSeq
<1>7. Values(Line(u)) = [i \in 1 .. k |-> b[q + i]]
  BY <1>4, <1>5
<1>8. Values(Line(u)) \in Seq(Byte) /\ Len(Values(Line(u))) = k
  BY <1>3, <1>6, <1>7
<1>9. q + k <= Len(b)
  BY <1>0, <1>1 DEF Part, q
<1>10. Part(Values(Line(u)), b, q)
  BY <1>7, <1>8, <1>9 DEF Part
<1> QED BY <1>8, <1>10 DEF k, q

(* The body loop of client_print: the body grows by what was read of the    *)
(* message.                                                                 *)
LEMMA ClientBodyKeeps ==
  ASSUME RInv, NEW d \in Conn, ClientBody(d)
  PROVE  RInv'
<1>1. /\ client[d].pc = "body" /\ ClientReturns(d)
      /\ UNCHANGED <<up, down, closed, server, disk>>
  BY DEF ClientBody
<1>2. CASE Got(d) = <<>>
  <2>1. PICK how \in {"accepted", "aborted"} : End(d, how)
    BY <1>2 DEF ClientBody
  <2>2. how \in Ended
    BY DEF Ended
  <2> QED BY <1>1, <2>1, <2>2, EndKeeps
<1>3. CASE Got(d) # <<>>
  <2>1. client[d] \in ClientType /\ client[d].unread \in Seq(Token) /\ client[d].body \in Seq(Byte)
    BY ClientFields DEF RInv, Typed
  <2>2. PICK u \in Seq(Token) : u = client[d].unread
    BY <2>1
  <2>3. PICK read \in Seq(Byte) : read = client[d].body
    BY <2>1
  <2>4. Got(d) = Line(u) /\ u # <<>> /\ AfterLine(u) \in Seq(Token) /\ Len(u) \in Nat
        /\ Len(read) \in Nat
    BY <1>3, <2>2, LineBegins, LenProperties DEF Got
  <2>5. client' = [client EXCEPT ![d] = [client[d] EXCEPT !.unread = AfterLine(u),
                                                         !.body = read \o Values(Line(u))]]
    BY <1>3, <2>2, <2>3, <2>4 DEF ClientBody, RInv, Typed
  <2>6. client[d].pc \in Active /\ (Served(d)' <=> Served(d)) /\ (Serving(d)' <=> Serving(d))
        /\ (Dead' <=> Dead) /\ closed' = closed
    BY <1>1 DEF Active, Waiting, Served, Dead, Serving, Here
  <2>7. Served(d) /\ ~Drained(d)
    BY <1>1, <2>2, <2>4, <2>6 DEF RInv, ConnOk, ReplyOk, Fresh, Drained
  <2>8. PICK s \in Status, b \in Seq(Byte), p \in Nat : Flow(d, Message(s, b), b, p)
    BY <2>6, <2>7 DEF RInv, ConnOk, ReplyOk, Answered
  <2> DEFINE m == Message(s, b)
  <2>9. MessageIs(s, b, m) /\ Len(m) \in Nat /\ Len(b) \in Nat
    BY MessageByToken, LenProperties DEF MessageIs
  <2> HIDE DEF m
  <2>10. /\ Part(u, m, p) /\ Part(down[d], m, p + Len(u))
         /\ p = 7 + Len(read) /\ Part(read, b, 0)
         /\ client[d].length = Len(b) /\ client[d].csum = Total(b)
    BY <1>1, <2>2, <2>3, <2>8 DEF Flow, ReadTo, m
  <2> DEFINE k == Len(Line(u))
             body == read \o Values(Line(u))
  <2>11. /\ Values(Line(u)) \in Seq(Byte) /\ Len(Values(Line(u))) = k
         /\ Part(Values(Line(u)), b, Len(read))
    BY <2>9, <2>10, BodyLine
  <2>12. k \in 0 .. Len(u) /\ AfterLine(u) = Drop(u, k) /\ Len(AfterLine(u)) = Len(u) - k
    BY LineOfBytes, LineBegins
  <2>13. Part(body, b, 0) /\ Len(body) = Len(read) + k /\ body \in Seq(Byte)
    <3>1. Part(Values(Line(u)), b, 0 + Len(read))
      BY <2>4, <2>11
    <3>2. PICK v \in Seq(Byte) : v = Values(Line(u))
      BY <2>11
    <3>3. PICK z \in Nat : z = 0
      OBVIOUS
    <3>4. Part(read, b, z) /\ Part(v, b, z + Len(read))
      BY <2>10, <3>1, <3>2, <3>3
    <3>5. Part(read \o v, b, z) /\ Len(read \o v) = Len(read) + Len(v) /\ read \o v \in Seq(Byte)
      BY <2>9, <3>4, JoinParts
    <3> QED BY <2>11, <3>2, <3>3, <3>5
  <2>14. Part(AfterLine(u), m, p + k)
    BY <2>9, <2>10, <2>12, CutPart
  <2> HIDE DEF k, body
  <2> DEFINE cl == [client[d] EXCEPT !.unread = AfterLine(u), !.body = body]
  <2>15. /\ cl \in ClientType /\ cl.pc = "body" /\ cl.unread = AfterLine(u) /\ cl.body = body
         /\ cl.length = client[d].length /\ cl.csum = client[d].csum
         /\ cl.want = client[d].want /\ cl.out = client[d].out
    BY <1>1, <2>1, <2>4, <2>13 DEF ClientType
  <2> HIDE DEF cl
  <2>16. client' = [client EXCEPT ![d] = cl]
    BY <2>5 DEF cl, body
  <2>17. ClientMoves(d, cl) /\ client'[d] = cl
    BY <1>1, <2>15, <2>16, ClientAlone
  <2>18. NewOk(d)'
    BY <2>15, <2>17 DEF NewOk
  <2>19. RequestOk(d)'
    <3>1. RequestOk(d)
      BY DEF RInv, ConnOk
    <3>2. (Working' <=> Working) /\ server' = server /\ Asks(d)' = Asks(d) /\ up' = up
      BY <1>1, <2>15, <2>17 DEF Working, Asks
    <3> QED BY <2>6, <2>15, <2>17, <3>1, <3>2 DEF RequestOk
  <2>20. k \in Nat /\ p + k = 7 + Len(body) /\ p + k \in Nat
    BY <2>4, <2>10, <2>12, <2>13
  <2>21. ReadTo(cl, b, p + k)
    BY <2>10, <2>13, <2>15, <2>20 DEF ReadTo
  <2>22. (p + k) + Len(AfterLine(u)) = p + Len(u)
    BY <2>4, <2>12, <2>20
  <2>23. Sent(d, p + k)' = Sent(d, p)
    BY <1>1, <2>2, <2>15, <2>17, <2>22 DEF Sent
  <2>24. Flow(d, m, b, p + k)'
    BY <1>1, <2>6, <2>8, <2>10, <2>14, <2>15, <2>17, <2>21, <2>22, <2>23 DEF Flow, Servable, m
  <2>25. ReplyOk(d)'
    BY <2>6, <2>7, <2>20, <2>24 DEF ReplyOk, Answered, m
  <2> QED BY <2>17, <2>18, <2>19, <2>25, OneClient DEF ConnOk
<1> QED BY <1>2, <1>3

(* Every step keeps the invariant.                                          *)
LEMMA NextKeeps == RInv /\ [Next]_vars => RInv'
<1> SUFFICES ASSUME RInv, [Next]_vars PROVE RInv'
  OBVIOUS
<1>1. ASSUME NEW c \in Conn, Accept(c) PROVE RInv'
  BY <1>1, AcceptKeeps
<1>2. CASE ServerReceive
  BY <1>2, ServerReceiveKeeps
<1>3. CASE ReadRequestLine
  BY <1>3, ReadRequestLineKeeps
<1>4. CASE ReadHeader
  BY <1>4, ReadHeaderKeeps
<1>5. CASE Stat
  BY <1>5, StatKeeps
<1>6. CASE Load
  BY <1>6, LoadKeeps
<1>7. CASE Compose
  BY <1>7, ComposeKeeps
<1>8. CASE ServerWrite
  BY <1>8, ServerWriteKeeps
<1>9. CASE WriteToNobody
  BY <1>9, WriteToNobodyKeeps
<1>10. CASE Destroy
  BY <1>10, DestroyKeeps
<1>11. CASE OtherThreadExits
  BY <1>11, CrashKeeps DEF OtherThreadExits
<1>12. ASSUME NEW c \in Conn, Connect(c) PROVE RInv'
  BY <1>12, ConnectKeeps
<1>13. ASSUME NEW c \in Conn, ClientStep(c) PROVE RInv'
  BY <1>13, ClientWriteKeeps, ClientReceiveKeeps, ClientHeaderKeeps, ClientBodyKeeps,
     ClientFailsKeeps DEF ClientStep
<1>14. ASSUME NEW c \in Conn, Leave(c) PROVE RInv'
  BY <1>14, LeaveKeeps
<1>15. ASSUME NEW f \in Fragile, Shrink(f) PROVE RInv'
  BY <1>15, ShrinkKeeps
<1>16. CASE UNCHANGED vars
  <2>1. UNCHANGED <<up, down, closed, server, client, disk>>
    BY <1>16 DEF vars
  <2>2. Typed' /\ DiskOk' /\ ServerOk'
    BY <2>1 DEF RInv, Typed, DiskOk, ServerOk, Working, Here, Servable
  <2>3. \A c \in Conn : ConnOk(c)'
    BY <2>1, SameDisk, Elsewhere DEF RInv, Kept, ServerElsewhere
  <2> QED BY <2>2, <2>3 DEF RInv
<1> QED BY <1>1, <1>2, <1>3, <1>4, <1>5, <1>6, <1>7, <1>8, <1>9, <1>10, <1>11, <1>12, <1>13,
           <1>14, <1>15, <1>16 DEF Next, ServerStep

(* The invariant holds always: client, wire and server thread share one     *)
(* message.                                                                 *)
THEOREM RequestInvariance == Spec => []RInv
BY InitOk, NextKeeps, PTL DEF Spec

(* A client that has read all there is: its body is all of b, or it never   *)
(* saw the end of the headers of a server that ended.                       *)
LEMMA AllRead ==
  ASSUME RInv, NEW c \in Conn, ReadAll(c)
  PROVE  \/ ~(c \in closed) /\ Dead /\ client[c].body = <<>>
         \/ \E b \in Seq(Byte) :
              /\ client[c].length = Len(b) /\ client[c].csum = Total(b)
              /\ Part(client[c].body, b, 0)
              /\ c \in closed => client[c].body = b
              /\ Servable(client[c].want) => b = File[client[c].want]
<1>1. client[c].pc = "body" /\ Line(client[c].unread) = <<>> /\ ClientReturns(c)
  BY DEF ReadAll, Got
<1>2. client[c].unread \in Seq(Token) /\ client[c].body \in Seq(Byte) /\ Len(client[c].body) \in Nat
  BY ClientFields, LenProperties DEF RInv
<1>3. client[c].unread = <<>> /\ ~IsWhole(client[c].unread)
  BY <1>1, <1>2, EmptyLine
<1>4. down[c] = <<>> /\ (c \in closed \/ Dead)
  BY <1>1, <1>3 DEF ClientReturns, ClientEof
<1>5. Served(c) /\ client[c].pc \in Active
  BY <1>1, <1>4 DEF Served, Active, Waiting
<1>6. CASE Drained(c)
  BY <1>6 DEF Drained
<1>7. CASE Answered(c)
  <2>1. PICK s \in Status, b \in Seq(Byte), p \in Nat : Flow(c, Message(s, b), b, p)
    BY <1>7 DEF Answered
  <2>2. /\ p = 7 + Len(client[c].body) /\ Part(client[c].body, b, 0)
        /\ client[c].length = Len(b) /\ client[c].csum = Total(b)
        /\ Servable(client[c].want) => b = File[client[c].want]
        /\ c \in closed => Sent(c, p) = Len(Message(s, b))
    BY <1>1, <2>1 DEF Flow, ReadTo
  <2>3. Len(Message(s, b)) = 7 + Len(b) /\ Len(b) \in Nat
    BY MessageByToken DEF MessageIs
  <2>4. Sent(c, p) = 7 + Len(client[c].body)
    <3>1. Len(client[c].unread) = 0 /\ Len(down[c]) = 0
      BY <1>3, <1>4, EmptySeq
    <3>2. Sent(c, p) = p + 0 + 0
      BY <3>1 DEF Sent
    <3> QED BY <1>2, <2>2, <3>2
  <2>5. c \in closed => Len(client[c].body) = Len(b)
    BY <1>2, <2>2, <2>3, <2>4
  <2>6. c \in closed => client[c].body = b
    <3>1. \A i \in 1 .. Len(client[c].body) : client[c].body[i] = b[i]
      BY <1>2, <2>2 DEF Part
    <3> QED BY <1>2, <2>5, <3>1, SeqEqual
  <2> QED BY <2>2, <2>6
<1> QED BY <1>5, <1>6, <1>7 DEF RInv, ConnOk, ReplyOk

(* On every closed connection the client counted and summed what the header *)
(* announced.                                                               *)
THEOREM WellFramed == Spec => []RepliesWellFramed
<1>1. RInv => RTypeOK
  <2> SUFFICES ASSUME RInv PROVE RTypeOK
    OBVIOUS
  <2>1. ASSUME NEW c \in Conn
        PROVE  /\ \A w \in {up[c], down[c]} : w \in Seq(Token) /\ Len(w) <= WireCap
               /\ client[c].pc \in {"new"} \cup Active \cup Ended
               /\ client[c].pc \in Active => client[c].want \in Name
               /\ client[c].length \in Nat /\ client[c].body \in Seq(Byte)
    <3>1. client[c].pc \in Active => client[c].want \in Name
      BY DEF RInv, ConnOk, RequestOk
    <3> QED BY <3>1, ClientFields DEF RInv, Typed
  <2>2. /\ server.conn \in Conn \cup {Missing} /\ server.name \in Name \cup {Missing}
        /\ server.size \in Nat
    BY ServerFields DEF RInv
  <2>3. /\ server.pc = "send" => Len(server.buf) = server.size
        /\ server.pc \notin {"idle", "crashed"} => server.conn \in Conn \ closed
        /\ closed \subseteq Conn
    BY DEF RInv, ServerOk, Typed, Here
  <2> QED BY <2>1, <2>2, <2>3 DEF RTypeOK
<1>2. ASSUME RInv, NEW c \in closed, ReadAll(c) PROVE FramedAs(client[c])
  <2>1. c \in Conn
    BY <1>2 DEF RInv, Typed
  <2> QED BY <1>2, <2>1, AllRead DEF FramedAs
<1>3. RInv => RepliesWellFramed
  BY <1>1, <1>2 DEF RepliesWellFramed
<1> QED BY <1>3, RequestInvariance, PTL

(* The assertions of client_print hold of the file that was asked for and   *)
(* of nothing else.                                                         *)
THEOREM Decided == Spec => []AssertionsDecide
<1>1. ASSUME RInv, NEW c \in Conn, ReadAll(c), Servable(client[c].want)
      PROVE  /\ Accepts(client[c]) => client[c].body = File[client[c].want]
             /\ ~Accepts(client[c]) => Dead
  <2>0. client[c].want \in Name /\ client[c].body \in Seq(Byte)
    <3>1. client[c].pc \in Active
      BY <1>1 DEF ReadAll, Active, Waiting
    <3> QED BY <1>1, <3>1, ClientFields DEF RInv, ConnOk, RequestOk
  <2>1. PICK f \in Seq(Byte) : f = File[client[c].want]
    BY <2>0, RequestsAssumption
  <2>2. CASE ~(c \in closed) /\ Dead /\ client[c].body = <<>>
    <3>1. SUFFICES ASSUME Accepts(client[c]) PROVE client[c].body = f
      BY <2>1, <2>2
    <3>2. Len(f) = Len(client[c].body)
      BY <2>1, <3>1 DEF Accepts, FramedAs
    <3>3. Len(f) = 0
      BY <2>2, <3>2, EmptySeq
    <3> QED BY <2>2, <3>3, EmptySeq
  <2>3. CASE \E b \in Seq(Byte) :
               /\ client[c].length = Len(b) /\ client[c].csum = Total(b)
               /\ Part(client[c].body, b, 0)
               /\ c \in closed => client[c].body = b
               /\ Servable(client[c].want) => b = File[client[c].want]
    <3>1. /\ client[c].length = Len(f) /\ client[c].csum = Total(f)
          /\ Part(client[c].body, f, 0) /\ (c \in closed => client[c].body = f)
      BY <1>1, <2>1, <2>3
    <3>2. ASSUME Accepts(client[c]) PROVE client[c].body = f
      <4>1. Len(client[c].body) = Len(f)
        BY <3>1, <3>2 DEF Accepts, FramedAs
      <4>2. \A i \in 1 .. Len(client[c].body) : client[c].body[i] = f[i]
        BY <2>0, <3>1, LenProperties DEF Part
      <4> QED BY <2>0, <4>1, <4>2, SeqEqual
    <3>3. c \in closed => Accepts(client[c])
      BY <2>1, <3>1 DEF Accepts, FramedAs
    <3>4. c \in closed \/ Dead
      <4>1. Line(client[c].unread) = <<>> /\ ClientReturns(c) /\ client[c].unread \in Seq(Token)
        BY <1>1, ClientFields DEF ReadAll, Got, RInv
      <4>2. ~IsWhole(client[c].unread)
        BY <4>1, EmptyLine
      <4> QED BY <4>1, <4>2 DEF ClientReturns, ClientEof
    <3> QED BY <2>1, <3>2, <3>3, <3>4
  <2> QED BY <1>1, <2>2, <2>3, AllRead
<1>2. RInv => AssertionsDecide
  BY <1>1 DEF AssertionsDecide, AcceptedIsTheFile, SoundRepliesAccepted
<1> QED BY <1>2, RequestInvariance, PTL
=============================================================================
