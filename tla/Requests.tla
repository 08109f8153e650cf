------------------------------ MODULE Requests ------------------------------
(***************************************************************************)
(* One server thread with caching off (request.c, and do_server_request    *)
(* when max_cache_size is 0) and its clients (client.c), over connections  *)
(* that deliver bytes in pieces (the Rio package of common.c).  The thread *)
(* serves one connection at a time.  Each connection belongs to a client   *)
(* process of its own.                                                     *)
(*                                                                         *)
(* A wire carries tokens <<kind, value>>: a byte of a body, the end of a   *)
(* line, or what stands before it in a header line.  `unread' is what a    *)
(* thread has received and no call has returned: the rest of rio_buf and   *)
(* the part of a line already copied out of it.  rio_readb calls read only *)
(* when rio_buf is empty, so no line is complete in `unread' at that time. *)
(***************************************************************************)
EXTENDS Integers, Sequences, SequencesExt, FiniteSets, Sums

CONSTANTS Conn,       \* connections
          Impatient,  \* those whose client may be killed before it ends
          Name,       \* file names a client asks for
          Hidden,     \* names with "..", or that end in .c or .h
          File,       \* File[f]: the bytes of f when the file set was made
          Fragile,    \* the files somebody cuts short or removes
          WireCap,    \* tokens a connection holds in one direction
          Missing     \* the "content" of a name that is not a file

Byte == {1, 10}

ASSUME RequestsAssumption ==
  /\ Impatient \subseteq Conn
  /\ Hidden \subseteq Name /\ Fragile \subseteq Name
  /\ File \in [Name -> Seq(Byte)]
  /\ \A f \in Name : File[f] # Missing
  /\ WireCap \in Nat \ {0}

VARIABLES
  up, down,  \* the bytes in flight on each connection
  closed,    \* the connections the server has closed
  server,    \* the server thread
  client,    \* client[c]: the client of connection c
  disk       \* disk[f]: the bytes of f now, or Missing

vars == <<up, down, closed, server, client, disk>>

EOL == <<"byte", 10>>
Blank == <<EOL>>
Total(bytes) == SumUpTo(bytes, Len(bytes))
Bytes(s) == [i \in DOMAIN s |-> <<"byte", s[i]>>]
Values(s) == [i \in DOMAIN s |-> s[i][2]]

-----------------------------------------------------------------------------
(* Rio_readlineb.                                                           *)
LineEnd(unread) == SelectInSeq(unread, LAMBDA t : t = EOL)
IsWhole(unread) == LineEnd(unread) > 0
Line(unread) == IF IsWhole(unread) THEN SubSeq(unread, 1, LineEnd(unread)) ELSE unread
AfterLine(unread) == SubSeq(unread, Len(Line(unread)) + 1, Len(unread))

(* What read may return: any prefix of what is in flight.                   *)
Pieces(wire) == 1 .. Len(wire)
(* What write may accept.                                                   *)
Fits(out, wire) == 1 .. IF Len(out) < WireCap - Len(wire) THEN Len(out)
                                                          ELSE WireCap - Len(wire)
Drop(s, n) == SubSeq(s, n + 1, Len(s))
Taken(s, n) == SubSeq(s, 1, n)

-----------------------------------------------------------------------------
(* The messages: client_send, request_sendfile (its Server and Content-Type *)
(* lines left out) and request_error (whose body is two tokens here).       *)
Request(f) == <<<<"get", f>>, EOL, <<"host", 0>>, EOL, EOL>>
Headed(status, length, bytes) ==
  <<<<"status", status>>, EOL, <<"length", length>>, EOL,
    <<"csum", Total(bytes)>>, EOL, EOL>> \o Bytes(bytes)
ReplyShort(bytes) == Headed(200, Len(bytes) - 1, bytes)  \* mutant: off by one
Reply(bytes) == Headed(200, Len(bytes), bytes)
ErrorReply(status) == Headed(status, 2, <<1, 10>>)

Idle == [pc |-> "idle", conn |-> Missing, name |-> Missing, unread |-> <<>>,
         size |-> 0, buf |-> <<>>, out |-> <<>>]
NewClient == [pc |-> "new", want |-> Missing, out |-> <<>>, unread |-> <<>>,
              length |-> 0, csum |-> 0, body |-> <<>>]

Init ==
  /\ up = [c \in Conn |-> <<>>] /\ down = [c \in Conn |-> <<>>]
  /\ closed = {}
  /\ server = Idle
  /\ client = [c \in Conn |-> NewClient]
  /\ disk = File

Dead == server.pc = "crashed"

-----------------------------------------------------------------------------
(* The server thread.                                                       *)
Here == server.conn
ServerGoto(label) == server' = [server EXCEPT !.pc = label]
Gone(c) == client[c].pc \in {"left", "cut"}
ServerEof == up[Here] = <<>> /\ Gone(Here)
ServerReading == server.pc \in {"line", "first", "headers"}

(* unix_error, or SIGPIPE: the process ends, and nobody reads what is still  *)
(* on its way to it.                                                        *)
Crash ==
  /\ server' = [Idle EXCEPT !.pc = "crashed"]
  /\ up' = [c \in Conn |-> <<>>]

(* All that is left to do is to write, and to close.                        *)
Respond(out) == server' = [Idle EXCEPT !.pc = "reply", !.conn = Here, !.out = out]

Accept(c) ==
  /\ server.pc = "idle" /\ c \notin closed
  /\ client[c].pc # "new"
  /\ server' = [server EXCEPT !.pc = "line", !.conn = c]
  /\ UNCHANGED <<up, down, closed, client, disk>>

ServerReceive ==
  /\ ServerReading /\ ~IsWhole(server.unread)
  /\ \E n \in Pieces(up[Here]) :
       /\ server' = [server EXCEPT !.unread = @ \o Taken(up[Here], n)]
       /\ up' = [up EXCEPT ![Here] = Drop(@, n)]
  /\ UNCHANGED <<down, closed, client, disk>>

Returns == IsWhole(server.unread) \/ ServerEof
PastLine == [server EXCEPT !.unread = AfterLine(@)]

(* The request line.  If the connection ended within it, buf holds the      *)
(* beginning of it, or nothing was written to buf, method and uri at all:   *)
(* any method and any name.                                                 *)
ReadRequestLine ==
  /\ server.pc = "line" /\ Returns
  /\ \/ \E f \in Name :
          /\ IsWhole(server.unread) => f = Line(server.unread)[1][2]
          /\ server' = [PastLine EXCEPT !.pc = "first", !.name = f]
     \/ /\ ~IsWhole(server.unread)
        /\ Respond(ErrorReply(501))
  /\ UNCHANGED <<up, down, closed, client, disk>>

(* request_read_headers.  At the end of file nothing is written to buf: at  *)
(* the first call it is uninitialised, and may happen to be an empty line,  *)
(* later it is the line read before and the loop never ends.                *)
ReadHeader ==
  /\ server.pc \in {"first", "headers"} /\ Returns
  /\ \/ /\ Line(server.unread) = Blank \/ (server.unread = <<>> /\ server.pc = "first")
        /\ server' = [PastLine EXCEPT !.pc = "file"]
     \/ /\ Line(server.unread) # Blank
        /\ server' = [PastLine EXCEPT !.pc = "headers"]
  /\ UNCHANGED <<up, down, closed, client, disk>>

(* request_readfile, up to stat.  Missing is also what is not a readable    *)
(* regular file: its status is 403 and the reply the same otherwise.        *)
Stat ==
  /\ server.pc = "file"
  /\ LET f == server.name IN
     IF f \in Hidden \/ disk[f] = Missing
     THEN Respond(ErrorReply(404))
     ELSE server' = [server EXCEPT !.pc = IF disk[f] = <<>> THEN "send" ELSE "load",
                                   !.size = Len(disk[f])]
  /\ UNCHANGED <<up, down, closed, client, disk>>

(* request_readfile, open and Rio_read.  If the file is shorter by now the  *)
(* rest of file_buf is what malloc returned.                                *)
Loaded(bytes, size) ==
  IF Len(bytes) >= size THEN {Taken(bytes, size)}
  ELSE {bytes \o rest : rest \in [1 .. size - Len(bytes) -> Byte]}
Load ==
  /\ server.pc = "load"
  /\ LET bytes == disk[server.name] IN
     \/ bytes = Missing /\ Crash
     \/ /\ bytes # Missing
        /\ \E buf \in Loaded(bytes, server.size) :
             server' = [server EXCEPT !.pc = "send", !.buf = buf]
        /\ UNCHANGED up
  /\ UNCHANGED <<down, closed, client, disk>>

(* request_sendfile, up to its first Rio_write.                             *)
Compose ==
  /\ server.pc = "send"
  /\ Respond(Reply(server.buf))
  /\ UNCHANGED <<up, down, closed, client, disk>>

(* Rio_write of the server.  To a client that has left, the bytes are lost  *)
(* or the write fails.                                                      *)
ResumeLate(out, n) == Drop(out, n + 1)     \* mutant: one byte too far
Resume(out, n) == Drop(out, n)
ServerWrite ==
  /\ server.pc = "reply" /\ server.out # <<>> /\ ~Gone(Here)
  /\ \E n \in Fits(server.out, down[Here]) :
       /\ server' = [server EXCEPT !.out = Resume(@, n)]
       /\ down' = [down EXCEPT ![Here] = @ \o Taken(server.out, n)]
  /\ UNCHANGED <<up, closed, client, disk>>
WriteToNobody ==
  /\ server.pc = "reply" /\ server.out # <<>> /\ Gone(Here)
  /\ \/ Crash
     \/ /\ \E n \in DOMAIN server.out : server' = [server EXCEPT !.out = Resume(@, n)]
        /\ UNCHANGED up
  /\ UNCHANGED <<down, closed, client, disk>>

(* request_destroy.                                                         *)
ForgetClose ==                             \* mutant: the connection stays open
  /\ server.pc = "reply" /\ server.out = <<>>
  /\ server' = Idle
  /\ UNCHANGED <<up, down, closed, client, disk>>
Destroy ==
  /\ server.pc = "reply" /\ server.out = <<>>
  /\ closed' = closed \cup {Here}
  /\ server' = Idle
  /\ UNCHANGED <<up, down, client, disk>>

ServerStep ==
  \/ \E c \in Conn : Accept(c)
  \/ ServerReceive \/ ReadRequestLine \/ ReadHeader \/ Stat \/ Load
  \/ Compose \/ ServerWrite \/ WriteToNobody \/ Destroy

-----------------------------------------------------------------------------
(* The clients.                                                             *)
Waiting == {"status", "header", "body"}
Active == {"send"} \cup Waiting
Ended == {"accepted", "aborted", "left", "cut"}
End(c, how) == client' = [client EXCEPT ![c] = [NewClient EXCEPT !.pc = how]]

(* open_clientfd, and client_send up to its write.                          *)
Connect(c) ==
  /\ client[c].pc = "new" /\ ~Dead
  /\ \E f \in Name :
       client' = [client EXCEPT ![c].pc = "send", ![c].want = f, ![c].out = Request(f)]
  /\ UNCHANGED <<up, down, closed, server, disk>>

ClientWrite(c) ==
  /\ client[c].pc = "send" /\ ~Dead
  /\ \E n \in Fits(client[c].out, up[c]) :
       /\ client' = [client EXCEPT ![c].out = Drop(@, n),
                                   ![c].pc = IF n = Len(client[c].out) THEN "status" ELSE @]
       /\ up' = [up EXCEPT ![c] = @ \o Taken(client[c].out, n)]
  /\ UNCHANGED <<down, closed, server, disk>>

ClientReceive(c) ==
  /\ client[c].pc \in Waiting /\ ~IsWhole(client[c].unread)
  /\ \E n \in Pieces(down[c]) :
       /\ client' = [client EXCEPT ![c].unread = @ \o Taken(down[c], n)]
       /\ down' = [down EXCEPT ![c] = Drop(@, n)]
  /\ UNCHANGED <<up, closed, server, disk>>

ClientEof(c) == down[c] = <<>> /\ (c \in closed \/ Dead)
ClientReturns(c) == IsWhole(client[c].unread) \/ ClientEof(c)
Got(c) == Line(client[c].unread)

(* sscanf of a header line.                                                 *)
Scan(cl, line) ==
  IF line = <<>> THEN cl
  ELSE [cl EXCEPT !.length = IF line[1][1] = "length" THEN line[1][2] ELSE @,
                  !.csum = IF line[1][1] = "csum" THEN line[1][2] ELSE @]

(* The header loop of client_print: the first line is not scanned.  At the  *)
(* end of file the line before is scanned once more, which changes nothing. *)
ClientHeader(c) ==
  /\ client[c].pc \in {"status", "header"} /\ ClientReturns(c)
  /\ LET cl == [client[c] EXCEPT !.unread = AfterLine(@),
                                 !.pc = IF Got(c) \in {Blank, <<>>} THEN "body" ELSE "header"]
     IN client' = [client EXCEPT ![c] = IF @.pc = "status" THEN cl ELSE Scan(cl, Got(c))]
  /\ UNCHANGED <<up, down, closed, server, disk>>

(* The body loop, and the assertions at the end of file.  The body is kept  *)
(* where the code keeps its length and sum, length_received, csum_received. *)
FramedAs(cl) == cl.length = Len(cl.body) /\ cl.csum = Total(cl.body)
BelievesHeader(cl) == cl.csum = Total(File[cl.want]) /\ cl.length = Len(File[cl.want])
                                           \* mutant: the body is not looked at
Accepts(cl) ==
  /\ cl.csum = Total(File[cl.want]) /\ cl.length = Len(File[cl.want])
  /\ FramedAs(cl)
ClientBody(c) ==
  /\ client[c].pc = "body" /\ ClientReturns(c)
  /\ IF Got(c) = <<>>
     THEN End(c, IF Accepts(client[c]) THEN "accepted" ELSE "aborted")
     ELSE client' = [client EXCEPT ![c].unread = AfterLine(@),
                                   ![c].body = @ \o Values(Got(c))]
  /\ UNCHANGED <<up, down, closed, server, disk>>

(* A read or write that fails because the server is gone.                   *)
ClientFails(c) ==
  /\ Dead /\ client[c].pc \in Active /\ c \notin closed
  /\ End(c, "aborted")
  /\ UNCHANGED <<up, down, closed, server, disk>>

ClientStep(c) ==
  \/ ClientWrite(c) \/ ClientReceive(c) \/ ClientHeader(c) \/ ClientBody(c)
  \/ ClientFails(c)

-----------------------------------------------------------------------------
(* The environment: clients are killed ("cut": before all of the request was *)
(* written), files are cut short or removed, other threads of the server run. *)
Leave(c) ==
  /\ c \in Impatient /\ client[c].pc \in Active
  /\ End(c, IF client[c].out = <<>> THEN "left" ELSE "cut")
  /\ down' = [down EXCEPT ![c] = <<>>]
  /\ UNCHANGED <<up, closed, server, disk>>

Shrink(f) ==
  /\ disk[f] # Missing
  /\ \/ disk' = [disk EXCEPT ![f] = Missing]
     \/ \E n \in 0 .. Len(disk[f]) - 1 : disk' = [disk EXCEPT ![f] = Taken(@, n)]
  /\ UNCHANGED <<up, down, closed, server, client>>

(* A call fails in another worker thread: exit ends the whole process.      *)
OtherThreadExits ==
  /\ ~Dead /\ Crash
  /\ UNCHANGED <<down, closed, client, disk>>

Next ==
  \/ ServerStep \/ OtherThreadExits
  \/ \E c \in Conn : Connect(c) \/ ClientStep(c) \/ Leave(c)
  \/ \E f \in Fragile : Shrink(f)

Spec == Init /\ [][Next]_vars

FairSpec ==
  /\ Spec
  /\ WF_vars(ServerStep)
  /\ \A c \in Conn : WF_vars(ClientStep(c))

-----------------------------------------------------------------------------
Token == {"get", "host", "status", "length", "csum", "byte"}
           \X (Name \cup {0, 200, 404, 501} \cup Nat)

(* Every variable has its type, a wire holds no more than fits, and         *)
(* file_buf is as long as data->file_size says when request_sendfile reads  *)
(* it (request_readfile).                                                   *)
RTypeOK ==
  /\ \A c \in Conn : \A w \in {up[c], down[c]} : w \in Seq(Token) /\ Len(w) <= WireCap
  /\ closed \subseteq Conn
  /\ server.conn \in Conn \cup {Missing} /\ server.name \in Name \cup {Missing}
  /\ server.size \in Nat
  /\ server.pc = "send" => Len(server.buf) = server.size
  /\ server.pc \notin {"idle", "crashed"} => server.conn \in Conn \ closed
  /\ \A c \in Conn :
       /\ client[c].pc \in {"new"} \cup Active \cup Ended
       /\ client[c].pc \in Active => client[c].want \in Name
       /\ client[c].length \in Nat /\ client[c].body \in Seq(Byte)

ReadAll(c) == client[c].pc = "body" /\ ClientReturns(c) /\ Got(c) = <<>>

(* request_sendfile, request_error: on every connection the server has      *)
(* closed, a client that has read all of it counted as many bytes as the    *)
(* header announced and computed the announced checksum, whatever happened  *)
(* to the file in between and however reads and writes were cut.  (RTypeOK  *)
(* is part of it: a reply that is sent has the length that was announced.)  *)
RepliesWellFramed ==
  /\ RTypeOK
  /\ \A c \in closed : ReadAll(c) => FramedAs(client[c])

(* The server may give out the file, and it is what the file set says.      *)
Servable(f) == disk[f] = File[f] /\ f \notin Hidden

(* client_print, request_sendfile: a client that asks for a file the server *)
(* may give out, and whose assertions hold, has read the bytes of that file *)
(* and nothing else, even if the server ended in the middle of the reply.   *)
AcceptedIsTheFile ==
  \A c \in Conn : LET cl == client[c] IN
    ReadAll(c) /\ Accepts(cl) /\ Servable(cl.want) => cl.body = File[cl.want]

(* The whole exchange: while the server lives, no client that asks for a    *)
(* file the server may give out fails an assertion.                         *)
SoundRepliesAccepted ==
  \A c \in Conn : LET cl == client[c] IN
    ReadAll(c) /\ ~Accepts(cl) => Dead \/ ~Servable(cl.want)

(* The assertions of client_print decide: they hold of the file the client  *)
(* asked for and of nothing else.                                           *)
AssertionsDecide == AcceptedIsTheFile /\ SoundRepliesAccepted

(* do_server_request, client_request: every request ends, for a client that *)
(* waits for it, unless some client was killed in the middle of a request.  *)
RequestsEnd ==
  \A c \in Conn :
    (client[c].pc = "send") ~> (client[c].pc \in Ended \/ \E d \in Conn : client[d].pc = "cut")

=============================================================================
