------------------------------ MODULE ServerMain ------------------------------
(***************************************************************************)
(* The main loop of webserver/server.c between its listening socket and    *)
(* the fifo ./server_exit, with the script server_shutdown that writes to  *)
(* the fifo, clients that connect again and again (open_clientfd), and     *)
(* several servers started in one directory, on one port or on several.    *)
(* What server_request does with a connection is in RequestQueue.          *)
(***************************************************************************)
EXTENDS Naturals, Sequences

CONSTANTS Server,    \* processes of the server, each run once
          Ports,     \* choices of a port for each of them
          Client,
          Script,    \* calls of server_shutdown
          LISTENQ,   \* connections that wait to be accepted
          Nothing

ASSUME ServerAssumption ==
  /\ LISTENQ \in Nat \ {0}
  /\ {Nothing, "file"} \cap Server = {} /\ Nothing # "file"

VARIABLES
  port,        \* the argument of each server
  spc,         \* where main is
  listening,   \* the servers whose socket listens
  queue,       \* queue[s]: the connections that wait for accept
  conn,        \* conn[s]: those accepted and not yet answered
  fifo,        \* what the name ./server_exit stands for: the fifo a server
               \* made, a regular file ("file"), or nothing (Nothing)
  exitfd,      \* what each server has opened under that name
  data,        \* the fifos something was written to
  came,        \* the servers whose fifo some writer has opened
  cpc,         \* the state of each client's request
  kpc, target  \* where each script is, and the fifo it has found

net == <<listening, queue, conn, cpc>>
names == <<fifo, exitfd, data, came>>
scripts == <<kpc, target>>
svars == <<port, spc, net, names, scripts>>

FifoFirst == <<"unlink", "mkfifo", "open", "bind", "listen", "poll">>   \* mutant
Startup == <<"bind", "listen", "unlink", "mkfifo", "open", "poll">>
After(label) == Startup[1 + CHOOSE k \in DOMAIN Startup : Startup[k] = label]

SInit ==
  /\ port \in Ports
  /\ spc = [s \in Server |-> "off"] /\ listening = {}
  /\ queue = [s \in Server |-> <<>>] /\ conn = [s \in Server |-> {}]
  /\ fifo = Nothing /\ exitfd = [s \in Server |-> Nothing] /\ data = {} /\ came = {}
  /\ cpc = [c \in Client |-> "idle"]
  /\ kpc = [k \in Script |-> "idle"] /\ target = [k \in Script |-> Nothing]

-----------------------------------------------------------------------------
At(s, label) == spc[s] = label
GoTo(s, label) == spc' = [spc EXCEPT ![s] = label]
Waiting(s) == {queue[s][k] : k \in DOMAIN queue[s]} \cup conn[s]

Readers(f) == {s \in Server : exitfd[s] = f}
Writers(f) == {k \in Script : kpc[k] \in {"blocked", "write"} /\ target[k] = f}

(* The process ends: its descriptors are closed, its connections reset, and *)
(* what was written to a fifo that nobody has open any more is lost.        *)
Ends(s) ==
  /\ GoTo(s, "dead")
  /\ listening' = listening \ {s}
  /\ exitfd' = [exitfd EXCEPT ![s] = Nothing]
  /\ data' = {f \in data : Readers(f) # {s} \/ Writers(f) # {}}
  /\ cpc' = [c \in Client |-> IF c \in Waiting(s) THEN "failed" ELSE cpc[c]]
  /\ queue' = [queue EXCEPT ![s] = <<>>] /\ conn' = [conn EXCEPT ![s] = {}]
  /\ UNCHANGED <<port, fifo, came, scripts>>

(* A system call fails (SYS), or the server is killed, anywhere.            *)
Dies(s) == spc[s] \notin {"off", "dead"} /\ Ends(s)

Start(s) ==
  /\ At(s, "off") /\ GoTo(s, Startup[1])
  /\ UNCHANGED <<port, net, names, scripts>>

(* With SO_REUSEADDR two sockets may be bound to one port, but listen fails *)
(* when another socket already listens there, and so does bind.             *)
PortTaken(s) == \E r \in listening \ {s} : port[r] = port[s]

Bind(s) ==
  /\ At(s, "bind") /\ ~PortTaken(s) /\ GoTo(s, After("bind"))
  /\ UNCHANGED <<port, net, names, scripts>>

Listen(s) ==
  /\ At(s, "listen") /\ ~PortTaken(s) /\ GoTo(s, After("listen"))
  /\ listening' = listening \cup {s}
  /\ UNCHANGED <<port, queue, conn, names, cpc, scripts>>

(* open_fifo, whose three calls others may come between.                    *)
Unlink(s) ==
  /\ At(s, "unlink") /\ GoTo(s, After("unlink")) /\ fifo' = Nothing
  /\ UNCHANGED <<port, net, exitfd, data, came, scripts>>

Mkfifo(s) ==
  /\ At(s, "mkfifo") /\ fifo = Nothing /\ GoTo(s, After("mkfifo")) /\ fifo' = s
  /\ UNCHANGED <<port, net, exitfd, data, came, scripts>>

OpenFifo(s) ==
  /\ At(s, "open") /\ fifo # Nothing /\ GoTo(s, After("open"))
  /\ exitfd' = [exitfd EXCEPT ![s] = fifo]
  /\ came' = IF Writers(fifo) = {} THEN came ELSE came \cup {s}
  /\ UNCHANGED <<port, net, fifo, data, scripts>>

(* One of these calls finds its name or port taken, or gone: exit(1).       *)
StartFails(s) ==
  /\ \/ spc[s] \in {"bind", "listen"} /\ PortTaken(s)
     \/ At(s, "mkfifo") /\ fifo # Nothing
     \/ At(s, "open") /\ fifo = Nothing
  /\ Ends(s)

-----------------------------------------------------------------------------
(* poll: a regular file can always be read.                                 *)
ExitRequested(s) == exitfd[s] = "file" \/ exitfd[s] \in data
NoneElseRequested(s) == ExitRequested(s) /\ queue[s] = <<>>   \* mutant: connections first
Break(s) == ExitRequested(s)

HungUp(s) == s \in came /\ Writers(exitfd[s]) = {}

PollExit(s) ==
  /\ At(s, "poll") /\ Break(s) /\ GoTo(s, "close")
  /\ UNCHANGED <<port, net, names, scripts>>

Accept(s) ==
  /\ At(s, "poll") /\ ~Break(s) /\ queue[s] # <<>> /\ GoTo(s, "serve")
  /\ queue' = [queue EXCEPT ![s] = Tail(@)]
  /\ conn' = [conn EXCEPT ![s] = @ \cup {Head(queue[s])}]
  /\ UNCHANGED <<port, listening, names, cpc, scripts>>

(* poll returns because the last writer is gone, without anything to read:  *)
(* the assertion that a connection arrived fails.                           *)
PollHangup(s) == At(s, "poll") /\ ~Break(s) /\ queue[s] = <<>> /\ HungUp(s) /\ Ends(s)

ServerRequest(s) ==
  /\ At(s, "serve") /\ GoTo(s, "poll")
  /\ UNCHANGED <<port, net, names, scripts>>

CloseFifo(s) ==
  /\ At(s, "close") /\ GoTo(s, "exit") /\ fifo' = Nothing
  /\ UNCHANGED <<port, net, exitfd, data, came, scripts>>

ServerExit(s) == At(s, "exit") /\ Ends(s)

(* A worker, or server_request itself, has served a connection.             *)
Answer(s, c) ==
  /\ c \in conn[s]
  /\ conn' = [conn EXCEPT ![s] = @ \ {c}]
  /\ cpc' = [cpc EXCEPT ![c] = "answered"]
  /\ UNCHANGED <<port, spc, listening, queue, names, scripts>>

(* A client: the first request, or the next one.  open_clientfd gives up    *)
(* when the host is not known or nobody listens.                            *)
Connect(c, s) ==
  /\ cpc[c] # "waiting" /\ s \in listening /\ Len(queue[s]) < LISTENQ
  /\ queue' = [queue EXCEPT ![s] = Append(@, c)]
  /\ cpc' = [cpc EXCEPT ![c] = "waiting"]
  /\ UNCHANGED <<port, spc, listening, conn, names, scripts>>

ConnectFails(c) ==
  /\ cpc[c] \notin {"waiting", "failed"}
  /\ cpc' = [cpc EXCEPT ![c] = "failed"]
  /\ UNCHANGED <<port, spc, listening, queue, conn, names, scripts>>

-----------------------------------------------------------------------------
(* server_shutdown: test -p, then echo > ./server_exit.                     *)
Test(k) ==
  /\ kpc[k] = "idle"
  /\ kpc' = [kpc EXCEPT ![k] = IF fifo \in Server THEN "open" ELSE "failed"]
  /\ UNCHANGED <<port, spc, net, names, target>>

(* The name is looked up again: if it is gone the shell makes a file.       *)
OpenAsFile(k) ==
  /\ kpc[k] = "open" /\ fifo \notin Server
  /\ fifo' = "file"
  /\ kpc' = [kpc EXCEPT ![k] = "done"]
  /\ UNCHANGED <<port, spc, net, exitfd, data, came, target>>

OpenAsFifo(k) ==
  /\ kpc[k] = "open" /\ fifo \in Server
  /\ kpc' = [kpc EXCEPT ![k] = "blocked"]
  /\ target' = [target EXCEPT ![k] = fifo]
  /\ came' = came \cup Readers(fifo)
  /\ UNCHANGED <<port, spc, net, fifo, exitfd, data>>

(* Opening a fifo to write waits for a reader.                              *)
Opened(k) ==
  /\ kpc[k] = "blocked" /\ Readers(target[k]) # {}
  /\ kpc' = [kpc EXCEPT ![k] = "write"]
  /\ UNCHANGED <<port, spc, net, names, target>>

Echo(k) ==
  /\ kpc[k] = "write" /\ Readers(target[k]) # {}
  /\ kpc' = [kpc EXCEPT ![k] = "done"]
  /\ data' = data \cup {target[k]}
  /\ UNCHANGED <<port, spc, net, fifo, exitfd, came, target>>

(* It is interrupted, or ended by SIGPIPE when the reader is gone.          *)
ScriptKilled(k) ==
  /\ kpc[k] \in {"blocked", "write"}
  /\ kpc' = [kpc EXCEPT ![k] = "failed"]
  /\ data' = {f \in data : Readers(f) # {} \/ Writers(f) # {k}}
  /\ UNCHANGED <<port, spc, net, fifo, exitfd, came, target>>

SigPipe(k) == kpc[k] = "write" /\ Readers(target[k]) = {} /\ ScriptKilled(k)

-----------------------------------------------------------------------------
Main(s) == \/ Bind(s) \/ Listen(s) \/ Unlink(s) \/ Mkfifo(s) \/ OpenFifo(s) \/ StartFails(s)
           \/ PollExit(s) \/ Accept(s) \/ PollHangup(s) \/ ServerRequest(s) \/ CloseFifo(s)
ClientStep(c) == ConnectFails(c) \/ \E s \in Server : Connect(c, s) \/ Answer(s, c)
ScriptStep(k) == OpenAsFile(k) \/ OpenAsFifo(k) \/ Opened(k) \/ Echo(k) \/ SigPipe(k)

SNext == \/ \E s \in Server : Start(s) \/ Main(s) \/ ServerExit(s) \/ Dies(s)
         \/ \E c \in Client : ClientStep(c)
         \/ \E k \in Script : Test(k) \/ ScriptStep(k) \/ ScriptKilled(k)

(* The kernel runs servers and scripts once they are started.  Nothing is   *)
(* assumed of clients, of server_exit, which may hang, and of kills.        *)
SFairness == /\ \A s \in Server : WF_svars(Main(s))
             /\ \A k \in Script : WF_svars(ScriptStep(k))
SSpec == SInit /\ [][SNext]_svars /\ SFairness

InLoop(s) == spc[s] \in {"poll", "serve"}

OnePort == \A r, s \in Server : port[r] = port[s]

(* While a server runs, ./server_exit is the fifo it made and listens to,   *)
(* and it removes no other, however servers are started, killed and shut    *)
(* down on its port: a second one on the port must fail before it touches   *)
(* the fifo, and the next one finds the port free only when the fifo of the *)
(* last has been removed.  Servers on two ports in one directory take the   *)
(* fifo away from each other.                                               *)
FifoIsServers ==
  OnePort => \A s \in Server : InLoop(s) \/ At(s, "close") => fifo = s /\ exitfd[s] = s

(* A shutdown that has found the fifo of a server in its loop stops it, as  *)
(* long as the script is not interrupted, however many connections arrive.  *)
ShutdownStops ==
  \A s \in Server, k \in Script :
    (kpc[k] = "blocked" /\ target[k] = s /\ InLoop(s) /\ exitfd[s] = s)
      ~> (~InLoop(s) \/ kpc[k] = "failed")
=============================================================================
