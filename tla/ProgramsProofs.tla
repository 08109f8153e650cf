--------------------------- MODULE ProgramsProofs ---------------------------
(***************************************************************************)
(* The sequential programs and the main loop of the server: the fifo a     *)
(* server listens to is its own, however servers are started on one port;  *)
(* a file set that was written to the end serves its clients, and one that *)
(* was not is noticed; the word counter lists each word once with the      *)
(* number of its occurrences, for every text whose different words have    *)
(* room in the table, and therefore for every text whose only spaces are   *)
(* blanks and newlines.                                                    *)
(***************************************************************************)
EXTENDS WordCount, CopyTree, FileSet, ServerMain, QueueLemmas, FiniteSetTheorems

-----------------------------------------------------------------------------
(* The main loop of the server.                                             *)

(* The labels of main after another that may be followed by it.             *)
LEMMA StartupOrder ==
  /\ Startup[1] = "bind" /\ After("bind") = "listen" /\ After("listen") = "unlink"
  /\ After("unlink") = "mkfifo" /\ After("mkfifo") = "open" /\ After("open") = "poll"
<1>1. DOMAIN Startup = 1 .. 6
  BY DEF Startup
<1>2. ASSUME NEW label \in {"bind", "listen", "unlink", "mkfifo", "open"}
      PROVE  \E k \in 1 .. 5 : After(label) = Startup[k + 1] /\ Startup[k] = label
  <2>1. \E k \in DOMAIN Startup : Startup[k] = label
    BY <1>1 DEF Startup
  <2>2. PICK k \in DOMAIN Startup : Startup[k] = label /\ After(label) = Startup[1 + k]
    <3>1. DEFINE k == CHOOSE k \in DOMAIN Startup : Startup[k] = label
    <3>2. k \in DOMAIN Startup /\ Startup[k] = label
      BY <2>1
    <3>3. QED
      BY <3>2 DEF After
  <2>3. k \in 1 .. 5
    BY <1>1, <2>2 DEF Startup
  <2>4. QED
    BY <2>2, <2>3
<1>3. QED
  BY <1>2 DEF Startup

-----------------------------------------------------------------------------
(* The labels of main, those after listen, and those between mkfifo and the *)
(* end of the loop.                                                         *)
Labels == {"off", "bind", "listen", "unlink", "mkfifo", "open", "poll", "serve", "close", "exit",
           "dead"}
Past(s) == spc[s] \in {"unlink", "mkfifo", "open", "poll", "serve", "close", "exit"}
Owns(s) == spc[s] \in {"open", "poll", "serve", "close"}

(* The invariant.  With one port: a server that is past listen is the one   *)
(* that listens, and from mkfifo to its end of the loop the fifo is its     *)
(* own.                                                                     *)
SInv ==
  /\ port \in Ports /\ spc \in [Server -> Labels]
  /\ exitfd \in [Server -> Server \cup {"file", Nothing}]
  /\ fifo \in Server \cup {"file", Nothing} /\ listening \subseteq Server
  /\ \A s \in Server : Past(s) <=> s \in listening
  /\ OnePort => /\ \A r, s \in listening : r = s
                /\ \A s \in Server : Owns(s) => fifo = s
                /\ \A s \in Server : Owns(s) /\ ~At(s, "open") => exitfd[s] = s

(* Nobody has started.                                                      *)
LEMMA ServerInit == SInit => SInv
BY DEF SInit, SInv, Labels, Past, Owns, At

(* Only Listen makes a server the one that listens, and the fifo changes    *)
(* hands only in Unlink, Mkfifo and CloseFifo of that one.                  *)
LEMMA ServerStep == SInv /\ [SNext]_svars => SInv'
<1>. SUFFICES ASSUME SInv, [SNext]_svars PROVE SInv'
  OBVIOUS
<1>1. port \in Ports /\ spc \in [Server -> Labels] /\ fifo \in Server \cup {"file", Nothing}
      /\ exitfd \in [Server -> Server \cup {"file", Nothing}] /\ listening \subseteq Server
  BY DEF SInv
<1>a. Nothing \notin Server /\ "file" \notin Server /\ Nothing # "file"
  BY ServerAssumption
<1>2. CASE UNCHANGED svars
  BY <1>2 DEF SInv, svars, net, names, scripts, Labels, Past, Owns, OnePort, At
<1>3. ASSUME NEW s \in Server, Ends(s) PROVE SInv'
  <2>1. spc' = [spc EXCEPT ![s] = "dead"] /\ listening' = listening \ {s} /\ port' = port
        /\ exitfd' = [exitfd EXCEPT ![s] = Nothing] /\ fifo' = fifo
    BY <1>3 DEF Ends, GoTo
  <2>2. QED
    BY <1>1, <2>1 DEF SInv, Labels, Past, Owns, OnePort, At
<1>4. ASSUME NEW s \in Server, Start(s) PROVE SInv'
  BY <1>1, <1>4, StartupOrder DEF SInv, Labels, Past, Owns, OnePort, At, GoTo, Start, net, names
<1>5. ASSUME NEW s \in Server, Bind(s) PROVE SInv'
  BY <1>1, <1>5, StartupOrder DEF SInv, Labels, Past, Owns, OnePort, At, GoTo, Bind, net, names
<1>6. ASSUME NEW s \in Server, Listen(s) PROVE SInv'
  <2>1. spc[s] = "listen" /\ spc' = [spc EXCEPT ![s] = "unlink"] /\ listening' = listening \cup {s}
        /\ port' = port /\ fifo' = fifo /\ exitfd' = exitfd
        /\ \A r \in listening \ {s} : port[r] # port[s]
    BY <1>6, StartupOrder DEF Listen, At, GoTo, PortTaken, names
  <2>2. OnePort => listening' = {s}
    BY <2>1, <1>1 DEF OnePort
  <2>3. QED
    BY <1>1, <2>1, <2>2 DEF SInv, Labels, Past, Owns, OnePort, At
<1>7. ASSUME NEW s \in Server, Unlink(s) PROVE SInv'
  <2>1. spc[s] = "unlink" /\ spc' = [spc EXCEPT ![s] = "mkfifo"] /\ listening' = listening
        /\ port' = port /\ fifo' = Nothing /\ exitfd' = exitfd
    BY <1>7, StartupOrder DEF Unlink, At, GoTo, net
  <2>2. QED
    BY <1>1, <2>1 DEF SInv, Labels, Past, Owns, OnePort, At
<1>8. ASSUME NEW s \in Server, Mkfifo(s) PROVE SInv'
  <2>1. spc[s] = "mkfifo" /\ spc' = [spc EXCEPT ![s] = "open"] /\ listening' = listening
        /\ port' = port /\ fifo' = s /\ exitfd' = exitfd
    BY <1>8, StartupOrder DEF Mkfifo, At, GoTo, net
  <2>2. QED
    BY <1>1, <2>1 DEF SInv, Labels, Past, Owns, OnePort, At
<1>9. ASSUME NEW s \in Server, OpenFifo(s) PROVE SInv'
  <2>1. spc[s] = "open" /\ spc' = [spc EXCEPT ![s] = "poll"] /\ listening' = listening
        /\ port' = port /\ fifo' = fifo /\ exitfd' = [exitfd EXCEPT ![s] = fifo]
    BY <1>9, StartupOrder DEF OpenFifo, At, GoTo, net
  <2>2. QED
    BY <1>1, <2>1 DEF SInv, Labels, Past, Owns, OnePort, At
<1>10. ASSUME NEW s \in Server, PollExit(s) \/ Accept(s) \/ ServerRequest(s) PROVE SInv'
  <2>1. /\ \/ spc[s] = "poll" /\ spc' = [spc EXCEPT ![s] = "close"]
           \/ spc[s] = "poll" /\ spc' = [spc EXCEPT ![s] = "serve"]
           \/ spc[s] = "serve" /\ spc' = [spc EXCEPT ![s] = "poll"]
        /\ listening' = listening /\ port' = port /\ fifo' = fifo /\ exitfd' = exitfd
    BY <1>10 DEF PollExit, Accept, ServerRequest, At, GoTo, net, names
  <2>2. QED
    BY <1>1, <2>1 DEF SInv, Labels, Past, Owns, OnePort, At
<1>11. ASSUME NEW s \in Server, CloseFifo(s) PROVE SInv'
  <2>1. spc[s] = "close" /\ spc' = [spc EXCEPT ![s] = "exit"] /\ listening' = listening
        /\ port' = port /\ fifo' = Nothing /\ exitfd' = exitfd
    BY <1>11 DEF CloseFifo, At, GoTo, net
  <2>2. QED
    BY <1>1, <2>1 DEF SInv, Labels, Past, Owns, OnePort, At
<1>12. ASSUME NEW s \in Server, StartFails(s) \/ PollHangup(s) \/ ServerExit(s) \/ Dies(s)
       PROVE  SInv'
  BY <1>3, <1>12 DEF StartFails, PollHangup, ServerExit, Dies
<1>13. ASSUME NEW c \in Client, ClientStep(c) PROVE SInv'
  <2>1. UNCHANGED <<port, spc, listening, fifo, exitfd>>
    BY <1>13 DEF ClientStep, ConnectFails, Connect, Answer, names
  <2>2. QED
    BY <2>1 DEF SInv, Labels, Past, Owns, OnePort, At
<1>14. ASSUME NEW k \in Script, OpenAsFile(k) PROVE SInv'
  <2>1. UNCHANGED <<port, spc, listening, exitfd>> /\ fifo \notin Server /\ fifo' = "file"
    BY <1>14 DEF OpenAsFile, net
  <2>2. QED
    BY <2>1, <1>1 DEF SInv, Labels, Past, Owns, OnePort, At
<1>15. ASSUME NEW k \in Script,
              Test(k) \/ OpenAsFifo(k) \/ Opened(k) \/ Echo(k) \/ SigPipe(k) \/ ScriptKilled(k)
       PROVE  SInv'
  <2>1. UNCHANGED <<port, spc, listening, exitfd, fifo>>
    BY <1>15 DEF Test, OpenAsFifo, Opened, Echo, SigPipe, ScriptKilled, net, names
  <2>2. QED
    BY <2>1 DEF SInv, Labels, Past, Owns, OnePort, At
<1>16. QED
  BY <1>2, <1>4, <1>5, <1>6, <1>7, <1>8, <1>9, <1>10, <1>11, <1>12, <1>13, <1>14, <1>15
  DEF SNext, Main, ScriptStep

(* However many servers are started on one port, killed and shut down, the  *)
(* fifo belongs to the one that is in its loop (server.c: main).            *)
THEOREM FifoIsItsOwn == SSpec => []FifoIsServers
<1>1. SInv => FifoIsServers
  BY DEF SInv, FifoIsServers, Owns, InLoop, At
<1>2. QED
  BY ServerInit, ServerStep, <1>1, PTL DEF SSpec

-----------------------------------------------------------------------------
(* File sets.                                                               *)

(* The lines of an index, what a client may make of them, and the index     *)
(* that was there before.                                                   *)
Line == [file : Nat, csum : Nat, len : Nat]
FoundLine == [file : Nat \cup {Unset}, csum : Nat \cup {Unset}, len : Int \cup {Unset}]
Former == Index(Len(OldSet), OldSet)

(* Types.                                                                   *)
FTyped ==
  /\ gpc \in {"options", "file", "block", "count", "entries", "done", "failed"}
  /\ nr_files \in Nat /\ idx_buffer \in Seq(Line) /\ csum \in Nat /\ cut \in BOOLEAN
  /\ index \in Seq(Nat \cup Line) /\ at \in Nat /\ fileset \in Seq(FoundLine)
  /\ clpc \in {"off", "read", "run", "index", "system", "ended", "mismatch", "zero"}

(* What is on disk and in idx_buffer, and how much of the index is written. *)
OnDisk == /\ DOMAIN disk = 0 .. nr_files - 1
          /\ \A f \in DOMAIN disk : disk[f] \in [len : Nat, sum : Nat]
Listed == \A k \in 1 .. Len(idx_buffer) :
            idx_buffer[k] = Info(k - 1, disk[k - 1].sum, disk[k - 1].len)
Filling == /\ nr_files > 0 /\ Len(idx_buffer) = nr_files - 1
           /\ remaining \in Nat /\ file_sz \in Nat
           /\ disk[nr_files - 1].sum = csum /\ disk[nr_files - 1].len + remaining = file_sz
Complete == OnDisk /\ Listed /\ Len(idx_buffer) = nr_files
Begun == /\ Len(index) <= nr_files + 1
         /\ \A k \in 1 .. Len(index) : index[k] = IF k = 1 THEN nr_files ELSE idx_buffer[k - 1]
Kept == index = Former /\ cut = FALSE

(* What holds at each label of fileset.c, and after it has stopped.         *)
GenOk ==
  /\ gpc = "options" => nr_files = 0 /\ idx_buffer = <<>>
  /\ gpc = "file" => Complete
  /\ gpc = "block" => OnDisk /\ Listed /\ Filling
  /\ gpc \in {"options", "file", "block"} => Kept
  /\ gpc \in {"count", "entries", "done"} => Complete /\ Begun /\ cut = FALSE
  /\ gpc = "count" => Len(index) = 0
  /\ gpc = "entries" => Len(index) = 1
  /\ gpc = "done" => Len(index) = nr_files + 1
  /\ gpc = "failed" => Kept \/ (Complete /\ Begun)

(* What the client has read of it.                                          *)
ClientOk ==
  /\ clpc # "off" => gpc \in {"done", "failed"}
  /\ clpc = "off" => at = 0
  /\ at <= Len(index) /\ Len(fileset) = (IF at = 0 THEN 0 ELSE at - 1)
  /\ IF at = 0 THEN count = 0 ELSE count \in ReadNumber
  /\ \A k \in 1 .. Len(fileset) : fileset[k] \in Read(k + 1)
  /\ clpc \in {"run", "ended", "mismatch"} => at = Len(index) /\ count > 0 /\ Len(fileset) = count

FileSetInv == FTyped /\ GenOk /\ ClientOk /\ GoodSetServes

-----------------------------------------------------------------------------
(* The index that was there before has a number and lines.                  *)
LEMMA OldTyped ==
  /\ Former \in Seq(Nat \cup Line)
  /\ \A k \in 2 .. Len(Former) : Former[k] \in Line
<1>1. OldSet \in Seq(Line) /\ Len(OldSet) \in Nat
  BY FileSetAssumption, LenProperties DEF Line
<1>2. /\ OldSet \in Seq(Nat \cup Line)
      /\ <<Len(OldSet)>> \in Seq(Nat \cup Line) /\ Len(<<Len(OldSet)>>) = 1
  BY <1>1, SeqDef
<1>3. QED
  BY <1>1, <1>2, ConcatProperties DEF Former, Index

(* Nothing has been read or written.                                        *)
LEMMA FileSetInit == FInit => FileSetInv
<1>. SUFFICES ASSUME FInit PROVE FileSetInv
  OBVIOUS
<1>1. <<>> \in Seq(Line) /\ <<>> \in Seq(FoundLine) /\ Len(<<>>) = 0
  BY EmptySeq
<1>2. Former \in Seq(Nat \cup Line) /\ Len(Former) \in Nat
  BY OldTyped, LenProperties
<1>3. index = Former /\ cut = FALSE /\ gpc = "options" /\ nr_files = 0 /\ idx_buffer = <<>>
      /\ csum = 0 /\ clpc = "off" /\ at = 0 /\ count = 0 /\ fileset = <<>>
  BY DEF FInit, Former
<1>4. FTyped
  BY <1>1, <1>2, <1>3 DEF FTyped
<1>5. GenOk
  BY <1>3 DEF GenOk, Kept
<1>6. ClientOk /\ GoodSetServes
  BY <1>1, <1>2, <1>3 DEF ClientOk, GoodSetServes
<1>7. QED
  BY <1>4, <1>5, <1>6 DEF FileSetInv

(* The generator's steps before the client starts.                          *)
LEMMA GeneratorStep ==
  ASSUME FileSetInv, FTyped', GenOk', UNCHANGED <<at, count, fileset, clpc>>,
         gpc \notin {"done", "failed"}
  PROVE  FileSetInv'
<1>1. clpc = "off" /\ at = 0 /\ Len(fileset) = 0 /\ count = 0
  BY DEF FileSetInv, ClientOk
<1>2. Len(index') \in Nat
  BY LenProperties DEF FTyped
<1>3. QED
  BY <1>1, <1>2 DEF FileSetInv, ClientOk, GoodSetServes

(* The directory is empty.                                                  *)
LEMMA OpenDirStep == FileSetInv /\ OpenDir => FileSetInv'
<1>. SUFFICES ASSUME FileSetInv, OpenDir PROVE FileSetInv'
  OBVIOUS
<1>1. gpc = "options" /\ gpc' = "file" /\ DOMAIN disk' = {} /\ nr_files' = 0 /\ idx_buffer' = <<>>
      /\ Len(idx_buffer') = 0
      /\ UNCHANGED <<nr_files, idx_buffer, csum, cut, index, at, fileset, clpc, count>>
  BY EmptySeq DEF OpenDir, FileSetInv, GenOk, client
<1>2. FTyped'
  BY <1>1 DEF FileSetInv, FTyped
<1>3. Complete' /\ Kept'
  BY <1>1 DEF FileSetInv, GenOk, Complete, OnDisk, Listed, Kept, Former, Index
<1>4. QED
  BY <1>1, <1>2, <1>3, GeneratorStep DEF GenOk

(* A new file is empty, and its sum starts from 0.                          *)
LEMMA CreateFileStep == FileSetInv /\ CreateFile => FileSetInv'
<1>. SUFFICES ASSUME FileSetInv, CreateFile PROVE FileSetInv'
  OBVIOUS
<1>1. /\ gpc = "file" /\ gpc' = "block" /\ nr_files' = nr_files + 1 /\ csum' = 0
      /\ disk' = [f \in DOMAIN disk \cup {nr_files} |->
                    IF f = nr_files THEN [len |-> 0, sum |-> 0] ELSE disk[f]]
      /\ UNCHANGED <<idx_buffer, cut, index, at, fileset, clpc, count>>
  BY DEF CreateFile, NewSum, client
<1>2. remaining' \in Nat /\ file_sz' = remaining'
  BY FileSetAssumption DEF CreateFile
<1>3. nr_files \in Nat /\ OnDisk /\ Listed /\ Len(idx_buffer) = nr_files /\ Kept
  BY <1>1 DEF FileSetInv, FTyped, GenOk, Complete
<1>4. FTyped'
  BY <1>1 DEF FileSetInv, FTyped
<1>5. OnDisk'
  BY <1>1, <1>3 DEF OnDisk
<1>6. \A k \in 1 .. nr_files : k - 1 \in DOMAIN disk /\ disk'[k - 1] = disk[k - 1]
  BY <1>1, <1>3 DEF OnDisk
<1>7. Listed'
  BY <1>1, <1>3, <1>6 DEF Listed, Info
<1>8. Filling'
  <2>1. nr_files' - 1 = nr_files /\ Len(idx_buffer') = nr_files /\ nr_files' > 0
    BY <1>1, <1>3
  <2>2. nr_files \in DOMAIN disk \cup {nr_files}
    OBVIOUS
  <2>3. disk'[nr_files] = [len |-> 0, sum |-> 0]
    BY <1>1, <2>2
  <2>4. disk'[nr_files' - 1].sum = csum' /\ disk'[nr_files' - 1].len + remaining' = file_sz'
    BY <1>1, <1>2, <2>1, <2>3
  <2>5. QED
    BY <1>2, <2>1, <2>4 DEF Filling
<1>9. Kept'
  BY <1>1, <1>3 DEF Kept, Former, Index
<1>10. QED
  BY <1>1, <1>4, <1>5, <1>7, <1>8, <1>9, GeneratorStep DEF GenOk

(* A block adds its bytes to the file and to the sum.                       *)
LEMMA WriteBlockStep == FileSetInv /\ WriteBlock => FileSetInv'
<1>. SUFFICES ASSUME FileSetInv, WriteBlock PROVE FileSetInv'
  OBVIOUS
<1>0. nr_files \in Nat /\ OnDisk /\ Listed /\ Filling /\ Kept /\ gpc = "block" /\ csum \in Nat
  BY DEF FileSetInv, FTyped, GenOk, WriteBlock
<1>a. DEFINE sz == IF remaining < BLOCK THEN remaining ELSE BLOCK
<1>1. PICK c \in Char :
      /\ remaining' = remaining - sz /\ csum' = csum + sz * c
      /\ disk' = [disk EXCEPT ![nr_files - 1].len = @ + sz, ![nr_files - 1].sum = @ + sz * c]
      /\ UNCHANGED <<gpc, nr_files, file_sz, idx_buffer, cut, index, at, fileset, clpc, count>>
  BY DEF WriteBlock, client
<1>2. sz \in Nat /\ sz <= remaining /\ c \in Nat
  BY <1>0, FileSetAssumption DEF Filling
<1>3. PICK x \in Nat : x = sz * c
  BY <1>2
<1>4. /\ nr_files - 1 \in DOMAIN disk /\ DOMAIN disk = 0 .. nr_files - 1
      /\ disk[nr_files - 1] \in [len : Nat, sum : Nat]
  BY <1>0 DEF OnDisk, Filling
<1>6. HIDE DEF sz
<1>5. /\ csum' = csum + x /\ DOMAIN disk' = DOMAIN disk
      /\ \A f \in DOMAIN disk : f # nr_files - 1 => disk'[f] = disk[f]
      /\ disk'[nr_files - 1] \in [len : Nat, sum : Nat]
      /\ disk'[nr_files - 1].len = disk[nr_files - 1].len + sz
      /\ disk'[nr_files - 1].sum = disk[nr_files - 1].sum + x
  <2>1. csum' = csum + x
    BY <1>1, <1>3
  <2>2. disk' = [disk EXCEPT ![nr_files - 1].len = @ + sz, ![nr_files - 1].sum = @ + x]
    BY <1>1, <1>3
  <2>3. QED
    BY <1>2, <1>4, <2>1, <2>2
<1>7. FTyped'
  BY <1>0, <1>1, <1>5 DEF FileSetInv, FTyped
<1>8. OnDisk'
  BY <1>0, <1>1, <1>2, <1>4, <1>5 DEF OnDisk
<1>9. \A k \in 1 .. nr_files - 1 : disk'[k - 1] = disk[k - 1]
  BY <1>0, <1>4, <1>5
<1>10. Listed' /\ Kept'
  BY <1>0, <1>1, <1>9 DEF Listed, Info, Filling, Kept, Former, Index
<1>11. Filling'
  <2>1. /\ remaining' = remaining - sz /\ UNCHANGED <<nr_files, file_sz, idx_buffer>>
        /\ csum' = csum + x /\ disk'[nr_files - 1].sum = disk[nr_files - 1].sum + x
        /\ disk'[nr_files - 1].len = disk[nr_files - 1].len + sz /\ disk[nr_files - 1].len \in Nat
    BY <1>1, <1>4, <1>5
  <2>2. QED
    BY <1>0, <1>2, <2>1 DEF Filling
<1>12. QED
  BY <1>0, <1>1, <1>7, <1>8, <1>10, <1>11, GeneratorStep DEF GenOk

(* The line of a file whose bytes are all written describes it.             *)
LEMMA ListFileStep == FileSetInv /\ ListFile => FileSetInv'
<1>. SUFFICES ASSUME FileSetInv, ListFile PROVE FileSetInv'
  OBVIOUS
<1>1. nr_files \in Nat /\ OnDisk /\ Listed /\ Filling /\ Kept /\ gpc = "block" /\ csum \in Nat
      /\ idx_buffer \in Seq(Line)
  BY DEF FileSetInv, FTyped, GenOk, ListFile
<1>2. /\ remaining = 0 /\ gpc' = "file"
      /\ idx_buffer' = Append(idx_buffer, Info(nr_files - 1, csum, file_sz))
      /\ UNCHANGED <<nr_files, csum, disk, cut, index, at, fileset, clpc, count>>
  BY DEF ListFile, client, files
<1>3. nr_files - 1 \in DOMAIN disk /\ disk[nr_files - 1] \in [len : Nat, sum : Nat]
  BY <1>1 DEF OnDisk, Filling
<1>4. Info(nr_files - 1, csum, file_sz) =
        Info(nr_files - 1, disk[nr_files - 1].sum, disk[nr_files - 1].len)
  BY <1>1, <1>2, <1>3 DEF Filling, Info
<1>5. Info(nr_files - 1, csum, file_sz) \in Line
  BY <1>1 DEF Filling, Info, Line
<1>6. /\ idx_buffer' \in Seq(Line) /\ Len(idx_buffer') = nr_files
      /\ \A k \in 1 .. nr_files - 1 : idx_buffer'[k] = idx_buffer[k]
      /\ idx_buffer'[nr_files] = Info(nr_files - 1, csum, file_sz)
  BY <1>1, <1>2, <1>5, AppendProperties DEF Filling
<1>7. FTyped'
  BY <1>2, <1>6 DEF FileSetInv, FTyped
<1>8. Complete' /\ Kept'
  <2>1. OnDisk' /\ Kept'
    BY <1>1, <1>2 DEF OnDisk, Kept, Former, Index
  <2>2. ASSUME NEW k \in 1 .. nr_files
        PROVE  idx_buffer'[k] = Info(k - 1, disk'[k - 1].sum, disk'[k - 1].len)
    <3>1. CASE k = nr_files
      BY <1>2, <1>4, <1>6, <3>1
    <3>2. CASE k # nr_files
      BY <1>1, <1>2, <1>6, <3>2 DEF Listed, Filling
    <3>3. QED
      BY <3>1, <3>2
  <2>3. QED
    BY <1>2, <1>6, <2>1, <2>2 DEF Complete, Listed
<1>9. QED
  BY <1>1, <1>2, <1>7, <1>8, GeneratorStep DEF GenOk

(* The index is emptied when all files are listed.                          *)
LEMMA OpenIndexStep == FileSetInv /\ OpenIndex => FileSetInv'
<1>. SUFFICES ASSUME FileSetInv, OpenIndex PROVE FileSetInv'
  OBVIOUS
<1>1. Complete /\ Kept /\ gpc = "file" /\ nr_files \in Nat
  BY DEF FileSetInv, FTyped, GenOk, OpenIndex
<1>2. /\ gpc' = "count" /\ index' = <<>> /\ cut' = FALSE
      /\ UNCHANGED <<nr_files, csum, idx_buffer, disk, cut, at, fileset, clpc, count>>
  BY <1>1 DEF OpenIndex, client, Kept
<1>3. index' \in Seq(Nat \cup Line) /\ Len(index') = 0
  BY <1>2, EmptySeq
<1>4. FTyped'
  BY <1>2, <1>3 DEF FileSetInv, FTyped
<1>5. Complete' /\ Begun'
  BY <1>1, <1>2, <1>3 DEF Complete, OnDisk, Listed, Begun
<1>6. QED
  BY <1>1, <1>2, <1>3, <1>4, <1>5, GeneratorStep DEF GenOk

(* What both calls of Rio_write write.                                      *)
LEMMA WrittenPart ==
  ASSUME FileSetInv, NEW label \in {"entries", "done", "failed"}, NEW lines, NEW whole \in BOOLEAN,
         gpc = "count" \/ gpc = "entries", Written(label, lines, whole),
         IF gpc = "count" THEN lines = <<nr_files>>
                          ELSE \E k \in 0 .. Len(idx_buffer) : lines = SubSeq(idx_buffer, 1, k)
  PROVE  /\ FTyped' /\ Complete' /\ Begun' /\ Complete
         /\ Len(index') = Len(index) + Len(lines) /\ Len(lines) \in Nat
         /\ UNCHANGED <<at, count, fileset, clpc, nr_files>> /\ gpc' = label /\ cut' = ~whole
<1>1. /\ Complete /\ Begun /\ nr_files \in Nat
      /\ idx_buffer \in Seq(Line) /\ index \in Seq(Nat \cup Line)
      /\ Len(index) = IF gpc = "count" THEN 0 ELSE 1
  BY DEF FileSetInv, FTyped, GenOk
<1>2. /\ gpc' = label /\ index' = index \o lines /\ cut' = ~whole
      /\ UNCHANGED <<nr_files, csum, idx_buffer, disk, at, fileset, clpc, count>>
  BY DEF Written, client
<1>3. /\ lines \in Seq(Nat \cup Line) /\ Len(lines) \in Nat
      /\ gpc = "count" => Len(lines) = 1 /\ lines[1] = nr_files
      /\ gpc = "entries" => /\ Len(lines) <= nr_files
                            /\ \A j \in 1 .. Len(lines) : lines[j] = idx_buffer[j]
  <2>1. CASE gpc = "count"
    <3>1. lines = <<nr_files>> /\ nr_files \in Nat \cup Line
      BY <1>1, <2>1
    <3>2. <<nr_files>> \in Seq(Nat \cup Line) /\ Len(<<nr_files>>) = 1 /\ <<nr_files>>[1] = nr_files
      BY <3>1
    <3>3. QED
      BY <2>1, <3>1, <3>2
  <2>2. CASE gpc = "entries"
    <3>1. PICK k \in 0 .. Len(idx_buffer) : lines = SubSeq(idx_buffer, 1, k)
      BY <2>2
    <3>2. idx_buffer \in Seq(Nat \cup Line) /\ Len(idx_buffer) = nr_files
      BY <1>1, SeqDef DEF Complete
    <3>3. /\ lines \in Seq(Nat \cup Line) /\ Len(lines) = k
          /\ \A j \in 1 .. k : lines[j] = idx_buffer[j]
      BY <1>1, <3>1, <3>2, SubSeqProperties
    <3>4. QED
      BY <1>1, <2>2, <3>2, <3>3
  <2>3. QED
    BY <2>1, <2>2
<1>4. /\ index' \in Seq(Nat \cup Line) /\ Len(index') = Len(index) + Len(lines)
      /\ \A j \in 1 .. Len(index) : index'[j] = index[j]
      /\ \A j \in 1 .. Len(lines) : index'[Len(index) + j] = lines[j]
  <2>1. index \in Seq(Nat \cup Line) /\ lines \in Seq(Nat \cup Line)
        /\ Len(index) \in Nat /\ Len(lines) \in Nat
    BY <1>1, <1>3
  <2>2. /\ index \o lines \in Seq(Nat \cup Line) /\ Len(index \o lines) = Len(index) + Len(lines)
        /\ \A j \in 1 .. Len(index) + Len(lines) :
             (index \o lines)[j] = IF j <= Len(index) THEN index[j] ELSE lines[j - Len(index)]
    BY <2>1, ConcatProperties
  <2>3. ASSUME NEW j \in 1 .. Len(lines) PROVE (index \o lines)[Len(index) + j] = lines[j]
    BY <2>1, <2>2
  <2>4. QED
    BY <1>2, <2>1, <2>2, <2>3
<1>5. FTyped'
  BY <1>2, <1>4 DEF FileSetInv, FTyped
<1>6. Complete'
  BY <1>1, <1>2 DEF Complete, OnDisk, Listed
<1>7. Begun'
  <2>1. CASE gpc = "count"
    BY <1>1, <1>2, <1>3, <1>4, <2>1 DEF Begun
  <2>2. CASE gpc = "entries"
    <3>1. Len(index) = 1 /\ index[1] = nr_files
      BY <1>1, <2>2 DEF Begun
    <3>2. ASSUME NEW k \in 1 .. Len(index')
          PROVE  index'[k] = IF k = 1 THEN nr_files ELSE idx_buffer[k - 1]
      <4>1. CASE k = 1
        BY <1>4, <3>1, <4>1
      <4>2. CASE k # 1
        <5>1. k - 1 \in 1 .. Len(lines) /\ 1 + (k - 1) = k
          BY <1>3, <1>4, <3>1, <4>2
        <5>2. QED
          BY <1>3, <1>4, <2>2, <3>1, <4>2, <5>1
      <4>3. QED
        BY <4>1, <4>2
    <3>3. QED
      BY <1>1, <1>2, <1>3, <1>4, <2>2, <3>1, <3>2 DEF Begun
  <2>3. QED
    BY <2>1, <2>2
<1>8. QED
  BY <1>1, <1>2, <1>3, <1>4, <1>5, <1>6, <1>7

(* So the index holds its beginning whenever a call ends, and all of it at  *)
(* the end.                                                                 *)
LEMMA WriteStep == FileSetInv /\ (WriteCount \/ WriteEntries \/ WriteFails) => FileSetInv'
<1>. SUFFICES ASSUME FileSetInv, WriteCount \/ WriteEntries \/ WriteFails PROVE FileSetInv'
  OBVIOUS
<1>0. /\ idx_buffer \in Seq(Line) /\ Len(idx_buffer) \in Nat /\ nr_files \in Nat
      /\ gpc = "count" => Len(index) = 0
      /\ gpc = "entries" => Len(index) = 1 /\ Len(idx_buffer) = nr_files
  BY LenProperties DEF FileSetInv, FTyped, GenOk, Complete
<1>1. CASE WriteCount
  <2>1. gpc = "count" /\ Written("entries", <<nr_files>>, TRUE) /\ Len(<<nr_files>>) = 1
    BY <1>1 DEF WriteCount
  <2>a. FTyped' /\ Complete' /\ Begun' /\ Len(index') = Len(index) + Len(<<nr_files>>)
        /\ UNCHANGED <<at, count, fileset, clpc, nr_files>> /\ gpc' = "entries" /\ cut' = ~TRUE
    BY <2>1, WrittenPart
  <2>2. FTyped' /\ Complete' /\ Begun' /\ Len(index') = 1
        /\ UNCHANGED <<at, count, fileset, clpc, nr_files>> /\ gpc' = "entries" /\ cut' = FALSE
    <3>1. cut' = FALSE
      BY <2>a, Zenon
    <3>2. Len(index') = 1
      BY <1>0, <2>1, <2>a
    <3>3. QED
      BY <2>a, <3>1, <3>2
  <2>3. QED
    BY <2>1, <2>2, GeneratorStep DEF GenOk
<1>2. CASE WriteEntries
  <2>1. gpc = "entries" /\ Written("done", idx_buffer, TRUE)
    BY <1>2 DEF WriteEntries
  <2>2. idx_buffer = SubSeq(idx_buffer, 1, Len(idx_buffer)) /\ Len(idx_buffer) \in 0 .. Len(idx_buffer)
    BY <1>0, SubSeqFull
  <2>a. FTyped' /\ Complete' /\ Begun' /\ Len(index') = Len(index) + Len(idx_buffer)
        /\ UNCHANGED <<at, count, fileset, clpc, nr_files>> /\ gpc' = "done" /\ cut' = ~TRUE
    BY <2>1, <2>2, WrittenPart
  <2>3. FTyped' /\ Complete' /\ Begun' /\ Len(index') = 1 + nr_files
        /\ UNCHANGED <<at, count, fileset, clpc, nr_files>> /\ gpc' = "done" /\ cut' = FALSE
    <3>1. cut' = FALSE
      BY <2>a, Zenon
    <3>2. Len(index') = 1 + nr_files
      BY <1>0, <2>1, <2>a
    <3>3. QED
      BY <2>a, <3>1, <3>2
  <2>4. nr_files' = nr_files /\ nr_files \in Nat
    BY <1>0, <2>3
  <2>5. GenOk'
    BY <2>3, <2>4 DEF GenOk
  <2>6. QED
    BY <2>1, <2>3, <2>5, GeneratorStep
<1>3. CASE WriteFails
  <2>1. /\ gpc \in {"count", "entries"}
        /\ \E lines, whole : /\ whole \in BOOLEAN /\ Written("failed", lines, whole)
              /\ IF gpc = "count" THEN lines = <<nr_files>>
                 ELSE \E k \in 0 .. Len(idx_buffer) : lines = SubSeq(idx_buffer, 1, k)
    <3>1. CASE gpc = "count"
      <4>1. Written("failed", <<nr_files>>, FALSE)
        BY <1>3, <3>1 DEF WriteFails
      <4>2. QED
        BY <3>1, <4>1
    <3>2. CASE gpc # "count"
      <4>1. PICK k \in 1 .. Len(idx_buffer), whole \in BOOLEAN :
              gpc = "entries" /\ Written("failed", SubSeq(idx_buffer, 1, k), whole)
        BY <1>3, <3>2 DEF WriteFails
      <4>2. k \in 0 .. Len(idx_buffer)
        BY <1>0
      <4>3. QED
        BY <3>2, <4>1, <4>2
    <3>3. QED
      BY <3>1, <3>2
  <2>2. FTyped' /\ Complete' /\ Begun' /\ UNCHANGED <<at, count, fileset, clpc>> /\ gpc' = "failed"
    BY <2>1, WrittenPart
  <2>3. QED
    BY <2>1, <2>2, GeneratorStep DEF GenOk
<1>4. QED
  BY <1>1, <1>2, <1>3

(* Whatever was written stays.                                              *)
LEMMA GenFailsStep == FileSetInv /\ GenFails => FileSetInv'
<1>. SUFFICES ASSUME FileSetInv, GenFails PROVE FileSetInv'
  OBVIOUS
<1>1. /\ gpc \notin {"done", "failed"} /\ gpc' = "failed"
      /\ UNCHANGED <<nr_files, csum, idx_buffer, disk, index, cut, at, fileset, clpc, count>>
  BY DEF GenFails, client, files
<1>2. FTyped'
  BY <1>1 DEF FileSetInv, FTyped
<1>3. Kept \/ (Complete /\ Begun)
  BY <1>1 DEF FileSetInv, FTyped, GenOk
<1>4. (Kept \/ (Complete /\ Begun))'
  BY <1>1, <1>3 DEF Kept, Former, Index, Complete, OnDisk, Listed, Begun
<1>5. QED
  BY <1>1, <1>2, <1>4, GeneratorStep DEF GenOk

-----------------------------------------------------------------------------
(* The client.                                                              *)
LEMMA LinesFound ==
  ASSUME FileSetInv, gpc \in {"done", "failed"}, NEW k \in 2 .. Len(index)
  PROVE  index[k] \in Line /\ Read(k) \subseteq FoundLine
<1>1. index[k] \in Line
  <2>1. CASE Kept
    BY <2>1, OldTyped DEF Kept
  <2>2. CASE Complete /\ Begun
    <3>1. idx_buffer \in Seq(Line) /\ nr_files \in Nat /\ index \in Seq(Nat \cup Line)
      BY DEF FileSetInv, FTyped
    <3>2. k - 1 \in 1 .. Len(idx_buffer) /\ index[k] = idx_buffer[k - 1]
      BY <2>2, <3>1, LenProperties DEF Complete, Begun
    <3>3. QED
      BY <3>1, <3>2, ElementOfSeq
  <2>3. QED
    BY <2>1, <2>2 DEF FileSetInv, GenOk
<1>2. Garbled(index[k]) \subseteq FoundLine
  BY <1>1 DEF Garbled, Line, FoundLine, Info
<1>3. index[k] \in FoundLine
  BY <1>1 DEF Line, FoundLine
<1>4. QED
  BY <1>1, <1>2, <1>3 DEF Read

(* The client's steps leave what the generator has made as it is.           *)
LEMMA GenKept ==
  ASSUME FileSetInv, UNCHANGED <<gen, files>>, gpc \in {"done", "failed"}
  PROVE  /\ GenOk' /\ gpc' \in {"done", "failed"}
         /\ ReadNumber' = ReadNumber /\ \A k : Read(k)' = Read(k)
<1>1. UNCHANGED <<gpc, nr_files, csum, idx_buffer, disk, index, cut, remaining, file_sz>>
  BY DEF gen, files
<1>2. GenOk'
  BY <1>1 DEF FileSetInv, GenOk, Complete, OnDisk, Listed, Begun, Kept, Former, Index
<1>3. ReadNumber' = ReadNumber /\ \A k : Read(k)' = Read(k)
  BY <1>1 DEF ReadNumber, Read, Garbled, Info
<1>4. QED
  BY <1>1, <1>2, <1>3

(* The client of a set that was written to the end.                         *)
LEMMA GoodSet ==
  ASSUME FileSetInv, gpc = "done"
  PROVE  /\ Len(index) = nr_files + 1 /\ nr_files \in Nat /\ ReadNumber = {nr_files}
         /\ \A k \in 1 .. Len(fileset) : Matches(fileset[k])
<1>1. /\ Complete /\ Begun /\ cut = FALSE /\ Len(index) = nr_files + 1 /\ nr_files \in Nat
      /\ fileset \in Seq(FoundLine) /\ Len(fileset) \in Nat /\ Len(fileset) <= nr_files
  BY LenProperties DEF FileSetInv, FTyped, GenOk, ClientOk
<1>2. ReadNumber = {nr_files}
  BY <1>1 DEF ReadNumber, Begun
<1>3. ASSUME NEW k \in 1 .. Len(fileset) PROVE Matches(fileset[k])
  <2>1. fileset[k] = index[k + 1]
    BY <1>1 DEF FileSetInv, ClientOk, Read
  <2>2. k + 1 \in 1 .. Len(index) /\ k + 1 # 1 /\ (k + 1) - 1 = k /\ k \in 1 .. Len(idx_buffer)
    BY <1>1 DEF Complete
  <2>3. fileset[k] = Info(k - 1, disk[k - 1].sum, disk[k - 1].len)
    BY <1>1, <2>1, <2>2 DEF Begun, Complete, Listed
  <2>4. k - 1 \in DOMAIN disk
    BY <1>1, <2>2 DEF Complete, OnDisk
  <2>5. QED
    BY <2>3, <2>4 DEF Matches, Info
<1>4. QED
  BY <1>1, <1>2, <1>3

(* The number of files, as far as it was written.                           *)
LEMMA ReadCountStep == FileSetInv /\ ReadCount => FileSetInv'
<1>. SUFFICES ASSUME FileSetInv, ReadCount PROVE FileSetInv'
  OBVIOUS
<1>1. /\ clpc = "read" /\ at = 0 /\ index # <<>> /\ at' = 1 /\ UNCHANGED <<gen, files, fileset>>
      /\ count' \in ReadNumber /\ clpc' \in {"read", "index"} /\ (count' > 0 => clpc' = "read")
  BY DEF ReadCount
<1>2. gpc \in {"done", "failed"} /\ Len(fileset) = 0 /\ index \in Seq(Nat \cup Line) /\ Len(index) >= 1
  BY <1>1, EmptySeq, LenProperties DEF FileSetInv, FTyped, ClientOk
<1>3. GenOk' /\ gpc' \in {"done", "failed"} /\ ReadNumber' = ReadNumber
  BY <1>1, <1>2, GenKept
<1>4. FTyped'
  BY <1>1 DEF FileSetInv, FTyped, gen, files
<1>5. ClientOk'
  BY <1>1, <1>2, <1>3 DEF ClientOk, files
<1>6. GoodSetServes'
  BY <1>1, <1>2, GoodSet DEF GoodSetServes, gen
<1>7. QED
  BY <1>3, <1>4, <1>5, <1>6 DEF FileSetInv

(* A line, as far as it was written.                                        *)
LEMMA ReadEntryStep == FileSetInv /\ ReadEntry => FileSetInv'
<1>. SUFFICES ASSUME FileSetInv, ReadEntry PROVE FileSetInv'
  OBVIOUS
<1>1. PICK e \in Read(at + 1) : fileset' = Append(fileset, e)
  BY DEF ReadEntry
<1>2. /\ clpc = "read" /\ at > 0 /\ at < Len(index) /\ at' = at + 1
      /\ UNCHANGED <<gen, files, clpc, count>>
  BY DEF ReadEntry
<1>3. /\ gpc \in {"done", "failed"} /\ at \in Nat /\ fileset \in Seq(FoundLine)
      /\ Len(fileset) = at - 1 /\ Len(index) \in Nat
  BY <1>2, LenProperties DEF FileSetInv, FTyped, ClientOk
<1>4. e \in FoundLine
  BY <1>2, <1>3, LinesFound
<1>5. /\ fileset' \in Seq(FoundLine) /\ Len(fileset') = at /\ fileset'[at] = e
      /\ \A k \in 1 .. at - 1 : fileset'[k] = fileset[k]
  BY <1>1, <1>3, <1>4, AppendProperties
<1>6. GenOk' /\ gpc' \in {"done", "failed"} /\ ReadNumber' = ReadNumber /\ \A k : Read(k)' = Read(k)
  BY <1>2, <1>3, GenKept
<1>7. FTyped'
  BY <1>2, <1>3, <1>5 DEF FileSetInv, FTyped, gen, files
<1>8. \A k \in 1 .. Len(fileset') : fileset'[k] \in Read(k + 1)'
  <2>1. SUFFICES ASSUME NEW k \in 1 .. at PROVE fileset'[k] \in Read(k + 1)
    BY <1>5, <1>6
  <2>2. CASE k = at
    BY <1>5, <2>2
  <2>3. CASE k # at
    BY <1>3, <1>5, <2>3 DEF FileSetInv, ClientOk
  <2>4. QED
    BY <2>2, <2>3
<1>9. ClientOk'
  BY <1>2, <1>3, <1>5, <1>6, <1>8 DEF FileSetInv, ClientOk, files
<1>10. GoodSetServes'
  BY <1>2 DEF FileSetInv, GoodSetServes, gen
<1>11. QED
  BY <1>6, <1>7, <1>9, <1>10 DEF FileSetInv

(* The other steps of the client change at most where it is.                *)
LEMMA OtherClientStep ==
  ASSUME FileSetInv,
         StartClient \/ EndOfIndex \/ Rejected \/ ClientFails
           \/ \E t \in Thread : Request(t) \/ Mismatch(t) \/ DrawsZero(t)
  PROVE  FileSetInv'
<1>1. /\ UNCHANGED <<gen, files, at, count, fileset>> /\ gpc \in {"done", "failed"}
      /\ clpc' \in {"read", "run", "index", "system", "ended", "mismatch", "zero"}
      /\ clpc' \in {"run", "ended", "mismatch"} =>
           clpc = "run" \/ (at = Len(index) /\ count > 0 /\ Len(fileset) = count)
  BY DEF StartClient, EndOfIndex, Rejected, ClientFails, Request, Mismatch, DrawsZero, End, AllRead,
         FileSetInv, ClientOk
<1>2. GenOk' /\ gpc' \in {"done", "failed"} /\ ReadNumber' = ReadNumber /\ \A k : Read(k)' = Read(k)
  BY <1>1, GenKept
<1>3. FTyped'
  BY <1>1 DEF FileSetInv, FTyped, gen, files
<1>4. ClientOk'
  BY <1>1, <1>2 DEF FileSetInv, ClientOk, files
<1>5. GoodSetServes'
  <2>1. SUFFICES ASSUME gpc = "done", nr_files > 0, clpc \notin {"index", "mismatch"}
                 PROVE  clpc' \notin {"index", "mismatch"}
    BY <1>1 DEF FileSetInv, GoodSetServes, gen
  <2>2. /\ Len(index) = nr_files + 1 /\ nr_files \in Nat /\ (at > 0 => count = nr_files)
        /\ \A k \in 1 .. Len(fileset) : Matches(fileset[k])
        /\ at \in Nat /\ at <= Len(index) /\ Len(fileset) = (IF at = 0 THEN 0 ELSE at - 1)
    BY <2>1, GoodSet DEF FileSetInv, FTyped, ClientOk
  <2>3. ~Rejected
    BY <2>1, <2>2 DEF Rejected, AllRead, RoomFor
  <2>4. ASSUME NEW t \in Thread PROVE ~Mismatch(t)
    BY <2>2 DEF Mismatch, FileSetInv, ClientOk
  <2>5. QED
    BY <2>1, <2>3, <2>4 DEF StartClient, EndOfIndex, ClientFails, Request, DrawsZero, End
<1>6. QED
  BY <1>2, <1>3, <1>4, <1>5 DEF FileSetInv

(* Every step keeps the invariant.                                          *)
LEMMA FileSetStep == FileSetInv /\ [FNext]_fvars => FileSetInv'
<1>. SUFFICES ASSUME FileSetInv, [FNext]_fvars PROVE FileSetInv'
  OBVIOUS
<1>1. CASE UNCHANGED fvars
  BY <1>1 DEF fvars, gen, files, client, FileSetInv, FTyped, GenOk, ClientOk, GoodSetServes, Complete,
              OnDisk, Listed, Filling, Begun, Kept, Former, Index, ReadNumber, Read, Garbled, Info
<1>2. CASE FNext
  BY <1>2, OpenDirStep, CreateFileStep, WriteBlockStep, ListFileStep, OpenIndexStep, WriteStep,
     GenFailsStep, ReadCountStep, ReadEntryStep, OtherClientStep DEF FNext
<1>3. QED
  BY <1>1, <1>2

(* A set written to the end is accepted, and every file in it is on disk    *)
(* with the length and the sum its index says (fileset.c, client.c).        *)
THEOREM GoodSetsServe == FSpec => []GoodSetServes
<1>1. FileSetInv => GoodSetServes
  BY DEF FileSetInv
<1>2. QED
  BY FileSetInit, FileSetStep, <1>1, PTL DEF FSpec

(* A client that starts on an index that was cut has all its lines, and     *)
(* only the last may be wrong (client.c: init_fileset).                     *)
THEOREM CutIndexIsNoticed == FSpec => []CutIndexNoticed
<1>1. ASSUME FileSetInv PROVE CutIndexNoticed
  <2>1. SUFFICES ASSUME clpc \in {"run", "ended", "mismatch"}, index # Former
                 PROVE  /\ Len(fileset) = nr_files
                        /\ \A k \in 1 .. nr_files - 1 : Matches(fileset[k])
    BY DEF CutIndexNoticed, Former
  <2>2. /\ Complete /\ Begun /\ nr_files \in Nat /\ at = Len(index) /\ count > 0 /\ Len(fileset) = count
        /\ fileset \in Seq(FoundLine) /\ Len(fileset) \in Nat /\ at > 0 /\ Len(fileset) = at - 1
        /\ count \in ReadNumber
    BY <1>1, <2>1, LenProperties DEF FileSetInv, FTyped, GenOk, ClientOk, Kept
  <2>3. index[1] = nr_files /\ Len(index) = count + 1
    BY <2>2 DEF Begun
  <2>4. count = nr_files
    BY <2>2, <2>3 DEF ReadNumber
  <2>5. ASSUME NEW k \in 1 .. nr_files - 1 PROVE Matches(fileset[k])
    <3>1. k \in 1 .. Len(fileset) /\ k + 1 # Len(index) /\ k + 1 \in 1 .. Len(index)
      BY <2>2, <2>3, <2>4
    <3>2. fileset[k] = index[k + 1]
      BY <1>1, <3>1 DEF FileSetInv, ClientOk, Read
    <3>3. index[k + 1] = idx_buffer[k] /\ k \in 1 .. Len(idx_buffer)
      BY <2>2, <3>1 DEF Begun, Complete
    <3>4. fileset[k] = Info(k - 1, disk[k - 1].sum, disk[k - 1].len) /\ k - 1 \in DOMAIN disk
      BY <2>2, <3>2, <3>3 DEF Complete, Listed, OnDisk
    <3>5. QED
      BY <3>4 DEF Matches, Info
  <2>6. QED
    BY <2>2, <2>4, <2>5
<1>2. QED
  BY FileSetInit, FileSetStep, <1>1, PTL DEF FSpec

-----------------------------------------------------------------------------
(* The words of a text.                                                     *)
LEMMA TextTyped ==
  ASSUME word_array \in Texts
  PROVE  /\ word_array \in Seq(Space \cup DOMAIN Code)
         /\ Len(word_array) \in Nat \ {0}
         /\ DOMAIN word_array = 1 .. Len(word_array)
<1>1. word_array \in Seq(Space \cup DOMAIN Code) /\ word_array # <<>>
  BY WordCountAssumption
<1>2. QED
  BY <1>1, LenProperties, EmptySeq

(* A word is a pair of places, the first and the last of a run of           *)
(* characters that cannot be made longer.                                   *)
LEMMA WordsTyped ==
  ASSUME word_array \in Texts, NEW r \in Words
  PROVE  /\ r = <<r[1], r[2]>>
         /\ r[1] \in 1 .. Len(word_array) /\ r[2] \in r[1] .. Len(word_array)
         /\ \A k \in r[1] .. r[2] : InWord(k)
         /\ ~InWord(r[1] - 1) /\ ~InWord(r[2] + 1)
<1>1. r \in (DOMAIN word_array) \X (DOMAIN word_array) /\ r[1] <= r[2]
  BY DEF Words
<1>2. DOMAIN word_array = 1 .. Len(word_array) /\ Len(word_array) \in Nat
  BY TextTyped
<1>3. QED
  BY <1>1, <1>2 DEF Words

(* Two words that overlap are the same.                                     *)
LEMMA WordsApart ==
  ASSUME word_array \in Texts, NEW r \in Words, NEW q \in Words, r[1] <= q[2], q[1] <= r[2]
  PROVE  r = q
<1>1. /\ r = <<r[1], r[2]>> /\ r[1] \in Int /\ r[2] \in Int
      /\ \A k \in r[1] .. r[2] : InWord(k)
      /\ ~InWord(r[1] - 1) /\ ~InWord(r[2] + 1)
  BY WordsTyped
<1>2. /\ q = <<q[1], q[2]>> /\ q[1] \in Int /\ q[2] \in Int
      /\ \A k \in q[1] .. q[2] : InWord(k)
      /\ ~InWord(q[1] - 1) /\ ~InWord(q[2] + 1)
  BY WordsTyped
<1> HIDE DEF InWord
<1>3. r[1] = q[1]
  <2>1. ~(r[1] < q[1])
    BY <1>1, <1>2
  <2>2. ~(q[1] < r[1])
    BY <1>1, <1>2
  <2>3. QED
    BY <1>1, <1>2, <2>1, <2>2
<1>4. r[2] = q[2]
  <2>1. ~(r[2] < q[2])
    BY <1>1, <1>2
  <2>2. ~(q[2] < r[2])
    BY <1>1, <1>2
  <2>3. QED
    BY <1>1, <1>2, <2>1, <2>2
<1>5. QED
  BY <1>1, <1>2, <1>3, <1>4

(* There are at most as many words as characters.                           *)
LEMMA WordsFinite ==
  ASSUME word_array \in Texts
  PROVE  IsFiniteSet(Words) /\ Cardinality(Words) <= Len(word_array)
<1>1. Len(word_array) \in Nat
  BY TextTyped
<1> DEFINE f == [r \in Words |-> r[1]]
<1>2. f \in [Words -> 1 .. Len(word_array)]
  BY WordsTyped
<1>3. \A r, q \in Words : f[r] = f[q] => r = q
  <2>1. SUFFICES ASSUME NEW r \in Words, NEW q \in Words, r[1] = q[1] PROVE r = q
    OBVIOUS
  <2>2. r[1] \in Int /\ r[1] <= r[2] /\ q[1] \in Int /\ q[1] <= q[2]
    BY WordsTyped
  <2>3. QED
    BY <2>1, <2>2, WordsApart
<1>4. f \in Injection(Words, 1 .. Len(word_array))
  BY <1>2, <1>3 DEF Injection, IsInjective
<1>5. IsFiniteSet(1 .. Len(word_array)) /\ Cardinality(1 .. Len(word_array)) = Len(word_array)
  <2>1. PICK n \in Nat : n = Len(word_array)
    BY <1>1
  <2>2. IsFiniteSet(1 .. n) /\ Cardinality(1 .. n) = n
    BY FS_Interval
  <2>3. QED
    BY <2>1, <2>2
<1>6. QED
  BY <1>4, <1>5, FS_Injection

(* The words and what is counted of them: NULL is not among them.           *)
LEMMA WordsAreNotNull ==
  ASSUME word_array \in Texts, NEW r \in Words, NEW n \in 1 .. Len(word_array)
  PROVE  Content(r) # NULL /\ [word |-> Content(r), freq |-> n] # NULL
<1>1. r[1] \in DOMAIN word_array /\ r[2] \in DOMAIN word_array
  BY DEF Words
<1>2. QED
  BY <1>1, WordCountAssumption DEF Content

-----------------------------------------------------------------------------
(* The slots.                                                               *)
LEMMA SizeTyped ==
  ASSUME word_array \in Texts
  PROVE  /\ size \in Nat \ {0} /\ word_count(word_array) \in Nat \ {0}
         /\ word_count(word_array) <= size
<1> DEFINE B == {k \in DOMAIN word_array : word_array[k] \in {"blank", "newline"}}
<1>1. PICK n \in Nat : n = Len(word_array) /\ DOMAIN word_array = 1 .. n
  BY TextTyped
<1>2. IsFiniteSet(1 .. n)
  BY FS_Interval
<1>3. B \subseteq 1 .. n
  BY <1>1
<1>4. PICK c \in Nat : c = Cardinality(B)
  BY <1>2, <1>3, FS_Subset, FS_CardinalityType
<1>5. word_count(word_array) = 1 + c
  BY <1>4 DEF word_count
<1>6. PICK w \in Nat \ {0} : w = word_count(word_array)
  <2>1. 1 + c \in Nat \ {0}
    OBVIOUS
  <2>2. QED
    BY <1>5, <2>1
<1>7. PerWord \in Nat \ {0}
  BY WordCountAssumption
<1>8. w * PerWord \in Nat \ {0} /\ w <= w * PerWord
  BY <1>6, <1>7
<1>9. QED
  BY <1>6, <1>8 DEF size

(* A remainder.                                                             *)
LEMMA Remainder ==
  ASSUME NEW n \in Nat \ {0}, NEW a \in Int
  PROVE  a % n \in 0 .. n - 1
OBVIOUS

(* The table of partial hashes of a word of numbers.                        *)
HashTable(w, n, g) ==
  g = [k \in 0 .. n |-> IF k = 0 THEN 7 ELSE (g[k - 1] * 31 + Code[w[k]]) % HashRange]

(* There is one for every length.                                           *)
LEMMA HashTableExists ==
  ASSUME NEW w, NEW n \in Nat
  PROVE  \E g : HashTable(w, n, g)
<1> DEFINE S == {m \in Nat : \E g : HashTable(w, m, g)}
<1>1. 0 \in S
  <2>1. HashTable(w, 0, [k \in 0 .. 0 |-> 7])
    BY DEF HashTable
  <2>2. QED
    BY <2>1
<1>2. ASSUME NEW m \in Nat, m \in S
      PROVE  m + 1 \in S
  <2>1. PICK g : HashTable(w, m, g)
    BY <1>2
  <2> DEFINE next == (g[m] * 31 + Code[w[m + 1]]) % HashRange
             h == [k \in 0 .. m + 1 |-> IF k = m + 1 THEN next ELSE g[k]]
  <2>2. ASSUME NEW k \in 0 .. m + 1
        PROVE  h[k] = IF k = 0 THEN 7 ELSE (h[k - 1] * 31 + Code[w[k]]) % HashRange
    <3>1. CASE k = m + 1
      <4>1. h[k] = next /\ k # 0 /\ k - 1 = m /\ h[k - 1] = g[m]
        BY <3>1
      <4>2. QED
        BY <3>1, <4>1
    <3>2. CASE k # m + 1
      <4>1. k \in 0 .. m /\ h[k] = g[k] /\ (k # 0 => h[k - 1] = g[k - 1])
        BY <3>2
      <4> HIDE DEF h
      <4>2. QED
        BY <2>1, <4>1 DEF HashTable
    <3>3. QED
      BY <3>1, <3>2
  <2>3. HashTable(w, m + 1, h)
    BY <2>2 DEF HashTable
  <2>4. QED
    BY <2>3
<1>3. Nat \subseteq S
  BY <1>1, <1>2, SetInduction
<1>4. QED
  BY <1>3

(* The hash of a word is a slot.                                            *)
LEMMA HashIsSlot ==
  ASSUME word_array \in Texts, NEW w \in Seq(DOMAIN Code)
  PROVE  hash_function(w) \in Slot
<1>1. PICK n \in Nat \ {0} : n = size
  BY SizeTyped
<1>2. PICK len \in Nat : len = Len(w)
  BY LenProperties
<1> DEFINE g == CHOOSE h : HashTable(w, len, h)
<1>3. HashTable(w, len, g)
  BY HashTableExists
<1>4. hash_function(w) = g[len] % n
  BY <1>1, <1>2 DEF hash_function, HashTable
<1> HIDE DEF g
<1>5. HashRange \in Nat \ {0} /\ \A c \in DOMAIN Code : Code[c] \in Int
  BY WordCountAssumption
<1> DEFINE S == {m \in Nat : m <= len => g[m] \in Int}
<1>6. 0 \in S
  BY <1>3 DEF HashTable
<1>7. ASSUME NEW m \in Nat, m \in S
      PROVE  m + 1 \in S
  <2>1. SUFFICES ASSUME m + 1 <= len PROVE g[m + 1] \in Int
    OBVIOUS
  <2>2. g[m + 1] = (g[m] * 31 + Code[w[m + 1]]) % HashRange
    <3>1. \A k \in 0 .. len :
            g[k] = IF k = 0 THEN 7 ELSE (g[k - 1] * 31 + Code[w[k]]) % HashRange
      BY <1>3 DEF HashTable
    <3>2. PICK k \in 0 .. len : k = m + 1 /\ k # 0 /\ k - 1 = m
      BY <2>1
    <3>3. g[k] = (g[k - 1] * 31 + Code[w[k]]) % HashRange
      BY <3>1, <3>2
    <3>4. QED
      BY <3>2, <3>3
  <2>3. g[m] \in Int
    BY <1>7, <2>1
  <2>4. Code[w[m + 1]] \in Int
    <3>1. w[m + 1] \in DOMAIN Code
      BY <1>2, <2>1, ElementOfSeq
    <3>2. QED
      BY <1>5, <3>1
  <2>5. PICK a \in Int, b \in Int : a = g[m] /\ b = Code[w[m + 1]]
    BY <2>3, <2>4
  <2>6. PICK q \in Nat \ {0} : q = HashRange
    BY <1>5
  <2>7. (a * 31 + b) % q \in 0 .. q - 1
    <3>1. a * 31 + b \in Int
      OBVIOUS
    <3>2. QED
      BY <3>1, Remainder
  <2>8. QED
    BY <2>2, <2>5, <2>6, <2>7
<1> HIDE DEF S
<1>8. len \in S
  BY <1>6, <1>7, SetInduction
<1>9. g[len] \in Int
  BY <1>8 DEF S
<1>10. g[len] % n \in 0 .. n - 1
  BY <1>9, Remainder
<1>11. QED
  BY <1>1, <1>4, <1>10 DEF Slot

(* The letters of a word have codes.                                        *)
LEMMA WordTyped ==
  ASSUME word_array \in Texts, NEW r \in Words
  PROVE  Content(r) \in Seq(DOMAIN Code)
<1>1. PICK a \in Nat, b \in Nat : /\ a = r[1] /\ b = r[2] /\ 1 <= a /\ a <= b
                                 /\ b <= Len(word_array)
  BY TextTyped, WordsTyped
<1>2. \A k \in a .. b : word_array[k] \in DOMAIN Code
  <2>1. SUFFICES ASSUME NEW k \in a .. b PROVE word_array[k] \in DOMAIN Code
    OBVIOUS
  <2>2. InWord(k)
    BY <1>1, WordsTyped
  <2>3. k \in 1 .. Len(word_array)
    BY <1>1, <2>2, TextTyped DEF InWord
  <2>4. word_array[k] \in Space \cup DOMAIN Code
    BY <2>3, TextTyped, ElementOfSeq
  <2>5. QED
    BY <2>2, <2>4 DEF InWord
<1>3. word_array \in Seq(Space \cup DOMAIN Code)
  BY TextTyped
<1>4. /\ SubSeq(word_array, a, b) \in Seq(Space \cup DOMAIN Code)
      /\ Len(SubSeq(word_array, a, b)) = b - a + 1
      /\ \A k \in 1 .. b - a + 1 : SubSeq(word_array, a, b)[k] = word_array[a + k - 1]
  BY <1>1, <1>3, SubSeqProperties
<1>5. PICK s : s = SubSeq(word_array, a, b)
  OBVIOUS
<1>6. /\ s \in Seq(Space \cup DOMAIN Code) /\ Len(s) = b - a + 1
      /\ \A k \in 1 .. b - a + 1 : s[k] \in DOMAIN Code
  <2>1. \A k \in 1 .. b - a + 1 : a + k - 1 \in a .. b
    BY <1>1
  <2>2. QED
    BY <1>2, <1>4, <1>5, <2>1
<1>7. s \in [1 .. Len(s) -> DOMAIN Code]
  BY <1>6, LenProperties
<1>8. s \in Seq(DOMAIN Code)
  BY <1>1, <1>6, <1>7, SeqDef
<1>9. QED
  BY <1>1, <1>5, <1>8 DEF Content

(* The slot that is looked at after d probes for w.                         *)
Spot(w, d) == (hash_function(w) + d) % size

(* The probes for a word visit every slot once, in the order of NextSlot.   *)
LEMMA Probes ==
  ASSUME word_array \in Texts, NEW r \in Words
  PROVE  /\ Spot(Content(r), 0) = hash_function(Content(r))
         /\ \A d \in Slot : NextSlot(Spot(Content(r), d)) = Spot(Content(r), d + 1)
         /\ \A d \in 0 .. size : Spot(Content(r), d) \in Slot
         /\ \A d, e \in Slot : Spot(Content(r), d) = Spot(Content(r), e) => d = e
         /\ \A l \in Slot : \E d \in Slot : Spot(Content(r), d) = l
<1>1. PICK n \in Nat \ {0} : n = size
  BY SizeTyped
<1>2. PICK h \in 0 .. n - 1 : h = hash_function(Content(r))
  BY <1>1, WordTyped, HashIsSlot DEF Slot
<1>3. ASSUME NEW d \in 0 .. n
      PROVE  Spot(Content(r), d) = IF h + d < n THEN h + d ELSE h + d - n
  <2>1. Spot(Content(r), d) = (h + d) % n
    BY <1>1, <1>2 DEF Spot
  <2>2. PICK a \in Int : a = h + d /\ a \in 0 .. 2 * n - 1
    BY <1>2
  <2>3. a % n = IF a < n THEN a ELSE a - n
    BY <2>2
  <2>4. QED
    BY <2>1, <2>2, <2>3
<1>4. ASSUME NEW l \in 0 .. n - 1
      PROVE  NextSlot(l) = IF l + 1 < n THEN l + 1 ELSE 0
  <2>1. NextSlot(l) = (l + 1) % n
    BY <1>1 DEF NextSlot
  <2>2. PICK a \in Int : a = l + 1 /\ a \in 1 .. n
    OBVIOUS
  <2>3. a % n = IF a < n THEN a ELSE a - n
    BY <2>2
  <2>4. QED
    BY <2>1, <2>2, <2>3
<1>5. PICK f : f = [d \in 0 .. n |-> Spot(Content(r), d)]
  OBVIOUS
<1>6. \A d \in 0 .. n : Spot(Content(r), d) = f[d] /\ f[d] = IF h + d < n THEN h + d ELSE h + d - n
  BY <1>3, <1>5
<1>7. f[0] = h
  BY <1>6
<1>8. \A d \in 0 .. n - 1 : NextSlot(f[d]) = f[d + 1]
  BY <1>4, <1>6
<1>9. \A d \in 0 .. n : f[d] \in 0 .. n - 1
  BY <1>6
<1>10. \A d, e \in 0 .. n - 1 : f[d] = f[e] => d = e
  BY <1>6
<1>11. ASSUME NEW l \in 0 .. n - 1
       PROVE  \E d \in 0 .. n - 1 : f[d] = l
  <2>1. CASE l >= h
    <3>1. l - h \in 0 .. n - 1 /\ f[l - h] = l
      BY <1>6, <2>1
    <3>2. QED
      BY <3>1
  <2>2. CASE l < h
    <3>1. l - h + n \in 0 .. n - 1 /\ f[l - h + n] = l
      BY <1>6, <2>2
    <3>2. QED
      BY <3>1
  <2>3. QED
    BY <2>1, <2>2
<1>12. Slot = 0 .. n - 1 /\ 0 \in 0 .. n /\ \A d \in 0 .. n - 1 : d \in 0 .. n /\ d + 1 \in 0 .. n
  BY <1>1 DEF Slot
<1>13. Spot(Content(r), 0) = hash_function(Content(r))
  BY <1>2, <1>6, <1>7, <1>12
<1>14. \A d \in Slot : NextSlot(Spot(Content(r), d)) = Spot(Content(r), d + 1)
  BY <1>6, <1>8, <1>12
<1>15. \A d \in 0 .. size : Spot(Content(r), d) \in Slot
  BY <1>1, <1>6, <1>9, <1>12
<1>16. \A d, e \in Slot : Spot(Content(r), d) = Spot(Content(r), e) => d = e
  BY <1>6, <1>10, <1>12
<1>17. \A l \in Slot : \E d \in Slot : Spot(Content(r), d) = l
  BY <1>6, <1>11, <1>12
<1>18. QED
  BY <1>13, <1>14, <1>15, <1>16, <1>17

-----------------------------------------------------------------------------
(* The invariant.                                                           *)
(* How far the text has been divided into words, and the words up to there. *)
Behind == IF consecutive THEN startidx ELSE i
Passed == {r \in Words : r[2] <= Behind}

(* Where w stands up to there, and how often update_table has counted it:   *)
(* it still looks for the last one.                                         *)
Places(w) == {r \in Passed : Content(r) = w}
NrCounted(w) == Cardinality(Places(w)) - (IF word = w THEN 1 ELSE 0)

(* The loop of wc_init is in the middle of a word that begins at startidx,  *)
(* or between words.                                                        *)
ScanOk ==
  /\ word_array \in Texts
  /\ i \in 0 .. Len(word_array) /\ startidx \in 0 .. i
  /\ ctr \in Nat /\ consecutive \in BOOLEAN
  /\ consecutive => /\ ctr = i - startidx /\ ctr > 0 /\ ~InWord(startidx)
                    /\ \A k \in startidx + 1 .. i : InWord(k)
  /\ ~consecutive /\ ~AtEnd => startidx = i /\ ctr = 0 /\ ~InWord(i)

(* An item has a word of the text, and its count so far.                    *)
IsItem(item) ==
  /\ item = [word |-> item.word, freq |-> item.freq]
  /\ Places(item.word) # {}
  /\ item.freq = NrCounted(item.word) /\ item.freq > 0

(* The first d slots that are looked at for w are taken.                    *)
Reached(w, d) == \A e \in 0 .. d - 1 : table[Spot(w, e)] # NULL

(* Each word that has been counted is in one slot, and there are no free    *)
(* slots on the way to it.                                                  *)
TableOk ==
  /\ DOMAIN table = Slot
  /\ \A l \in Filled : IsItem(table[l])
  /\ \A l \in Filled : \E d \in Slot : l = Spot(table[l].word, d) /\ Reached(table[l].word, d)
  /\ \A l, m \in Filled : table[l].word = table[m].word => l = m
  /\ \A r \in Passed : NrCounted(Content(r)) > 0 => \E l \in Filled : table[l].word = Content(r)

(* The loop of update_table has met other words only.                       *)
ProbeOk ==
  word # NULL =>
    /\ Places(word) # {}
    /\ search \in 0 .. size /\ loc = Spot(word, search)
    /\ Reached(word, search)
    /\ \A e \in 0 .. search - 1 : table[Spot(word, e)].word # word

(* The inductive invariant.                                                 *)
WInv == ScanOk /\ (Fits => TableOk /\ ProbeOk)

-----------------------------------------------------------------------------
(* What depends on the text only.                                           *)
LEMMA SameText ==
  ASSUME word_array' = word_array
  PROVE  /\ Words' = Words /\ size' = size /\ Slot' = Slot /\ (Fits <=> Fits')
         /\ \A r : Content(r)' = Content(r)
         /\ \A w : hash_function(w)' = hash_function(w)
         /\ \A w, d : Spot(w, d)' = Spot(w, d)
         /\ \A k : InWord(k)' <=> InWord(k)
<1>1. size' = size /\ Slot' = Slot
  BY DEF size, word_count, Slot
<1>2. \A k : InWord(k)' <=> InWord(k)
  BY DEF InWord
<1>3. Words' = Words
  BY DEF Words, InWord
<1>4. \A r : Content(r)' = Content(r)
  BY DEF Content
<1>5. Distinct' = Distinct
  BY <1>3, <1>4 DEF Distinct
<1>6. Fits <=> Fits'
  BY <1>1, <1>5 DEF Fits
<1>7. \A w : hash_function(w)' = hash_function(w)
  BY DEF hash_function, size, word_count
<1>8. \A w, d : Spot(w, d)' = Spot(w, d)
  BY <1>1, <1>7 DEF Spot
<1>9. QED
  BY <1>1, <1>2, <1>3, <1>4, <1>6, <1>7, <1>8

(* The places of a word can be counted.                                     *)
LEMMA PlacesFinite ==
  ASSUME word_array \in Texts, NEW w
  PROVE  /\ IsFiniteSet(Places(w)) /\ Cardinality(Places(w)) \in 0 .. Len(word_array)
         /\ Places(w) # {} => Cardinality(Places(w)) > 0
<1>1. Places(w) \subseteq Words
  BY DEF Places, Passed
<1>2. IsFiniteSet(Words) /\ Cardinality(Words) <= Len(word_array)
  BY WordsFinite
<1>3. IsFiniteSet(Places(w)) /\ Cardinality(Places(w)) <= Cardinality(Words)
  BY <1>1, <1>2, FS_Subset
<1>4. Cardinality(Places(w)) \in Nat /\ Cardinality(Words) \in Nat /\ Len(word_array) \in Nat
  BY <1>2, <1>3, FS_CardinalityType, TextTyped
<1>5. Places(w) # {} => Cardinality(Places(w)) # 0
  BY <1>3, FS_EmptySet
<1>6. QED
  BY <1>2, <1>3, <1>4, <1>5

(* One character that ends no word.                                         *)
LEMMA NoWordEnds ==
  ASSUME ScanOk, ReadLetter \/ (ReadSpace /\ ~consecutive)
  PROVE  ScanOk' /\ Passed' = Passed /\ word' = word
<1>1. word_array' = word_array /\ ~AtEnd /\ word' = word /\ i' = i + 1
  BY DEF ReadLetter, ReadSpace
<1>2. PICK n \in Nat : n = Len(word_array) /\ DOMAIN word_array = 1 .. n
  BY TextTyped DEF ScanOk
<1>3. /\ i \in 0 .. n - 1 /\ startidx \in 0 .. i /\ ctr \in Nat /\ consecutive \in BOOLEAN
      /\ consecutive => /\ ctr = i - startidx /\ ctr > 0 /\ ~InWord(startidx)
                        /\ \A k \in startidx + 1 .. i : InWord(k)
      /\ ~consecutive => startidx = i /\ ctr = 0 /\ ~InWord(i)
  BY <1>1, <1>2 DEF ScanOk, AtEnd
<1>4. /\ Words' = Words /\ \A k : InWord(k)' <=> InWord(k)
      /\ word_array' \in Texts /\ Len(word_array') = n
  BY <1>1, <1>2, SameText DEF ScanOk
<1>5. CASE ReadLetter
  <2>1. InWord(i + 1)
    BY <1>2, <1>3, <1>5 DEF InWord, ReadLetter, isspace
  <2>2. ctr' = ctr + 1 /\ consecutive' = TRUE /\ startidx' = startidx
    BY <1>5 DEF ReadLetter
  <2>3. ctr' = i' - startidx' /\ ctr' > 0 /\ ~InWord(startidx) /\ i' \in 0 .. n
    BY <1>1, <1>3, <2>2
  <2>4. \A k \in startidx + 1 .. i + 1 : InWord(k)
    BY <1>3, <2>1
  <2>5. ScanOk'
    BY <1>1, <1>3, <1>4, <2>2, <2>3, <2>4 DEF ScanOk
  <2>6. Behind' = Behind
    BY <1>3, <2>2 DEF Behind
  <2>7. QED
    BY <1>1, <1>4, <2>5, <2>6 DEF Passed
<1>6. CASE ReadSpace /\ ~consecutive
  <2>1. ~InWord(i + 1)
    BY <1>6 DEF InWord, ReadSpace, isspace
  <2>2. ctr' = ctr /\ consecutive' = FALSE /\ startidx' = i + 1
    BY <1>6 DEF ReadSpace
  <2>3. ScanOk'
    <3>1. word_array' \in Texts /\ i' \in 0 .. Len(word_array') /\ startidx' \in 0 .. i'
      BY <1>1, <1>3, <1>4, <2>2
    <3>2. ctr' = 0 /\ ctr' \in Nat /\ consecutive' \in BOOLEAN /\ ~consecutive' /\ startidx' = i'
      BY <1>1, <1>3, <1>6, <2>2
    <3>3. ~InWord(i)'
      BY <1>1, <2>1 DEF InWord
    <3>4. QED
      BY <3>1, <3>2, <3>3 DEF ScanOk
  <2>4. Behind' = i + 1 /\ Behind = i
    BY <1>1, <1>6, <2>2 DEF Behind
  <2>5. ASSUME NEW r \in Words PROVE r[2] <= i + 1 <=> r[2] <= i
    <3>1. r[1] \in Int /\ r[2] \in Int /\ r[1] <= r[2] /\ \A k \in r[1] .. r[2] : InWord(k)
      BY WordsTyped DEF ScanOk
    <3>2. r[2] # i + 1
      BY <2>1, <3>1
    <3>3. QED
      BY <1>3, <3>1, <3>2
  <2>6. QED
    BY <1>1, <1>4, <2>3, <2>4, <2>5 DEF Passed
<1>7. QED
  BY <1>5, <1>6

(* The end of a word: the next one of the text is looked up.                *)
LEMMA WordEnds ==
  ASSUME ScanOk, LastWord \/ (ReadSpace /\ consecutive)
  PROVE  /\ ScanOk' /\ table' = table /\ word = NULL
         /\ \E r \in Words : /\ r \notin Passed /\ Passed' = Passed \cup {r}
                             /\ word' = Content(r) /\ loc' = hash_function(Content(r))
                             /\ search' = 0
<1>1. word_array' = word_array /\ consecutive /\ consecutive' = FALSE /\ table' = table /\ ~Probing
  BY DEF LastWord, ReadSpace
<1>2. PICK n \in Nat : n = Len(word_array) /\ DOMAIN word_array = 1 .. n
  BY TextTyped DEF ScanOk
<1>3. /\ i \in 0 .. n /\ startidx \in 0 .. i /\ ctr \in Nat
      /\ ctr = i - startidx /\ ctr > 0 /\ ~InWord(startidx)
      /\ \A k \in startidx + 1 .. i : InWord(k)
  BY <1>1, <1>2 DEF ScanOk
<1>4. /\ Words' = Words /\ \A k : InWord(k)' <=> InWord(k)
      /\ word_array' \in Texts /\ Len(word_array') = n
  BY <1>1, <1>2, SameText DEF ScanOk
<1>5. /\ LookUp
      /\ ~InWord(i + 1)
      /\ i' \in i .. n
      /\ \/ i' = i /\ i' = n /\ startidx' = startidx /\ ctr' = ctr
         \/ i' = i + 1 /\ startidx' = i + 1 /\ ctr' = 0
  <2>1. CASE LastWord
    BY <1>2, <1>3, <2>1 DEF LastWord, InWord, AtEnd
  <2>2. CASE ReadSpace /\ consecutive
    BY <1>2, <1>3, <2>2 DEF ReadSpace, InWord, AtEnd, isspace
  <2>3. QED
    BY <2>1, <2>2
<1>6. PICK r : r = <<startidx + 1, i>>
  OBVIOUS
<1>7. /\ r[1] = startidx + 1 /\ r[2] = i
      /\ r[1] \in DOMAIN word_array /\ r[2] \in DOMAIN word_array
  BY <1>2, <1>3, <1>6
<1>8. r \in Words
  <2>1. /\ \A k \in r[1] .. r[2] : InWord(k)
        /\ r[1] <= r[2] /\ ~InWord(r[1] - 1) /\ ~InWord(r[2] + 1)
    BY <1>3, <1>5, <1>7
  <2>2. QED
    BY <1>6, <1>7, <2>1 DEF Words
<1>9. r \notin Passed
  BY <1>1, <1>3, <1>7 DEF Passed, Behind
<1>10. Passed' = Passed \cup {r}
  <2>1. Behind = startidx /\ Behind' = i' /\ i' \in {i, i + 1}
    BY <1>1, <1>5 DEF Behind
  <2>2. ASSUME NEW q \in Words PROVE q[2] <= i' <=> q[2] <= startidx \/ q = r
    <3>1. q[1] \in Int /\ q[2] \in Int /\ q[1] <= q[2] /\ \A k \in q[1] .. q[2] : InWord(k)
      BY WordsTyped DEF ScanOk
    <3>2. q[2] # i + 1
      BY <1>5, <3>1
    <3>3. CASE q[2] <= startidx \/ q[2] > i
      BY <1>3, <1>7, <2>1, <3>1, <3>2, <3>3
    <3>4. CASE startidx < q[2] /\ q[2] <= i
      <4>1. r[1] <= q[2] /\ q[1] <= r[2]
        BY <1>3, <1>7, <3>1, <3>4
      <4>2. q = r
        BY <1>8, <4>1, WordsApart DEF ScanOk
      <4>3. QED
        BY <1>3, <1>7, <2>1, <4>2
    <3>5. QED
      BY <1>3, <3>1, <3>3, <3>4
  <2>3. QED
    BY <1>4, <1>8, <2>1, <2>2 DEF Passed
<1>11. word' = Content(r) /\ loc' = hash_function(Content(r)) /\ search' = 0
  <2>1. startidx + ctr = i
    BY <1>3
  <2>2. QED
    BY <1>5, <1>7, <2>1 DEF LookUp, Content
<1>12. ScanOk'
  <2>1. word_array' \in Texts /\ i' \in 0 .. Len(word_array') /\ startidx' \in 0 .. i'
    BY <1>3, <1>4, <1>5
  <2>2. ctr' \in Nat /\ consecutive' \in BOOLEAN /\ ~consecutive'
    <3>1. ctr' \in Nat
      BY <1>3, <1>5
    <3>2. consecutive' \in BOOLEAN /\ ~consecutive'
      BY <1>1
    <3>3. QED
      BY <3>1, <3>2
  <2>3. ~AtEnd' => startidx' = i' /\ ctr' = 0 /\ ~InWord(i)'
    <3>1. AtEnd' <=> i' = n
      BY <1>4 DEF AtEnd
    <3>2. CASE i' = i + 1 /\ startidx' = i + 1 /\ ctr' = 0
      <4>1. ~InWord(i)'
        BY <1>1, <1>5, <3>2 DEF InWord
      <4>2. QED
        BY <3>2, <4>1
    <3>3. QED
      BY <1>5, <3>1, <3>2
  <2>4. QED
    BY <2>1, <2>2, <2>3 DEF ScanOk
<1>13. QED
  BY <1>1, <1>8, <1>9, <1>10, <1>11, <1>12 DEF Probing

-----------------------------------------------------------------------------
(* The steps of update_table.                                               *)
(* The words that have been passed are words of the text.                   *)
LEMMA PlacesAreWords ==
  ASSUME word_array \in Texts, NEW w, Places(w) # {}
  PROVE  \E r \in Words : r \in Passed /\ w = Content(r) /\ w # NULL
<1>1. PICK r \in Passed : Content(r) = w
  BY DEF Places
<1>2. r \in Words
  BY <1>1 DEF Passed
<1>3. 1 \in 1 .. Len(word_array)
  BY TextTyped
<1>4. QED
  BY <1>1, <1>2, <1>3, WordsAreNotNull

(* As long as the count of each word in the table is right, the table       *)
(* stays good.                                                              *)
LEMMA SameTable ==
  ASSUME word_array' = word_array, table' = table, TableOk,
         \A w : Places(w) # {} => Places(w)' # {} /\ NrCounted(w)' = NrCounted(w),
         \A q \in Passed' : NrCounted(Content(q))' > 0 =>
            \E p \in Passed : Content(p) = Content(q) /\ NrCounted(Content(p)) > 0
  PROVE  TableOk'
<1>1. /\ Slot' = Slot /\ Filled' = Filled
      /\ \A r : Content(r)' = Content(r)
      /\ \A w, d : Spot(w, d)' = Spot(w, d)
  BY SameText DEF Filled
<1>2. \A w, d : Reached(w, d)' <=> Reached(w, d)
  BY <1>1 DEF Reached
<1>3. DOMAIN table' = Slot'
  BY <1>1 DEF TableOk
<1>4. \A l \in Filled' : IsItem(table[l])'
  <2>1. SUFFICES ASSUME NEW l \in Filled PROVE IsItem(table[l])'
    BY <1>1
  <2>2. PICK item : item = table[l] /\ item = table'[l]
    OBVIOUS
  <2>3. IsItem(item)
    BY <2>2 DEF TableOk
  <2>4. IsItem(item)'
    BY <2>3 DEF IsItem
  <2>5. QED
    BY <2>2, <2>4 DEF IsItem
<1>5. \A l \in Filled' : \E d \in Slot' :
        l = Spot(table[l].word, d)' /\ Reached(table[l].word, d)'
  <2>1. SUFFICES ASSUME NEW l \in Filled
                 PROVE  \E d \in Slot : l = Spot(table[l].word, d)' /\ Reached(table[l].word, d)'
    BY <1>1
  <2>2. PICK d \in Slot : l = Spot(table[l].word, d) /\ Reached(table[l].word, d)
    BY DEF TableOk
  <2>3. PICK w : w = table[l].word /\ w = table'[l].word
    OBVIOUS
  <2>4. l = Spot(w, d)' /\ Reached(w, d)'
    BY <1>1, <1>2, <2>2, <2>3
  <2>5. QED
    BY <2>3, <2>4
<1>6. \A l, m \in Filled' : table'[l].word = table'[m].word => l = m
  BY <1>1 DEF TableOk
<1>7. \A r \in Passed' : NrCounted(Content(r))' > 0 => \E l \in Filled' : table'[l].word = Content(r)'
  BY <1>1 DEF TableOk
<1>8. QED
  BY <1>3, <1>4, <1>5, <1>6, <1>7 DEF TableOk

(* A step that passes no word and counts none.                              *)
LEMMA NothingCounted ==
  ASSUME ScanOk, TableOk, word_array' = word_array, table' = table, Passed' = Passed, word' = word
  PROVE  TableOk'
<1>1. \A r : Content(r)' = Content(r)
  BY SameText
<1>2. \A w : Places(w)' = Places(w)
  BY <1>1 DEF Places
<1>3. \A w : NrCounted(w)' = NrCounted(w)
  BY <1>2 DEF NrCounted
<1>4. \A q \in Passed' : NrCounted(Content(q))' > 0 =>
        \E p \in Passed : Content(p) = Content(q) /\ NrCounted(Content(p)) > 0
  <2>1. SUFFICES ASSUME NEW q \in Passed, NrCounted(Content(q))' > 0
                 PROVE  NrCounted(Content(q)) > 0
    OBVIOUS
  <2>2. PICK w : w = Content(q) /\ w = Content(q)'
    BY <1>1
  <2>3. NrCounted(w)' > 0
    BY <2>1, <2>2
  <2>4. QED
    BY <1>3, <2>2, <2>3
<1>5. QED
  BY <1>2, <1>3, <1>4, SameTable

(* The next word of the text is looked up: it has not been counted yet.     *)
LEMMA LookedUp ==
  ASSUME ScanOk, TableOk, word_array' = word_array, LastWord \/ (ReadSpace /\ consecutive)
  PROVE  TableOk' /\ ProbeOk'
<1>1. /\ word_array \in Texts /\ table' = table /\ word = NULL
  BY WordEnds DEF ScanOk
<1>2. PICK r \in Words : /\ r \notin Passed /\ Passed' = Passed \cup {r}
                         /\ word' = Content(r) /\ loc' = hash_function(Content(r))
                         /\ search' = 0
  BY WordEnds
<1>3. /\ \A q : Content(q)' = Content(q)
      /\ \A w, d : Spot(w, d)' = Spot(w, d)
      /\ size' = size
  BY SameText
<1>4. PICK u : u = Content(r) /\ u = word'
  BY <1>2
<1>5. u # NULL
  <2>1. 1 \in 1 .. Len(word_array)
    BY <1>1, TextTyped
  <2>2. QED
    BY <1>1, <1>4, <2>1, WordsAreNotNull
<1>6. \A w : Places(w)' = IF w = u THEN Places(w) \cup {r} ELSE Places(w)
  BY <1>2, <1>3, <1>4 DEF Places
<1>7. ASSUME NEW w, w # NULL
      PROVE  NrCounted(w)' = NrCounted(w)
  <2>1. IsFiniteSet(Places(w)) /\ r \notin Places(w)
    BY <1>1, <1>2, PlacesFinite DEF Places
  <2>2. PICK c \in Nat : c = Cardinality(Places(w))
    BY <2>1, FS_CardinalityType
  <2>3. NrCounted(w) = c
    BY <1>1, <1>7, <2>2 DEF NrCounted
  <2>4. CASE w = u
    <3>1. Cardinality(Places(w) \cup {r}) = c + 1
      BY <2>1, <2>2, FS_AddElement
    <3>2. Cardinality(Places(w)') = c + 1
      BY <1>6, <2>4, <3>1
    <3>3. NrCounted(w)' = c + 1 - 1
      BY <1>4, <2>4, <3>2 DEF NrCounted
    <3>4. QED
      BY <2>3, <3>3
  <2>5. CASE w # u
    <3>1. Cardinality(Places(w)') = c
      BY <1>6, <2>2, <2>5
    <3>2. NrCounted(w)' = c - 0
      BY <1>4, <2>5, <3>1 DEF NrCounted
    <3>3. QED
      BY <2>3, <3>2
  <2>6. QED
    BY <2>4, <2>5
<1>8. \A w : Places(w) # {} => Places(w)' # {} /\ NrCounted(w)' = NrCounted(w)
  <2>1. SUFFICES ASSUME NEW w, Places(w) # {}
                 PROVE  Places(w)' # {} /\ NrCounted(w)' = NrCounted(w)
    OBVIOUS
  <2>2. w # NULL
    BY <1>1, <2>1, PlacesAreWords
  <2>3. QED
    BY <1>6, <1>7, <2>1, <2>2
<1>9. ASSUME NEW q \in Passed', NrCounted(Content(q))' > 0
      PROVE  \E p \in Passed : Content(p) = Content(q) /\ NrCounted(Content(p)) > 0
  <2>1. PICK w : w = Content(q) /\ w = Content(q)'
    BY <1>3
  <2>2. w # NULL /\ q \in Words
    <3>1. q \in Words
      BY <1>2 DEF Passed
    <3>2. 1 \in 1 .. Len(word_array)
      BY <1>1, TextTyped
    <3>3. QED
      BY <1>1, <2>1, <3>1, <3>2, WordsAreNotNull
  <2>3. NrCounted(w) > 0
    BY <1>7, <1>9, <2>1, <2>2
  <2>4. Places(w) # {}
    <3>1. SUFFICES ASSUME Places(w) = {} PROVE FALSE
      OBVIOUS
    <3>2. Cardinality(Places(w)) = 0
      BY <3>1, FS_EmptySet
    <3>3. NrCounted(w) = 0 - 0
      BY <1>1, <2>2, <3>2 DEF NrCounted
    <3>4. QED
      BY <2>3, <3>3
  <2>5. PICK p \in Passed : Content(p) = w
    BY <2>4 DEF Places
  <2>6. QED
    BY <2>1, <2>3, <2>5
<1>10. TableOk'
  BY <1>1, <1>8, <1>9, SameTable
<1>11. ProbeOk'
  <2>1. Places(u)' # {}
    BY <1>6
  <2>2. 0 \in 0 .. size' /\ loc' = Spot(u, 0)'
    BY <1>1, <1>2, <1>3, <1>4, Probes, SizeTyped
  <2>3. Reached(u, 0)'
    BY DEF Reached
  <2>4. search' = 0
    BY <1>2
  <2>5. QED
    BY <1>4, <2>1, <2>2, <2>3, <2>4 DEF ProbeOk
<1>12. QED
  BY <1>10, <1>11

(* A slot that holds another word: the next one is looked at.               *)
LEMMA Probed ==
  ASSUME ScanOk, TableOk, ProbeOk, Probe
  PROVE  TableOk' /\ ProbeOk'
<1>1. /\ word_array' = word_array /\ table' = table /\ word' = word /\ word # NULL
      /\ i' = i /\ startidx' = startidx /\ consecutive' = consecutive /\ search' = search + 1
      /\ loc' = NextSlot(loc) /\ search < size /\ table[loc] # NULL /\ table[loc].word # word
  BY DEF Probe, Probing, Occupied, SlotsLeft
<1>2. word_array \in Texts
  BY DEF ScanOk
<1>3. /\ size' = size /\ Words' = Words /\ \A q : Content(q)' = Content(q)
      /\ \A w, d : Spot(w, d)' = Spot(w, d)
  BY <1>1, SameText
<1>4. Passed' = Passed
  BY <1>1, <1>3 DEF Passed, Behind
<1>5. TableOk'
  BY <1>1, <1>4, NothingCounted
<1>6. PICK n \in Nat \ {0} : n = size
  BY <1>2, SizeTyped
<1>7. PICK u, s : u = word /\ s = search /\ s \in Nat /\ s < n
  BY <1>1, <1>6 DEF ProbeOk
<1>8. /\ Places(u) # {} /\ loc = Spot(u, s) /\ Reached(u, s)
      /\ \A e \in 0 .. s - 1 : table[Spot(u, e)].word # u
  BY <1>1, <1>7 DEF ProbeOk
<1>9. PICK r \in Words : u = Content(r)
  BY <1>2, <1>8, PlacesAreWords
<1>10. s \in Slot
  BY <1>6, <1>7 DEF Slot
<1>11. NextSlot(Spot(u, s)) = Spot(u, s + 1)
  BY <1>2, <1>9, <1>10, Probes
<1>12. \A e \in 0 .. s : table[Spot(u, e)] # NULL /\ table[Spot(u, e)].word # u
  <2>1. SUFFICES ASSUME NEW e \in 0 .. s
                 PROVE  table[Spot(u, e)] # NULL /\ table[Spot(u, e)].word # u
    OBVIOUS
  <2>2. CASE e = s
    BY <1>1, <1>7, <1>8, <2>2
  <2>3. CASE e # s
    BY <1>7, <1>8, <2>3 DEF Reached
  <2>4. QED
    BY <2>2, <2>3
<1>13. /\ Places(u)' # {}
       /\ Reached(u, s + 1)'
       /\ \A e \in 0 .. s : table'[Spot(u, e)'].word # u
  <2>1. Places(u)' # {}
    BY <1>3, <1>4, <1>8 DEF Places
  <2>2. Reached(u, s + 1)'
    <3>1. \A e \in 0 .. s : table[Spot(u, e)]' # NULL
      BY <1>1, <1>3, <1>12
    <3>2. \A e \in 0 .. (s + 1) - 1 : e \in 0 .. s
      BY <1>7
    <3>3. \A e \in 0 .. (s + 1) - 1 : table[Spot(u, e)]' # NULL
      BY <3>1, <3>2
    <3>4. QED
      BY <3>3 DEF Reached
  <2>3. QED
    BY <1>1, <1>3, <1>12, <2>1, <2>2
<1>14. word' = u /\ search' = s + 1 /\ search' \in 0 .. size' /\ loc' = Spot(u, s + 1)'
  BY <1>1, <1>3, <1>6, <1>7, <1>8, <1>11
<1>15. ProbeOk'
  <2>1. 0 .. search' - 1 = 0 .. s
    BY <1>7, <1>14
  <2>2. \A e \in 0 .. search' - 1 : table'[Spot(word, e)'].word # word'
    BY <1>13, <1>14, <2>1
  <2>3. Places(word)' # {} /\ loc' = Spot(word, search)' /\ Reached(word, search)'
    BY <1>13, <1>14
  <2>4. QED
    BY <1>14, <2>2, <2>3 DEF ProbeOk
<1>16. QED
  BY <1>5, <1>15

(* A new count for a word in its place.                                     *)
LEMMA Stored ==
  ASSUME ScanOk, TableOk, word # NULL, Places(word) # {},
         word_array' = word_array, Passed' = Passed, word' = NULL,
         loc \in Slot, table[loc] = NULL \/ table[loc].word = word,
         \A l \in Filled : table[l].word = word => l = loc,
         \E d \in Slot : loc = Spot(word, d) /\ Reached(word, d),
         table' = [table EXCEPT ![loc] = [word |-> word, freq |-> NrCounted(word) + 1]]
  PROVE  TableOk'
<1>1. /\ word_array \in Texts /\ DOMAIN table = Slot
  BY DEF ScanOk, TableOk
<1>2. /\ Slot' = Slot /\ \A r : Content(r)' = Content(r)
      /\ \A w, d : Spot(w, d)' = Spot(w, d)
  BY SameText
<1>3. PICK u, c : /\ u = word /\ c = Cardinality(Places(u))
                  /\ c \in 1 .. Len(word_array) /\ u # NULL
  BY <1>1, PlacesFinite
<1>4. \A w : Places(w)' = Places(w)
  BY <1>2 DEF Places
<1>5. NrCounted(u) = c - 1 /\ NrCounted(u)' = c
  BY <1>3, <1>4 DEF NrCounted
<1>6. ASSUME NEW w, w # NULL, w # u
      PROVE  NrCounted(w)' = NrCounted(w)
  BY <1>3, <1>4, <1>6 DEF NrCounted
<1>7. PICK item : item = [word |-> u, freq |-> c] /\ item # NULL
  <2>1. PICK r \in Words : u = Content(r)
    BY <1>1, <1>3, PlacesAreWords
  <2>2. QED
    BY <1>1, <1>3, <2>1, WordsAreNotNull
<1>8. /\ \A l \in Slot : table'[l] = IF l = loc THEN item ELSE table[l]
      /\ DOMAIN table' = Slot' /\ Filled' = Filled \cup {loc} /\ table'[loc].word = u
  <2>1. DOMAIN table' = Slot /\ \A l \in Slot : table'[l] = IF l = loc THEN item ELSE table[l]
    <3>1. NrCounted(word) + 1 = c
      BY <1>3, <1>5
    <3>2. QED
      BY <1>1, <1>3, <1>7, <3>1
  <2>2. Filled' = Filled \cup {loc}
    BY <1>2, <1>7, <2>1 DEF Filled
  <2>3. QED
    BY <1>2, <1>7, <2>1, <2>2
<1>9. \A l \in Filled' : l # loc => /\ l \in Filled /\ table'[l] = table[l]
                                    /\ table[l].word # u
  BY <1>3, <1>8 DEF Filled
<1>10. ASSUME NEW w, Places(w) # {}, NEW d \in Slot, Reached(w, d)
       PROVE  Reached(w, d)'
  <2>1. SUFFICES ASSUME NEW e \in 0 .. d - 1 PROVE table'[Spot(w, e)'] # NULL
    BY DEF Reached
  <2>2. table[Spot(w, e)] # NULL
    BY <1>10 DEF Reached
  <2>3. Spot(w, e) \in Slot
    <3>1. PICK r \in Words : w = Content(r)
      BY <1>1, <1>10, PlacesAreWords
    <3>2. e \in 0 .. size
      BY <1>1, SizeTyped DEF Slot
    <3>3. QED
      BY <1>1, <3>1, <3>2, Probes
  <2>4. QED
    BY <1>2, <1>7, <1>8, <2>2, <2>3
<1>11. \A l \in Filled' : IsItem(table[l])'
  <2>1. SUFFICES ASSUME NEW l \in Filled' PROVE IsItem(table[l])'
    OBVIOUS
  <2>2. PICK new : new = table'[l]
    OBVIOUS
  <2>3. IsItem(new)'
    <3>1. CASE l = loc
      <4>1. new = [word |-> u, freq |-> c] /\ Places(u)' # {} /\ c > 0
        BY <1>3, <1>4, <1>7, <1>8, <2>2, <3>1
      <4>2. QED
        BY <1>5, <4>1 DEF IsItem
    <3>2. CASE l # loc
      <4>1. l \in Filled /\ new = table[l] /\ new.word # u
        BY <1>9, <2>1, <2>2, <3>2
      <4>2. IsItem(new)
        BY <4>1 DEF TableOk
      <4>3. PICK w : w = new.word
        OBVIOUS
      <4>4. w # NULL /\ w # u
        BY <1>1, <4>1, <4>2, <4>3, PlacesAreWords DEF IsItem
      <4>5. NrCounted(w)' = NrCounted(w) /\ Places(w)' = Places(w)
        BY <1>4, <1>6, <4>4
      <4>6. QED
        BY <4>2, <4>3, <4>5 DEF IsItem
    <3>3. QED
      BY <3>1, <3>2
  <2>4. QED
    BY <2>2, <2>3 DEF IsItem
<1>12. \A l \in Filled' : \E d \in Slot' :
        l = Spot(table[l].word, d)' /\ Reached(table[l].word, d)'
  <2>1. SUFFICES ASSUME NEW l \in Filled'
                 PROVE  \E d \in Slot : l = Spot(table[l].word, d)' /\ Reached(table[l].word, d)'
    BY <1>2
  <2>2. PICK w : w = table'[l].word
    OBVIOUS
  <2>3. Places(w) # {} /\ \E d \in Slot : l = Spot(w, d) /\ Reached(w, d)
    <3>1. CASE l = loc
      BY <1>3, <1>8, <2>2, <3>1
    <3>2. CASE l # loc
      <4>1. l \in Filled /\ w = table[l].word
        BY <1>9, <2>1, <2>2, <3>2
      <4>2. QED
        BY <4>1 DEF TableOk, IsItem
    <3>3. QED
      BY <3>1, <3>2
  <2>4. PICK d \in Slot : l = Spot(w, d) /\ Reached(w, d)
    BY <2>3
  <2>5. l = Spot(w, d)' /\ Reached(w, d)'
    BY <1>2, <1>10, <2>3, <2>4
  <2>6. QED
    BY <2>2, <2>5
<1>13. \A l, m \in Filled' : table'[l].word = table'[m].word => l = m
  BY <1>8, <1>9 DEF TableOk
<1>14. \A r \in Passed' : NrCounted(Content(r))' > 0 => \E l \in Filled' : table'[l].word = Content(r)'
  <2>1. SUFFICES ASSUME NEW r \in Passed, NrCounted(Content(r))' > 0
                 PROVE  \E l \in Filled' : table'[l].word = Content(r)
    BY <1>2
  <2>2. PICK w : w = Content(r) /\ w = Content(r)' /\ Places(w) # {}
    BY <1>2 DEF Places
  <2>3. CASE w = u
    <3>1. loc \in Filled' /\ table'[loc].word = w
      BY <1>8, <2>3
    <3>2. QED
      BY <2>2, <3>1
  <2>4. CASE w # u
    <3>1. w # NULL
      BY <1>1, <2>2, PlacesAreWords
    <3>2. NrCounted(w) > 0
      BY <1>6, <2>1, <2>2, <2>4, <3>1
    <3>3. PICK l \in Filled : table[l].word = w
      BY <2>2, <3>2 DEF TableOk
    <3>4. l \in Filled' /\ table'[l].word = w
      <4>1. l \in Slot /\ (l = loc => table[loc] # NULL)
        BY <3>3 DEF Filled
      <4>2. l # loc
        BY <1>3, <2>4, <3>3, <4>1
      <4>3. QED
        BY <1>8, <3>3, <4>1, <4>2
    <3>5. QED
      BY <2>2, <3>4
  <2>5. QED
    BY <2>3, <2>4
<1>15. QED
  BY <1>8, <1>11, <1>12, <1>13, <1>14 DEF TableOk

(* The different words can be counted.                                      *)
LEMMA DistinctFinite ==
  ASSUME word_array \in Texts
  PROVE  IsFiniteSet(Distinct) /\ Cardinality(Distinct) \in Nat
<1> DEFINE f == [r \in Words |-> Content(r)]
<1>1. f \in Surjection(Words, Distinct)
  BY DEF Surjection, Distinct
<1>2. IsFiniteSet(Words)
  BY WordsFinite
<1>3. QED
  BY <1>1, <1>2, FS_Surjection, FS_CardinalityType

(* As many words as slots, and the one looked for is none of them: the      *)
(* table would not have been large enough.                                  *)
LEMMA SearchEnds ==
  ASSUME ScanOk, Fits, TableOk, ProbeOk, word # NULL
  PROVE  search \in 0 .. size - 1
<1>1. word_array \in Texts
  BY DEF ScanOk
<1>2. PICK n \in Nat \ {0} : n = size /\ Slot = 0 .. n - 1
  BY <1>1, SizeTyped DEF Slot
<1>3. PICK u : u = word
  OBVIOUS
<1>4. /\ Places(u) # {} /\ search \in 0 .. n /\ Reached(u, search)
      /\ \A e \in 0 .. search - 1 : table[Spot(u, e)].word # u
  BY <1>2, <1>3 DEF ProbeOk
<1>5. PICK r \in Words : u = Content(r)
  BY <1>1, <1>4, PlacesAreWords
<1>6. SUFFICES ASSUME search = n PROVE FALSE
  BY <1>2, <1>4
<1>7. ASSUME NEW l \in Slot
      PROVE  l \in Filled /\ table[l].word \in Distinct \ {u}
  <2>1. PICK d \in Slot : Spot(u, d) = l
    BY <1>1, <1>5, Probes
  <2>2. d \in 0 .. search - 1
    BY <1>2, <1>6
  <2>3. table[l] # NULL /\ table[l].word # u
    BY <1>4, <2>1, <2>2 DEF Reached
  <2>4. l \in Filled
    BY <2>3 DEF Filled
  <2>5. Places(table[l].word) # {}
    BY <2>4 DEF TableOk, IsItem
  <2>6. table[l].word \in Distinct
    BY <1>1, <2>5, PlacesAreWords DEF Distinct
  <2>7. QED
    BY <2>3, <2>4, <2>6
<1>8. u \in Distinct
  BY <1>5 DEF Distinct
<1>9. PICK c \in Nat : c = Cardinality(Distinct) /\ c <= n
  BY <1>1, <1>2, DistinctFinite DEF Fits
<1>10. IsFiniteSet(Distinct \ {u}) /\ Cardinality(Distinct \ {u}) = c - 1
  BY <1>1, <1>8, <1>9, DistinctFinite, FS_RemoveElement
<1> DEFINE f == [l \in 0 .. n - 1 |-> table[l].word]
<1>11. f \in [0 .. n - 1 -> Distinct \ {u}]
  BY <1>2, <1>7
<1>12. \A l, m \in 0 .. n - 1 : f[l] = f[m] => l = m
  BY <1>2, <1>7 DEF TableOk
<1>13. f \in Injection(0 .. n - 1, Distinct \ {u})
  BY <1>11, <1>12 DEF Injection, IsInjective
<1>14. Cardinality(0 .. n - 1) <= c - 1
  BY <1>10, <1>13, FS_Injection
<1>15. Cardinality(0 .. n - 1) = n
  <2>1. PICK m \in Int : m = n - 1 /\ m >= 0
    BY <1>2
  <2>2. Cardinality(0 .. m) = m - 0 + 1
    BY <2>1, FS_Interval
  <2>3. QED
    BY <2>1, <2>2
<1>16. QED
  BY <1>9, <1>14, <1>15

(* Where update_table stores, the word is counted once more.                *)
LEMMA StoredByStep ==
  ASSUME ScanOk, Fits, TableOk, ProbeOk, CountWord \/ InsertWord
  PROVE  /\ word # NULL /\ Places(word) # {} /\ word' = NULL /\ word_array' = word_array
         /\ loc \in Slot /\ (table[loc] = NULL \/ table[loc].word = word)
         /\ \A l \in Filled : table[l].word = word => l = loc
         /\ \E d \in Slot : loc = Spot(word, d) /\ Reached(word, d)
         /\ table' = [table EXCEPT ![loc] = [word |-> word, freq |-> NrCounted(word) + 1]]
<1>1. /\ word # NULL /\ word' = NULL /\ word_array' = word_array
      /\ word_array \in Texts
  BY DEF CountWord, InsertWord, Probing, ScanOk
<1>2. PICK n \in Nat \ {0} : n = size /\ Slot = 0 .. n - 1
  BY <1>1, SizeTyped DEF Slot
<1>3. PICK u, s : u = word /\ s = search /\ s \in 0 .. n - 1 /\ s \in Slot
  BY <1>1, <1>2, SearchEnds
<1>4. /\ Places(u) # {} /\ loc = Spot(u, s) /\ Reached(u, s)
      /\ \A e \in 0 .. s - 1 : table[Spot(u, e)].word # u
  BY <1>1, <1>3 DEF ProbeOk
<1>5. PICK r \in Words : u = Content(r)
  BY <1>1, <1>4, PlacesAreWords
<1>6. loc \in Slot /\ s \in 0 .. size
  BY <1>1, <1>2, <1>3, <1>4, <1>5, Probes
<1>7. SlotsLeft
  BY <1>2, <1>3 DEF SlotsLeft
<1>8. CASE CountWord
  <2>1. /\ table[loc] # NULL /\ table[loc].word = u
        /\ table' = [table EXCEPT ![loc].freq = @ + 1]
    BY <1>3, <1>8 DEF CountWord, Occupied
  <2>2. loc \in Filled
    BY <1>6, <2>1 DEF Filled
  <2>3. PICK item : item = table[loc]
    OBVIOUS
  <2>4. item = [word |-> u, freq |-> NrCounted(u)]
    <3>1. IsItem(item)
      BY <2>2, <2>3 DEF TableOk
    <3>2. QED
      BY <2>1, <2>3, <3>1 DEF IsItem
  <2>5. [item EXCEPT !.freq = @ + 1] = [word |-> u, freq |-> NrCounted(u) + 1]
    BY <2>4
  <2>6. table' = [table EXCEPT ![loc] = [word |-> u, freq |-> NrCounted(u) + 1]]
    BY <2>1, <2>3, <2>5
  <2>7. \A l \in Filled : table[l].word = u => l = loc
    BY <2>1, <2>2 DEF TableOk
  <2>8. QED
    BY <1>1, <1>3, <1>4, <1>6, <2>1, <2>6, <2>7
<1>9. CASE InsertWord
  <2>1. table[loc] = NULL /\ table' = [table EXCEPT ![loc] = [word |-> u, freq |-> 1]]
    BY <1>3, <1>7, <1>9 DEF InsertWord, Occupied, create
  <2>2. ASSUME NEW l \in Filled PROVE table[l].word # u
    <3>1. SUFFICES ASSUME table[l].word = u PROVE FALSE
      OBVIOUS
    <3>2. PICK d \in Slot : l = Spot(u, d) /\ Reached(u, d)
      BY <3>1 DEF TableOk
    <3>3. table[l] # NULL
      BY DEF Filled
    <3>4. CASE d < s
      <4>1. d \in 0 .. s - 1
        BY <1>2, <1>3, <3>4
      <4>2. QED
        BY <1>4, <3>1, <3>2, <4>1
    <3>5. CASE d = s
      BY <1>4, <2>1, <3>2, <3>3, <3>5
    <3>6. CASE s < d
      <4>1. s \in 0 .. d - 1
        BY <1>2, <1>3, <3>6
      <4>2. QED
        BY <1>4, <2>1, <3>2, <4>1 DEF Reached
    <3>7. QED
      BY <1>2, <1>3, <3>4, <3>5, <3>6
  <2>3. NrCounted(u) = 0
    <3>1. PICK c \in Nat : c = Cardinality(Places(u)) /\ c > 0
      BY <1>1, <1>4, PlacesFinite, TextTyped
    <3>2. NrCounted(u) = c - 1
      BY <1>3, <3>1 DEF NrCounted
    <3>3. PICK q \in Passed : Content(q) = u
      BY <1>4 DEF Places
    <3>4. ~(NrCounted(u) > 0)
      BY <2>2, <3>3 DEF TableOk
    <3>5. QED
      BY <3>1, <3>2, <3>4
  <2>4. table' = [table EXCEPT ![loc] = [word |-> u, freq |-> NrCounted(u) + 1]]
    BY <2>1, <2>3
  <2>5. QED
    BY <1>1, <1>3, <1>4, <1>6, <2>1, <2>2, <2>4
<1>10. QED
  BY <1>8, <1>9

-----------------------------------------------------------------------------
(* The invariant holds.                                                     *)
LEMMA WInitOk == WInit => WInv
<1>1. SUFFICES ASSUME WInit PROVE WInv
  OBVIOUS
<1>2. /\ word_array \in Texts /\ i = 0 /\ startidx = 0 /\ ctr = 0 /\ consecutive = FALSE
      /\ word = NULL /\ table = [l \in Slot |-> NULL]
  BY <1>1 DEF WInit
<1>3. ScanOk
  <2>1. PICK n \in Nat \ {0} : n = Len(word_array) /\ DOMAIN word_array = 1 .. n
    BY <1>2, TextTyped
  <2>2. ~InWord(0)
    BY <2>1 DEF InWord
  <2>3. /\ i \in 0 .. Len(word_array) /\ startidx \in 0 .. i /\ ctr \in Nat
        /\ startidx = i /\ ~InWord(i)
    BY <1>2, <2>1, <2>2
  <2>4. consecutive \in BOOLEAN /\ ~consecutive
    BY <1>2
  <2>5. QED
    BY <1>2, <2>3, <2>4 DEF ScanOk
<1>4. Filled = {}
  BY <1>2 DEF Filled
<1>5. \A r \in Passed : FALSE
  <2>1. SUFFICES ASSUME NEW r \in Words, r[2] <= 0 PROVE FALSE
    BY <1>2 DEF Passed, Behind
  <2>2. r[1] >= 1 /\ r[1] \in Int /\ r[2] >= r[1] /\ r[2] \in Int
    BY <1>2, WordsTyped
  <2>3. QED
    BY <2>1, <2>2
<1>6. TableOk
  BY <1>2, <1>4, <1>5 DEF TableOk
<1>7. ProbeOk
  BY <1>2 DEF ProbeOk
<1>8. QED
  BY <1>3, <1>6, <1>7 DEF WInv

(* The counts stay right when update_table stores.                          *)
LEMMA StoredOk ==
  ASSUME ScanOk, Fits, TableOk, ProbeOk, CountWord \/ InsertWord
  PROVE  TableOk' /\ ProbeOk'
<1>1. /\ i' = i /\ startidx' = startidx /\ consecutive' = consecutive
      /\ word_array' = word_array /\ word' = NULL
  BY DEF CountWord, InsertWord
<1>2. Passed' = Passed
  BY <1>1, SameText DEF Passed, Behind
<1>3. TableOk'
  BY <1>2, StoredByStep, Stored
<1>4. QED
  BY <1>1, <1>3 DEF ProbeOk

(* A step of update_table leaves the scan where it is.                      *)
LEMMA ScanStays ==
  ASSUME ScanOk, UNCHANGED <<word_array, i, startidx, ctr, consecutive>>
  PROVE  ScanOk'
BY SameText DEF ScanOk, AtEnd, InWord

(* Every step of the program keeps the invariant.                           *)
LEMMA WNextOk == WInv /\ [WNext]_wvars => WInv'
<1>1. SUFFICES ASSUME WInv, [WNext]_wvars PROVE WInv'
  OBVIOUS
<1>2. ScanOk /\ (Fits => TableOk /\ ProbeOk)
  BY <1>1 DEF WInv
<1>3. word_array' = word_array
  BY <1>1 DEF WNext, ReadSpace, ReadLetter, LastWord, CountWord, Probe, InsertWord, Counted, wvars
<1>4. Fits <=> Fits'
  BY <1>3, SameText
<1>5. CASE ReadLetter \/ (ReadSpace /\ ~consecutive)
  <2>1. ScanOk' /\ Passed' = Passed /\ word' = word
    BY <1>2, <1>5, NoWordEnds
  <2>2. table' = table /\ ~Probing
    BY <1>5 DEF ReadLetter, ReadSpace
  <2>3. Fits => TableOk'
    BY <1>2, <1>3, <2>1, <2>2, NothingCounted
  <2>4. ProbeOk'
    BY <2>1, <2>2 DEF ProbeOk, Probing
  <2>5. QED
    BY <1>4, <2>1, <2>3, <2>4 DEF WInv
<1>6. CASE LastWord \/ (ReadSpace /\ consecutive)
  <2>1. ScanOk'
    BY <1>2, <1>6, WordEnds
  <2>2. Fits => TableOk' /\ ProbeOk'
    BY <1>2, <1>3, <1>6, LookedUp
  <2>3. QED
    BY <1>4, <2>1, <2>2 DEF WInv
<1>7. CASE Probe
  <2>1. ScanOk'
    BY <1>2, <1>7, ScanStays DEF Probe
  <2>2. Fits => TableOk' /\ ProbeOk'
    BY <1>2, <1>7, Probed
  <2>3. QED
    BY <1>4, <2>1, <2>2 DEF WInv
<1>8. CASE CountWord \/ InsertWord
  <2>1. ScanOk'
    BY <1>2, <1>8, ScanStays DEF CountWord, InsertWord
  <2>2. Fits => TableOk' /\ ProbeOk'
    BY <1>2, <1>8, StoredOk
  <2>3. QED
    BY <1>4, <2>1, <2>2 DEF WInv
<1>9. CASE UNCHANGED wvars
  <2>1. /\ word_array' = word_array /\ i' = i /\ startidx' = startidx /\ ctr' = ctr
        /\ consecutive' = consecutive /\ table' = table /\ word' = word /\ loc' = loc
        /\ search' = search
    BY <1>9 DEF wvars
  <2>2. ScanOk'
    BY <1>2, <2>1, ScanStays
  <2>3. /\ Passed' = Passed /\ size' = size /\ \A r : Content(r)' = Content(r)
        /\ \A w, d : Spot(w, d)' = Spot(w, d)
    BY <2>1, SameText DEF Passed, Behind
  <2>4. Fits => TableOk'
    BY <1>2, <2>1, <2>3, NothingCounted
  <2>5. Fits => ProbeOk'
    <3>1. \A w : Places(w)' = Places(w)
      BY <2>3 DEF Places
    <3>2. \A w, d : Reached(w, d)' <=> Reached(w, d)
      BY <2>1, <2>3 DEF Reached
    <3>3. QED
      BY <1>2, <2>1, <2>3, <3>1, <3>2 DEF ProbeOk
  <2>6. QED
    BY <1>4, <2>2, <2>4, <2>5 DEF WInv
<1>10. QED
  BY <1>1, <1>5, <1>6, <1>7, <1>8, <1>9 DEF WNext, Counted

(* In every reachable state the words up to where wc_init has read are      *)
(* where they belong in the table.                                          *)
THEOREM CountingInvariance == WSpec => []WInv
BY WInitOk, WNextOk, PTL DEF WSpec

-----------------------------------------------------------------------------
(* What wc_output lists.                                                    *)
(* The lists of the items in the first slots.                               *)
ListTable(t, n, g) ==
  g = [k \in 0 .. n |-> IF k = 0 THEN <<>>
                        ELSE IF t[k - 1] = NULL THEN g[k - 1]
                        ELSE Append(g[k - 1], t[k - 1])]

(* There are such lists for every number of slots.                          *)
LEMMA ListTableExists ==
  ASSUME NEW t, NEW n \in Nat
  PROVE  \E g : ListTable(t, n, g)
<1> DEFINE S == {m \in Nat : \E g : ListTable(t, m, g)}
<1>1. 0 \in S
  <2>1. ListTable(t, 0, [k \in 0 .. 0 |-> <<>>])
    BY DEF ListTable
  <2>2. QED
    BY <2>1
<1>2. ASSUME NEW m \in Nat, m \in S
      PROVE  m + 1 \in S
  <2>1. PICK g : ListTable(t, m, g)
    BY <1>2
  <2> DEFINE next == IF t[m] = NULL THEN g[m] ELSE Append(g[m], t[m])
             h == [k \in 0 .. m + 1 |-> IF k = m + 1 THEN next ELSE g[k]]
  <2>2. ASSUME NEW k \in 0 .. m + 1
        PROVE  h[k] = IF k = 0 THEN <<>> ELSE IF t[k - 1] = NULL THEN h[k - 1]
                      ELSE Append(h[k - 1], t[k - 1])
    <3>1. CASE k = m + 1
      <4>1. h[k] = next /\ k # 0 /\ k - 1 = m /\ h[k - 1] = g[m]
        BY <3>1
      <4>2. QED
        BY <3>1, <4>1
    <3>2. CASE k # m + 1
      <4>1. k \in 0 .. m /\ h[k] = g[k] /\ (k # 0 => h[k - 1] = g[k - 1])
        BY <3>2
      <4> HIDE DEF h
      <4>2. g[k] = IF k = 0 THEN <<>> ELSE IF t[k - 1] = NULL THEN g[k - 1]
                   ELSE Append(g[k - 1], t[k - 1])
        BY <2>1, <4>1 DEF ListTable
      <4>3. QED
        BY <4>1, <4>2
    <3>3. QED
      BY <3>1, <3>2
  <2>3. ListTable(t, m + 1, h)
    BY <2>2 DEF ListTable
  <2>4. QED
    BY <2>3
<1>3. Nat \subseteq S
  BY <1>1, <1>2, SetInduction
<1>4. QED
  BY <1>3

(* wc_output is a list of what the occupied slots hold, one entry for each. *)
LEMMA OutputListsTable ==
  ASSUME word_array \in Texts
  PROVE  /\ Len(wc_output) = Cardinality(Filled)
         /\ Range(wc_output) = {table[l] : l \in Filled}
<1>1. PICK n \in Nat \ {0} : n = size /\ Slot = 0 .. n - 1
  BY SizeTyped DEF Slot
<1>2. PICK t : t = table
  OBVIOUS
<1> DEFINE g == CHOOSE h : ListTable(t, n, h)
<1>3. ListTable(t, n, g)
  BY ListTableExists
<1>4. wc_output = g[n]
  BY <1>1, <1>2 DEF wc_output, ListTable
<1> HIDE DEF g
<1>5. /\ g[0] = <<>>
      /\ \A k \in 0 .. n - 1 : g[k + 1] = IF t[k] = NULL THEN g[k] ELSE Append(g[k], t[k])
  <2>1. \A k \in 0 .. n : g[k] = IF k = 0 THEN <<>>
                                 ELSE IF t[k - 1] = NULL THEN g[k - 1]
                                 ELSE Append(g[k - 1], t[k - 1])
    BY <1>3 DEF ListTable
  <2>2. g[0] = <<>>
    BY <2>1
  <2>3. ASSUME NEW k \in 0 .. n - 1
        PROVE  g[k + 1] = IF t[k] = NULL THEN g[k] ELSE Append(g[k], t[k])
    <3>1. PICK m \in 0 .. n : m = k + 1 /\ m # 0 /\ m - 1 = k
      OBVIOUS
    <3>2. QED
      BY <2>1, <3>1
  <2>4. QED
    BY <2>2, <2>3
<1> DEFINE F(k) == {l \in 0 .. k - 1 : t[l] # NULL}
           Items == {t[l] : l \in 0 .. n - 1}
           Good(k) == /\ g[k] \in Seq(Items) /\ IsFiniteSet(F(k))
                      /\ Len(g[k]) = Cardinality(F(k))
                      /\ Range(g[k]) = {t[l] : l \in F(k)}
           S == {k \in Nat : k <= n => Good(k)}
<1>6. 0 \in S
  <2>1. F(0) = {} /\ <<>> \in Seq(Items) /\ Len(<<>>) = 0
    OBVIOUS
  <2>2. IsFiniteSet(F(0)) /\ Cardinality(F(0)) = 0
    BY <2>1, FS_EmptySet
  <2>3. {t[l] : l \in F(0)} = {}
    BY <2>1
  <2> HIDE DEF F, Items
  <2>4. Good(0)
    BY <1>5, <2>1, <2>2, <2>3, EmptyQueue
  <2>5. QED
    BY <2>4
<1>7. ASSUME NEW k \in Nat, k \in S
      PROVE  k + 1 \in S
  <2>1. SUFFICES ASSUME k + 1 <= n PROVE Good(k + 1)
    OBVIOUS
  <2>2. k \in 0 .. n - 1 /\ Good(k)
    BY <1>7, <2>1
  <2>3. PICK m \in Nat : m = k + 1
    OBVIOUS
  <2>4. CASE t[k] = NULL
    <3>1. F(m) = F(k)
      BY <2>2, <2>3, <2>4
    <3>2. g[m] = g[k]
      BY <1>5, <2>2, <2>3, <2>4
    <3> HIDE DEF F, Items
    <3>3. QED
      BY <2>2, <2>3, <3>1, <3>2
  <2>5. CASE t[k] # NULL
    <3>1. F(m) = F(k) \cup {k} /\ k \notin F(k) /\ t[k] \in Items
      BY <2>2, <2>3, <2>5
    <3>2. g[m] = Append(g[k], t[k])
      BY <1>5, <2>2, <2>3, <2>5
    <3> HIDE DEF F, Items
    <3>3. IsFiniteSet(F(m)) /\ Cardinality(F(m)) = Cardinality(F(k)) + 1
      BY <2>2, <3>1, FS_AddElement
    <3>4. g[m] \in Seq(Items) /\ Range(g[m]) = Range(g[k]) \cup {t[k]}
      BY <2>2, <3>1, <3>2, AppendQueue
    <3>5. Len(g[m]) = Len(g[k]) + 1
      BY <2>2, <3>1, <3>2, AppendProperties
    <3>6. {t[l] : l \in F(m)} = {t[l] : l \in F(k)} \cup {t[k]}
      BY <3>1
    <3>7. Good(m)
      BY <2>2, <3>3, <3>4, <3>5, <3>6
    <3>8. QED
      BY <2>3, <3>7
  <2>6. QED
    BY <2>4, <2>5
<1> HIDE DEF S
<1>8. n \in S
  BY <1>6, <1>7, SetInduction
<1>9. Good(n)
  BY <1>8 DEF S
<1>10. Filled = F(n)
  BY <1>1, <1>2 DEF Filled
<1>11. QED
  BY <1>2, <1>4, <1>9, <1>10

(* Spot the end every word has been passed and counted as often as it occurs. *)
LEMMA AllCounted ==
  ASSUME WInv, Done
  PROVE  /\ word_array \in Texts /\ Passed = Words
         /\ \A w : w # NULL => NrCounted(w) = Occurrences(w)
<1>1. ScanOk /\ AtEnd /\ ~consecutive /\ word = NULL
  BY DEF WInv, Done, Probing
<1>2. word_array \in Texts
  BY <1>1 DEF ScanOk
<1>3. PICK n \in Nat : n = Len(word_array)
  BY <1>2, TextTyped
<1>4. Behind = n
  BY <1>1, <1>3 DEF Behind, AtEnd
<1>5. ASSUME NEW r \in Words PROVE r[2] <= n
  <2>1. r[1] \in 1 .. n /\ r[2] \in r[1] .. n
    BY <1>2, <1>3, WordsTyped
  <2>2. QED
    BY <2>1
<1>6. Passed = Words
  BY <1>4, <1>5 DEF Passed
<1>7. ASSUME NEW w, w # NULL PROVE NrCounted(w) = Occurrences(w)
  <2>1. Places(w) = {r \in Words : Content(r) = w}
    BY <1>6 DEF Places
  <2>2. PICK c \in Nat : c = Cardinality(Places(w))
    BY <1>2, PlacesFinite, TextTyped
  <2>3. NrCounted(w) = c - 0
    BY <1>1, <1>7, <2>2 DEF NrCounted
  <2>4. Occurrences(w) = c
    BY <2>1, <2>2 DEF Occurrences
  <2>5. QED
    BY <2>3, <2>4
<1>8. QED
  BY <1>2, <1>6, <1>7

(* Then the table has the different words of the text, each in one slot.    *)
LEMMA TableHasTheWords ==
  ASSUME WInv, Done, Fits
  PROVE  /\ {table[l].word : l \in Filled} = Distinct
         /\ Cardinality(Filled) = Cardinality(Distinct)
         /\ \A l \in Filled : table[l].freq = Occurrences(table[l].word)
<1>1. TableOk
  BY DEF WInv
<1>2. word_array \in Texts /\ Passed = Words
  BY AllCounted
<1>3. ASSUME NEW l \in Filled
      PROVE  table[l].word \in Distinct /\ table[l].freq = Occurrences(table[l].word)
  <2>1. PICK w : w = table[l].word
    OBVIOUS
  <2>2. Places(w) # {} /\ table[l].freq = NrCounted(w)
    BY <1>1, <2>1 DEF TableOk, IsItem
  <2>3. w \in Distinct /\ w # NULL
    BY <1>2, <2>2, PlacesAreWords DEF Distinct
  <2>4. QED
    BY <2>1, <2>2, <2>3, AllCounted
<1>4. ASSUME NEW w \in Distinct
      PROVE  \E l \in Filled : table[l].word = w
  <2>1. PICK r \in Passed : w = Content(r)
    BY <1>2 DEF Distinct
  <2>2. r \in Places(w)
    BY <2>1 DEF Places
  <2>3. w # NULL
    BY <1>2, <2>2, PlacesAreWords
  <2>4. PICK c \in Nat : c = Cardinality(Places(w)) /\ c > 0
    BY <1>2, <2>2, PlacesFinite, TextTyped
  <2>5. word = NULL
    BY DEF Done, Probing
  <2>6. NrCounted(w) = c - 0
    BY <2>3, <2>4, <2>5 DEF NrCounted
  <2>7. QED
    BY <1>1, <2>1, <2>4, <2>6 DEF TableOk
<1>5. {table[l].word : l \in Filled} = Distinct
  BY <1>3, <1>4
<1> DEFINE f == [l \in Filled |-> table[l].word]
<1>6. f \in [Filled -> Distinct]
  BY <1>3
<1>7. f \in Injection(Filled, Distinct)
  <2>1. \A l, m \in Filled : f[l] = f[m] => l = m
    BY <1>1 DEF TableOk
  <2>2. QED
    BY <1>6, <2>1 DEF Injection, IsInjective
<1>8. f \in Surjection(Filled, Distinct)
  BY <1>4, <1>6 DEF Surjection
<1>9. Cardinality(Filled) = Cardinality(Distinct)
  BY <1>2, <1>7, <1>8, DistinctFinite, FS_Injection
<1>10. QED
  BY <1>3, <1>5, <1>9

(* Every word of the text is listed once, with the number of its            *)
(* occurrences, as long as the different words have room in the table.      *)
THEOREM CountsRightTheorem == WSpec => []CountsRight
<1>1. WInv => CountsRight
  <2>1. SUFFICES ASSUME WInv, Done, Fits PROVE ListsEachWordOnce
    BY DEF CountsRight
  <2>2. /\ {table[l].word : l \in Filled} = Distinct
        /\ Cardinality(Filled) = Cardinality(Distinct)
        /\ \A l \in Filled : table[l].freq = Occurrences(table[l].word)
    BY <2>1, TableHasTheWords
  <2>3. Len(wc_output) = Cardinality(Filled) /\ Range(wc_output) = {table[l] : l \in Filled}
    BY <2>1, AllCounted, OutputListsTable
  <2>4. {item.word : item \in Range(wc_output)} = Distinct
    BY <2>2, <2>3
  <2>5. \A item \in Range(wc_output) : item.freq = Occurrences(item.word)
    BY <2>2, <2>3
  <2>6. QED
    BY <2>2, <2>3, <2>4, <2>5 DEF ListsEachWordOnce
<1>2. QED
  BY <1>1, CountingInvariance, PTL

-----------------------------------------------------------------------------
(* When the words have room.                                                *)
NoTabs(t) == \A k \in DOMAIN t : t[k] # "tab"

(* Between blanks and newlines there are at most as many words as there are *)
(* lines and blanks, and the table has PerWord slots for each of those.     *)
LEMMA RoomWithoutTabs ==
  ASSUME word_array \in Texts, NoTabs(word_array)
  PROVE  Fits
<1> DEFINE B == {k \in DOMAIN word_array : word_array[k] \in {"blank", "newline"}}
<1>1. PICK n \in Nat : n = Len(word_array) /\ DOMAIN word_array = 1 .. n
  BY TextTyped
<1>2. B \subseteq 1 .. n /\ n + 1 \notin B
  BY <1>1
<1>3. IsFiniteSet(1 .. n)
  BY FS_Interval
<1>4. IsFiniteSet(B)
  BY <1>2, <1>3, FS_Subset
<1>5. PICK c \in Nat : c = Cardinality(B)
  BY <1>4, FS_CardinalityType
<1>6. IsFiniteSet(B \cup {n + 1}) /\ Cardinality(B \cup {n + 1}) = c + 1
  BY <1>2, <1>4, <1>5, FS_AddElement
<1>7. word_count(word_array) = c + 1
  BY <1>5 DEF word_count
<1> DEFINE f == [r \in Words |-> r[2] + 1]
<1>8. ASSUME NEW r \in Words PROVE r[2] + 1 \in B \cup {n + 1}
  <2>1. r[1] \in 1 .. n /\ r[2] \in r[1] .. n /\ ~InWord(r[2] + 1)
    BY <1>1, WordsTyped
  <2>2. CASE r[2] = n
    BY <2>2
  <2>3. CASE r[2] # n
    <3>1. r[2] + 1 \in DOMAIN word_array
      BY <1>1, <2>1, <2>3
    <3>2. word_array[r[2] + 1] \in Space /\ word_array[r[2] + 1] # "tab"
      BY <2>1, <3>1 DEF InWord, NoTabs
    <3>3. QED
      BY <3>1, <3>2 DEF Space
  <2>4. QED
    BY <2>2, <2>3
<1>9. ASSUME NEW r \in Words, NEW q \in Words, r[2] + 1 = q[2] + 1 PROVE r = q
  <2>1. /\ r[1] \in 1 .. n /\ r[2] \in r[1] .. n /\ q[1] \in 1 .. n /\ q[2] \in q[1] .. n
    BY <1>1, WordsTyped
  <2>2. r[1] <= q[2] /\ q[1] <= r[2]
    BY <1>9, <2>1
  <2>3. QED
    BY <2>2, WordsApart
<1>10. f \in Injection(Words, B \cup {n + 1})
  <2>1. f \in [Words -> B \cup {n + 1}]
    BY <1>8
  <2>2. \A r, q \in Words : f[r] = f[q] => r = q
    BY <1>9
  <2>3. QED
    BY <2>1, <2>2 DEF Injection, IsInjective
<1>11. Cardinality(Words) <= c + 1
  BY <1>6, <1>10, FS_Injection
<1>12. Cardinality(Distinct) <= Cardinality(Words)
  <2> DEFINE h == [r \in Words |-> Content(r)]
  <2>1. h \in Surjection(Words, Distinct)
    BY DEF Surjection, Distinct
  <2>2. QED
    BY <2>1, WordsFinite, FS_Surjection
<1>13. PICK d \in Nat, m \in Nat : d = Cardinality(Distinct) /\ m = Cardinality(Words)
  BY DistinctFinite, WordsFinite, FS_CardinalityType
<1>14. PICK s \in Nat : s = size /\ c + 1 <= s
  BY <1>7, SizeTyped
<1>15. QED
  BY <1>11, <1>12, <1>13, <1>14 DEF Fits

(* Files whose only spaces are blanks and newlines are always counted right.*)
THEOREM NoTabsCountsRight == WSpec => [](NoTabs(word_array) /\ Done => ListsEachWordOnce)
<1>1. WInv /\ CountsRight => (NoTabs(word_array) /\ Done => ListsEachWordOnce)
  BY RoomWithoutTabs DEF WInv, ScanOk, CountsRight
<1>2. QED
  BY <1>1, CountingInvariance, CountsRightTheorem, PTL

-----------------------------------------------------------------------------
(* The table implements a bag of words.                                     *)
BagOf(t, slots) ==
  [w \in {t[l].word : l \in slots} |->
     (CHOOSE item \in {t[l] : l \in slots} : item.word = w).freq]
Seen == BagOf(table, Filled)

(* It has the words of the table with their counts.                         *)
HasTable(b, t, slots) ==
  /\ b = [w \in DOMAIN b |-> b[w]]
  /\ DOMAIN b = {t[l].word : l \in slots}
  /\ \A l \in slots : b[t[l].word] = t[l].freq

(* No two slots have the same word.                                         *)
LEMMA BagHasTable ==
  ASSUME NEW t, NEW slots, \A l, m \in slots : t[l].word = t[m].word => l = m
  PROVE  HasTable(BagOf(t, slots), t, slots)
<1>1. ASSUME NEW l \in slots
      PROVE  BagOf(t, slots)[t[l].word] = t[l].freq
  <2>1. PICK w, item : w = t[l].word /\ item = t[l]
    OBVIOUS
  <2>2. \A other \in {t[m] : m \in slots} : other.word = w => other = item
    BY <2>1
  <2>3. (CHOOSE other \in {t[m] : m \in slots} : other.word = w) = item
    BY <2>1, <2>2
  <2>4. BagOf(t, slots)[w] = item.freq
    BY <2>1, <2>3 DEF BagOf
  <2>5. QED
    BY <2>1, <2>4
<1>2. PICK b : b = BagOf(t, slots)
  OBVIOUS
<1>3. b = [w \in DOMAIN b |-> b[w]] /\ DOMAIN b = {t[l].word : l \in slots}
  BY <1>2 DEF BagOf
<1>4. QED
  BY <1>1, <1>2, <1>3 DEF HasTable

(* Storing sees the word once more.                                         *)
LEMMA StoringSees ==
  ASSUME ScanOk, Fits, TableOk, ProbeOk, TableOk', CountWord \/ InsertWord
  PROVE  Seen' = Bag!BagAdd(Seen, word) /\ word \in DOMAIN Seen'
<1>1. PICK u, n : u = word /\ n = NrCounted(word) + 1
  OBVIOUS
<1>2. /\ u # NULL /\ Places(u) # {} /\ word_array' = word_array /\ word_array \in Texts
      /\ loc \in Slot /\ (table[loc] = NULL \/ table[loc].word = u)
      /\ \A l \in Filled : table[l].word = u => l = loc
      /\ table' = [table EXCEPT ![loc] = [word |-> u, freq |-> n]]
      /\ Slot' = Slot /\ DOMAIN table = Slot
  BY <1>1, StoredByStep, SameText DEF TableOk, ScanOk
<1>3. /\ DOMAIN table' = Slot' /\ table'[loc] = [word |-> u, freq |-> n]
      /\ \A l \in Slot : l # loc => table'[l] = table[l]
  BY <1>2
<1>4. n \in 1 .. Len(word_array) /\ [word |-> u, freq |-> n] # NULL
  <2>1. PICK c \in Nat : c = Cardinality(Places(u)) /\ c > 0 /\ c \in 1 .. Len(word_array)
    BY <1>2, PlacesFinite, TextTyped
  <2>2. NrCounted(u) = c - 1
    BY <1>1, <2>1 DEF NrCounted
  <2>3. n = c
    BY <1>1, <2>1, <2>2
  <2>4. PICK r \in Words : u = Content(r)
    BY <1>2, PlacesAreWords
  <2>5. QED
    BY <1>2, <2>1, <2>3, <2>4, WordsAreNotNull
<1>5. Filled' = Filled \cup {loc}
  BY <1>2, <1>3, <1>4 DEF Filled
<1>6. \A l \in Filled : l # loc => table'[l] = table[l] /\ table[l].word # u
  BY <1>2, <1>3 DEF Filled
<1>7. PICK t, f, new, g : t = table /\ f = Filled /\ new = table' /\ g = Filled'
  OBVIOUS
<1>8. PICK old, next : old = Seen /\ next = Seen'
  OBVIOUS
<1>9. /\ old = [w \in DOMAIN old |-> old[w]]
       /\ DOMAIN old = {table[l].word : l \in Filled}
       /\ \A l \in Filled : old[table[l].word] = table[l].freq
  <2>1. old = BagOf(t, f)
    BY <1>7, <1>8 DEF Seen
  <2>2. \A l, m \in f : t[l].word = t[m].word => l = m
    BY <1>7 DEF TableOk
  <2>3. HasTable(old, t, f)
    BY <2>1, <2>2, BagHasTable
  <2>4. QED
    BY <1>7, <2>3 DEF HasTable
<1>10. /\ next = [w \in DOMAIN next |-> next[w]]
       /\ DOMAIN next = {table'[l].word : l \in Filled'}
       /\ \A l \in Filled' : next[table'[l].word] = table'[l].freq
  <2>1. next = BagOf(new, g)
    BY <1>7, <1>8 DEF Seen
  <2>2. \A l, m \in g : new[l].word = new[m].word => l = m
    BY <1>7 DEF TableOk
  <2>3. HasTable(next, new, g)
    BY <2>1, <2>2, BagHasTable
  <2>4. QED
    BY <1>7, <2>3 DEF HasTable
<1>11. DOMAIN next = DOMAIN old \cup {u}
  <2>1. table'[loc].word = u /\ (loc \in Filled => table[loc].word = u)
    BY <1>2, <1>3 DEF Filled
  <2>2. \A l \in Filled : table'[l].word = table[l].word
    BY <1>6, <2>1
  <2>3. {table'[l].word : l \in Filled'} = {table[l].word : l \in Filled} \cup {u}
    BY <1>5, <2>1, <2>2
  <2>4. QED
    BY <1>9, <1>10, <2>3
<1>12. ASSUME NEW w \in DOMAIN old, w # u
      PROVE  next[w] = old[w]
  <2>1. PICK l \in Filled : w = table[l].word
    BY <1>9
  <2>2. l # loc
    BY <1>2, <1>12, <2>1 DEF Filled
  <2>3. table'[l] = table[l] /\ l \in Filled'
    BY <1>5, <1>6, <2>2
  <2>4. QED
    BY <1>9, <1>10, <2>1, <2>3
<1>13. next[u] = n
  <2>1. loc \in Filled' /\ table'[loc].word = u /\ table'[loc].freq = n
    BY <1>3, <1>5
  <2>2. QED
    BY <1>10, <2>1
<1>14. ASSUME u \in DOMAIN old PROVE old[u] + 1 = n
  <2>1. PICK l \in Filled : u = table[l].word
    BY <1>14, <1>9
  <2>2. table[l].freq = NrCounted(u)
    BY <2>1 DEF TableOk, IsItem
  <2>3. QED
    BY <1>1, <1>9, <2>1, <2>2
<1>15. ASSUME u \notin DOMAIN old PROVE n = 1
  <2>1. \A l \in Filled : table[l].word # u
    BY <1>15, <1>9
  <2>2. PICK q \in Passed : Content(q) = u
    BY <1>2 DEF Places
  <2>3. ~(NrCounted(u) > 0)
    BY <2>1, <2>2 DEF TableOk
  <2>4. PICK m \in Nat \ {0} : m = n /\ m = NrCounted(u) + 1
    BY <1>1, <1>4
  <2>5. PICK c \in Nat : c = Cardinality(Places(u)) /\ c > 0
    BY <1>2, PlacesFinite, TextTyped
  <2>6. NrCounted(u) = c - 1
    BY <1>1, <2>5 DEF NrCounted
  <2>7. QED
    BY <2>3, <2>4, <2>5, <2>6
<1>16. next = Bag!BagAdd(old, u)
  <2>1. CASE u \in DOMAIN old
    <3>1. Bag!BagAdd(old, u) = [e \in DOMAIN old |-> IF e = u THEN old[e] + 1 ELSE old[e]]
      BY <2>1 DEF Bag!BagAdd
    <3>2. DOMAIN next = DOMAIN old
      BY <1>11, <2>1
    <3>3. \A e \in DOMAIN old : next[e] = IF e = u THEN old[e] + 1 ELSE old[e]
      BY <1>12, <1>13, <1>14
    <3>4. QED
      BY <1>10, <3>1, <3>2, <3>3
  <2>2. CASE u \notin DOMAIN old
    <3>1. Bag!BagAdd(old, u) = [e \in DOMAIN old \cup {u} |-> IF e = u THEN 1 ELSE old[e]]
      BY <2>2 DEF Bag!BagAdd
    <3>2. \A e \in DOMAIN old \cup {u} : next[e] = IF e = u THEN 1 ELSE old[e]
      BY <1>12, <1>13, <1>15, <2>2
    <3>3. QED
      BY <1>11, <1>10, <3>1, <3>2
  <2>3. QED
    BY <2>1, <2>2
<1>17. QED
  BY <1>1, <1>11, <1>16, <1>8

(* Every step of the word counter is a step of the bag: the table begins    *)
(* empty, each word is seen once when update_table stores, and nothing else *)
(* changes what the bag has.                                                *)
THEOREM TableImplementsBag == WSpec /\ Fits => ImplementsBag
<1>1. WInit => Bag!Init
  <2>1. SUFFICES ASSUME WInit PROVE Bag!Init
    OBVIOUS
  <2>2. Filled = {}
    BY <2>1 DEF WInit, Filled
  <2>3. {table[l].word : l \in Filled} = {}
    BY <2>2
  <2>4. QED
    BY <2>3 DEF Bag!Init
<1>2. WInv /\ WInv' /\ Fits /\ [WNext]_wvars => Fits' /\ [Bag!SeeWord]_Seen
  <2>1. SUFFICES ASSUME WInv, WInv', Fits, [WNext]_wvars PROVE Fits' /\ [Bag!SeeWord]_Seen
    OBVIOUS
  <2>2. word_array' = word_array
    BY <2>1 DEF WNext, ReadSpace, ReadLetter, LastWord, CountWord, Probe, InsertWord, Counted, wvars
  <2>3. Fits' /\ Slot' = Slot
    BY <2>1, <2>2, SameText
  <2>4. CASE CountWord \/ InsertWord
    <3>1. ScanOk /\ TableOk /\ ProbeOk /\ TableOk'
      BY <2>1, <2>3 DEF WInv
    <3>2. Seen' = Bag!BagAdd(Seen, word) /\ word \in DOMAIN Seen'
      BY <2>1, <2>4, <3>1, StoringSees
    <3>3. Bag!SeeWord
      BY <3>2 DEF Bag!SeeWord, Seen, BagOf
    <3>4. QED
      BY <2>3, <3>3
  <2>5. CASE ~(CountWord \/ InsertWord)
    <3>1. table' = table
      BY <2>1, <2>5 DEF WNext, ReadSpace, ReadLetter, LastWord, Probe, Counted, wvars
    <3>2. Filled' = Filled
      BY <2>3, <3>1 DEF Filled
    <3>3. Seen' = Seen
      BY <3>1, <3>2 DEF Seen
    <3>4. QED
      BY <2>3, <3>3
  <2>6. QED
    BY <2>4, <2>5
<1>3. QED
  BY <1>1, <1>2, CountingInvariance, PTL DEF WSpec, ImplementsBag, Bag!Spec, Seen, BagOf

-----------------------------------------------------------------------------
(* The copy of a directory.                                                  *)

(* Paths, point by point.                                                   *)
LEMMA PathEqual ==
  ASSUME NEW p \in Path, NEW q \in Path, Len(p) = Len(q), \A j \in 1 .. Len(p) : p[j] = q[j]
  PROVE  p = q
BY LenProperties DEF Path

(* The beginning of a path.                                                 *)
LEMMA PathCut ==
  ASSUME NEW q \in Path, NEW n \in 0 .. Len(q)
  PROVE  /\ SubSeq(q, 1, n) \in Path /\ Len(SubSeq(q, 1, n)) = n /\ n \in Nat /\ Len(q) \in Nat
         /\ \A j \in 1 .. n : SubSeq(q, 1, n)[j] = q[j]
<1>1. Len(q) \in Nat /\ q \in [1 .. Len(q) -> Names]
  BY LenProperties DEF Path
<1>2. \A j \in 1 .. n : q[j] \in Names
  BY <1>1
<1>3. /\ SubSeq(q, 1, n) \in Seq(Names)
      /\ Len(SubSeq(q, 1, n)) = IF 1 <= n THEN n - 1 + 1 ELSE 0
      /\ \A j \in 1 .. n - 1 + 1 : SubSeq(q, 1, n)[j] = q[1 + j - 1]
  BY <1>1, <1>2, SubSeqProperties
<1>4. QED
  BY <1>1, <1>3 DEF Path

(* Under, point by point.                                                   *)
LEMMA UnderPoints ==
  ASSUME NEW p \in Path, NEW q \in Path
  PROVE  Under(p, q) <=> Len(p) <= Len(q) /\ \A j \in 1 .. Len(p) : p[j] = q[j]
<1>1. Len(p) \in Nat /\ Len(q) \in Nat
  BY LenProperties DEF Path
<1>2. SubSeq(p, 1, Len(p)) = p
  BY SubSeqFull DEF Path
<1>3. ASSUME Len(p) <= Len(q)
      PROVE  p = SubSeq(q, 1, Len(p)) <=> \A j \in 1 .. Len(p) : p[j] = q[j]
  <2>1. /\ SubSeq(q, 1, Len(p)) \in Path /\ Len(SubSeq(q, 1, Len(p))) = Len(p)
        /\ \A j \in 1 .. Len(p) : SubSeq(q, 1, Len(p))[j] = q[j]
    BY <1>1, <1>3, PathCut
  <2>2. ASSUME \A j \in 1 .. Len(p) : p[j] = q[j] PROVE p = SubSeq(q, 1, Len(p))
    BY <2>1, <2>2, PathEqual
  <2>3. QED
    BY <2>1, <2>2
<1>4. QED
  BY <1>2, <1>3 DEF Under, IsPrefix

(* What stands above a path stands above what is below it, and of two paths *)
(* above a third one stands above the other.                                *)
LEMMA UnderOrder ==
  ASSUME NEW p \in Path, NEW q \in Path, NEW r \in Path
  PROVE  /\ Under(p, p)
         /\ Under(p, q) /\ Under(q, r) => Under(p, r)
         /\ Under(p, r) /\ Under(q, r) => Under(p, q) \/ Under(q, p)
         /\ Under(p, r) /\ Under(q, r) /\ Len(p) <= Len(q) => Under(p, q)
         /\ Under(p, q) => Len(p) <= Len(q)
         /\ Under(p, q) /\ Len(p) = Len(q) => p = q
<1>1. Len(p) \in Nat /\ Len(q) \in Nat /\ Len(r) \in Nat
  BY LenProperties DEF Path
<1>2. Under(p, q) /\ Len(p) = Len(q) => p = q
  BY PathEqual, UnderPoints
<1>3. Under(p, q) /\ Under(q, r) => Under(p, r)
  BY <1>1, UnderPoints
<1>4. Under(p, r) /\ Under(q, r) /\ Len(p) <= Len(q) => Under(p, q)
  BY <1>1, UnderPoints
<1>5. Under(p, r) /\ Under(q, r) /\ Len(q) <= Len(p) => Under(q, p)
  BY <1>1, UnderPoints
<1>6. QED
  BY <1>1, <1>2, <1>3, <1>4, <1>5, UnderPoints

(* A path and its last name.                                                *)
LEMMA PathAppend ==
  ASSUME NEW p \in Path, NEW x \in Names
  PROVE  /\ Append(p, x) \in Path /\ Len(Append(p, x)) = Len(p) + 1 /\ Len(p) \in Nat
         /\ Append(p, x)[Len(p) + 1] = x /\ \A j \in 1 .. Len(p) : Append(p, x)[j] = p[j]
         /\ Front(Append(p, x)) = p /\ Under(p, Append(p, x))
<1>1. /\ Append(p, x) \in Path /\ Len(Append(p, x)) = Len(p) + 1 /\ Len(p) \in Nat
      /\ Append(p, x)[Len(p) + 1] = x /\ \A j \in 1 .. Len(p) : Append(p, x)[j] = p[j]
  BY AppendProperties, LenProperties DEF Path
<1>2. Under(p, Append(p, x))
  <2>1. Len(p) <= Len(Append(p, x)) /\ \A j \in 1 .. Len(p) : p[j] = Append(p, x)[j]
    BY <1>1
  <2>2. QED
    BY <1>1, <2>1, UnderPoints
<1>3. Front(Append(p, x)) = SubSeq(Append(p, x), 1, Len(p))
  BY <1>1 DEF Front
<1>4. /\ SubSeq(Append(p, x), 1, Len(p)) \in Path /\ Len(SubSeq(Append(p, x), 1, Len(p))) = Len(p)
      /\ \A j \in 1 .. Len(p) : SubSeq(Append(p, x), 1, Len(p))[j] = Append(p, x)[j]
  <2>1. Len(p) \in 0 .. Len(Append(p, x))
    BY <1>1
  <2>2. QED
    BY <1>1, <2>1, PathCut
<1>5. SubSeq(Append(p, x), 1, Len(p)) = p
  BY <1>1, <1>4, PathEqual
<1>6. QED
  BY <1>1, <1>2, <1>3, <1>5

(* The next name on the way from p down to q.                               *)
LEMMA PathNext ==
  ASSUME NEW p \in Path, NEW q \in Path, Under(p, q), p # q
  PROVE  /\ Len(p) + 1 <= Len(q) /\ Len(p) + 1 \in 1 .. Len(q) /\ q[Len(p) + 1] \in Names
         /\ Append(p, q[Len(p) + 1]) = SubSeq(q, 1, Len(p) + 1)
         /\ Under(Append(p, q[Len(p) + 1]), q)
<1>1. Len(p) \in Nat /\ Len(q) \in Nat /\ q \in [1 .. Len(q) -> Names]
  BY LenProperties DEF Path
<1>2. Len(p) <= Len(q) /\ Len(p) # Len(q)
  BY UnderOrder
<1>3. Len(p) + 1 <= Len(q) /\ Len(p) + 1 \in 1 .. Len(q) /\ q[Len(p) + 1] \in Names
  BY <1>1, <1>2
<1>4. DEFINE x == q[Len(p) + 1]
<1>5. /\ Append(p, x) \in Path /\ Len(Append(p, x)) = Len(p) + 1
      /\ Append(p, x)[Len(p) + 1] = x /\ \A j \in 1 .. Len(p) : Append(p, x)[j] = p[j]
  BY <1>3, PathAppend
<1>6. /\ SubSeq(q, 1, Len(p) + 1) \in Path /\ Len(SubSeq(q, 1, Len(p) + 1)) = Len(p) + 1
      /\ \A j \in 1 .. Len(p) + 1 : SubSeq(q, 1, Len(p) + 1)[j] = q[j]
  <2>1. Len(p) + 1 \in 0 .. Len(q)
    BY <1>1, <1>3
  <2>2. QED
    BY <2>1, PathCut
<1>7. \A j \in 1 .. Len(p) + 1 : Append(p, x)[j] = q[j]
  BY <1>1, <1>3, <1>5, UnderPoints
<1>8. Append(p, x) = SubSeq(q, 1, Len(p) + 1)
  BY <1>5, <1>6, <1>7, PathEqual
<1>9. Under(Append(p, x), q)
  BY <1>3, <1>5, <1>7, UnderPoints
<1>10. QED
  BY <1>3, <1>8, <1>9

(* The path above q at a given depth.                                       *)
LEMMA PathAbove ==
  ASSUME NEW p \in Path, NEW q \in Path, Under(p, q)
  PROVE  p = SubSeq(q, 1, Len(p)) /\ Len(p) \in 0 .. Len(q)
<1>1. Len(p) \in 0 .. Len(q)
  BY UnderOrder, LenProperties DEF Path
<1>2. /\ SubSeq(q, 1, Len(p)) \in Path /\ Len(SubSeq(q, 1, Len(p))) = Len(p)
      /\ \A j \in 1 .. Len(p) : SubSeq(q, 1, Len(p))[j] = q[j]
  BY <1>1, PathCut
<1>3. \A j \in 1 .. Len(p) : p[j] = q[j]
  BY UnderPoints
<1>4. QED
  BY <1>1, <1>2, <1>3, PathEqual

(* The image of a path below Src.                                           *)
LEMMA ImagePath ==
  ASSUME NEW p \in Path, Under(Src, p), NEW d \in Path
  PROVE  /\ Image(d, p) \in Path /\ Under(d, Image(d, p)) /\ Len(Src) \in Nat /\ Len(d) \in Nat
         /\ Len(p) \in Nat /\ Len(Src) <= Len(p)
         /\ Len(Image(d, p)) = Len(d) + Len(p) - Len(Src)
         /\ \A j \in 1 .. Len(p) - Len(Src) : Image(d, p)[Len(d) + j] = p[Len(Src) + j]
         /\ \A j \in 1 .. Len(d) : Image(d, p)[j] = d[j]
<1>1. Src \in Path /\ Len(Src) \in Nat /\ Len(d) \in Nat /\ Len(p) \in Nat
      /\ p \in [1 .. Len(p) -> Names]
  BY CopyAssumption, LenProperties DEF Path
<1>2. Len(Src) <= Len(p)
  BY <1>1, UnderOrder
<1>a. DEFINE r == SubSeq(p, Len(Src) + 1, Len(p))
<1>3. \A h \in Len(Src) + 1 .. Len(p) : p[h] \in Names
  BY <1>1
<1>4. /\ r \in Seq(Names)
      /\ Len(r) = IF Len(Src) + 1 <= Len(p) THEN Len(p) - (Len(Src) + 1) + 1 ELSE 0
      /\ \A h \in 1 .. Len(p) - (Len(Src) + 1) + 1 : r[h] = p[Len(Src) + 1 + h - 1]
  BY <1>1, <1>3, SubSeqProperties
<1>5. /\ r \in Seq(Names) /\ Len(r) = Len(p) - Len(Src)
      /\ \A h \in 1 .. Len(r) : r[h] = p[Len(Src) + h]
  BY <1>1, <1>2, <1>4
<1>6. HIDE DEF r
<1>7. /\ d \o r \in Seq(Names) /\ Len(d \o r) = Len(d) + Len(r)
      /\ \A j \in 1 .. Len(d) + Len(r) :
           (d \o r)[j] = IF j <= Len(d) THEN d[j] ELSE r[j - Len(d)]
  BY <1>5, ConcatProperties DEF Path
<1>8. Image(d, p) = d \o r
  BY DEF Image, r
<1>9. /\ Image(d, p) \in Path /\ Len(Image(d, p)) = Len(d) + Len(p) - Len(Src)
      /\ \A j \in 1 .. Len(p) - Len(Src) : Image(d, p)[Len(d) + j] = p[Len(Src) + j]
      /\ \A j \in 1 .. Len(d) : Image(d, p)[j] = d[j]
  BY <1>1, <1>2, <1>5, <1>7, <1>8 DEF Path
<1>10. Under(d, Image(d, p))
  BY <1>1, <1>2, <1>9, UnderPoints
<1>11. QED
  BY <1>1, <1>2, <1>9, <1>10

(* No two paths have one image.                                             *)
LEMMA ImageInjective ==
  ASSUME NEW p \in Path, NEW q \in Path, Under(Src, p), Under(Src, q), NEW d \in Path,
         Image(d, p) = Image(d, q)
  PROVE  p = q
<1>1. Len(p) = Len(q) /\ Len(p) \in Nat /\ Len(Src) \in Nat /\ Len(Src) <= Len(p)
  BY ImagePath
<1>2. ASSUME NEW j \in 1 .. Len(p) PROVE p[j] = q[j]
  <2>1. CASE j <= Len(Src)
    BY <1>1, <2>1, UnderPoints, CopyAssumption
  <2>2. CASE j > Len(Src)
    <3>1. PICK h \in 1 .. Len(p) - Len(Src) : j = Len(Src) + h
      <4>1. j - Len(Src) \in 1 .. Len(p) - Len(Src) /\ j = Len(Src) + (j - Len(Src))
        BY <1>1, <2>2
      <4>2. QED
        BY <4>1
    <3>2. Image(d, p)[Len(d) + h] = p[j]
      BY <3>1, ImagePath
    <3>3. h \in 1 .. Len(q) - Len(Src)
      BY <1>1, <3>1
    <3>4. Image(d, q)[Len(d) + h] = q[j]
      BY <3>1, <3>3, ImagePath
    <3>5. QED
      BY <3>2, <3>4
  <2>3. QED
    BY <1>1, <2>1, <2>2
<1>3. QED
  BY <1>1, <1>2, PathEqual

(* The image of an entry is the entry of the image.                         *)
LEMMA ImageAppend ==
  ASSUME NEW p \in Path, Under(Src, p), NEW d \in Path, NEW x \in Names
  PROVE  Image(d, Append(p, x)) = Append(Image(d, p), x) /\ Under(Src, Append(p, x))
<1>0. PICK r : r = Append(p, x)
  OBVIOUS
<1>1. /\ r \in Path /\ Len(r) = Len(p) + 1 /\ Len(p) \in Nat
      /\ r[Len(p) + 1] = x /\ \A j \in 1 .. Len(p) : r[j] = p[j]
      /\ Under(p, r)
  BY <1>0, PathAppend
<1>2. Under(Src, r) /\ Src \in Path
  BY <1>1, UnderOrder, CopyAssumption
<1>3. /\ Image(d, p) \in Path /\ Len(Image(d, p)) = Len(d) + Len(p) - Len(Src)
      /\ Len(Src) \in Nat /\ Len(d) \in Nat /\ Len(Src) <= Len(p)
      /\ \A j \in 1 .. Len(p) - Len(Src) : Image(d, p)[Len(d) + j] = p[Len(Src) + j]
      /\ \A j \in 1 .. Len(d) : Image(d, p)[j] = d[j]
  BY ImagePath
<1>4. /\ Image(d, r) \in Path /\ Len(Image(d, r)) = Len(d) + Len(r) - Len(Src)
      /\ \A j \in 1 .. Len(r) - Len(Src) :
           Image(d, r)[Len(d) + j] = r[Len(Src) + j]
      /\ \A j \in 1 .. Len(d) : Image(d, r)[j] = d[j]
  BY <1>1, <1>2, ImagePath
<1>5. /\ Append(Image(d, p), x) \in Path /\ Len(Append(Image(d, p), x)) = Len(Image(d, p)) + 1
      /\ Append(Image(d, p), x)[Len(Image(d, p)) + 1] = x
      /\ \A j \in 1 .. Len(Image(d, p)) : Append(Image(d, p), x)[j] = Image(d, p)[j]
  BY <1>3, PathAppend
<1>6. ASSUME NEW j \in 1 .. Len(d) + Len(p) + 1 - Len(Src)
      PROVE  Image(d, r)[j] = Append(Image(d, p), x)[j]
  <2>1. CASE j <= Len(d)
    BY <1>1, <1>3, <1>4, <1>5, <2>1
  <2>2. CASE j > Len(d)
    <3>1. PICK h \in 1 .. Len(p) + 1 - Len(Src) : j = Len(d) + h
      <4>1. j - Len(d) \in 1 .. Len(p) + 1 - Len(Src) /\ j = Len(d) + (j - Len(d))
        BY <1>1, <1>3, <2>2
      <4>2. QED
        BY <4>1
    <3>2. Image(d, r)[j] = r[Len(Src) + h]
      BY <1>1, <1>4, <3>1
    <3>3. CASE h = Len(p) + 1 - Len(Src)
      <4>1. Len(Src) + h = Len(p) + 1 /\ j = Len(Image(d, p)) + 1
        BY <1>1, <1>3, <3>1, <3>3
      <4>2. QED
        BY <1>1, <1>5, <3>2, <4>1
    <3>4. CASE h # Len(p) + 1 - Len(Src)
      <4>1. /\ h \in 1 .. Len(p) - Len(Src) /\ Len(Src) + h \in 1 .. Len(p)
            /\ j \in 1 .. Len(Image(d, p))
        <5>1. h \in Int /\ 1 <= h /\ h <= Len(p) - Len(Src)
          BY <1>1, <1>3, <3>4
        <5>2. h \in 1 .. Len(p) - Len(Src) /\ Len(Src) + h \in 1 .. Len(p)
          BY <1>1, <1>3, <5>1
        <5>3. j \in 1 .. Len(Image(d, p))
          BY <1>1, <1>3, <3>1, <5>1
        <5>4. QED
          BY <5>2, <5>3
      <4>2. QED
        BY <1>1, <1>3, <1>5, <3>1, <3>2, <4>1
    <3>5. QED
      BY <3>3, <3>4
  <2>3. QED
    <3>1. j \in Int /\ Len(d) \in Int
      BY <1>1, <1>3
    <3>2. j <= Len(d) \/ j > Len(d)
      BY <3>1
    <3>3. QED
      BY <2>1, <2>2, <3>2
<1>7. Len(Image(d, r)) = Len(Append(Image(d, p), x))
  BY <1>1, <1>3, <1>4, <1>5
<1>8. Image(d, r) = Append(Image(d, p), x)
  <2>1. Len(Image(d, r)) = Len(d) + Len(p) + 1 - Len(Src)
    BY <1>1, <1>3, <1>4
  <2>2. \A j \in 1 .. Len(Image(d, r)) : Image(d, r)[j] = Append(Image(d, p), x)[j]
    BY <1>6, <2>1
  <2>3. QED
    BY <1>4, <1>5, <1>7, <2>2, PathEqual
<1>9. QED
  BY <1>0, <1>2, <1>8

(* The names readdir returns.                                               *)
LEMMA ChildNames ==
  ASSUME NEW f, DOMAIN f \subseteq Path, NEW p \in Path
  PROVE  /\ Children(f, p) \subseteq Names
         /\ \A x \in Names : x \in Children(f, p) <=> Append(p, x) \in DOMAIN f
<1>1. ASSUME NEW x \in Children(f, p) PROVE x \in Names /\ Append(p, x) \in DOMAIN f
  <2>1. PICK q \in DOMAIN f : Len(q) = Len(p) + 1 /\ Under(p, q) /\ x = q[Len(q)]
    BY DEF Children
  <2>2. q \in Path /\ p # q /\ Len(p) \in Nat
    BY <2>1, LenProperties DEF Path
  <2>3. x \in Names /\ Append(p, x) = SubSeq(q, 1, Len(q))
    BY <2>1, <2>2, PathNext
  <2>4. SubSeq(q, 1, Len(q)) = q
    BY <2>2, SubSeqFull DEF Path
  <2>5. QED
    BY <2>3, <2>4
<1>2. ASSUME NEW x \in Names, Append(p, x) \in DOMAIN f PROVE x \in Children(f, p)
  <2>1. Len(Append(p, x)) = Len(p) + 1 /\ Under(p, Append(p, x))
        /\ x = Append(p, x)[Len(Append(p, x))]
    BY PathAppend
  <2>2. QED
    BY <1>2, <2>1 DEF Children
<1>3. QED
  BY <1>1, <1>2

(* What copy_dir relies on, with d the target and f the file system: what   *)
(* is not in the target is as it was and a tree, and in the target there    *)
(* are copies only.                                                         *)
CopyCall == [from : Path, to : Path, mode : Modes, todo : SUBSET Names]
Shaped(f) ==
  /\ DOMAIN f \subseteq Path
  /\ \A p \in DOMAIN f : f[p].mode \in Modes /\ f[p] = Node(f[p].kind, f[p].mode, f[p].data)
Original(d, f) ==
  \A p \in DOMAIN f : ~Under(d, p) =>
    /\ f[p] \in Nodes
    /\ f[p].kind = "dir" => f[p].data = <<>>
    /\ \A k \in 0 .. Len(p) - 1 : SubSeq(p, 1, k) \in DOMAIN f /\ f[SubSeq(p, 1, k)].kind = "dir"
ToCopy(d, f) ==
  {p \in DOMAIN f : Under(Src, p) /\ ~Under(d, p) /\ f[p].kind \in {"dir", "file"}}
OnlyCopies(d, f) ==
  ~Under(Src, d) => \A q \in DOMAIN f : Under(d, q) => \E p \in ToCopy(d, f) : q = Image(d, p)
Ground(d, f) ==
  /\ d \in Path /\ Src \in DOMAIN f /\ ~Under(d, Src)
  /\ Shaped(f) /\ Original(d, f) /\ OnlyCopies(d, f)

(* The call at depth k, the call of copy_file, and where a directory or a   *)
(* file of the source is: copied, being copied, or below a name that        *)
(* readdir has yet to return.                                               *)
CallOk(d, f, c, k) ==
  /\ c.from \in DOMAIN f /\ Under(Src, c.from) /\ Len(c.from) = Len(Src) + k - 1
  /\ c.to = Image(d, c.from) /\ c.to \in DOMAIN f /\ f[c.to] = Node("dir", "rwx", <<>>)
  /\ ~Under(d, c.from) => f[c.from].kind = "dir" /\ c.mode = f[c.from].mode
  /\ \A x \in c.todo : Append(c.from, x) \in DOMAIN f
CallsOk(d, f, s) == s \in Seq(CopyCall) /\ \A k \in 1 .. Len(s) : CallOk(d, f, s[k], k)
FileOk(d, f, n, l) ==
  /\ l \in [from : Path, to : Path, pos : Nat]
  /\ l.from \in DOMAIN f /\ Under(Src, l.from) /\ Len(l.from) = Len(Src) + n
  /\ l.to = Image(d, l.from) /\ l.to \in DOMAIN f
  /\ ~Under(d, l.from) =>
       /\ f[l.from].kind = "file" /\ l.pos <= Len(f[l.from].data)
       /\ f[l.to] = Node("file", "rwx", SubSeq(f[l.from].data, 1, l.pos))
Finished(d, f, p) == Image(d, p) \in DOMAIN f /\ f[Image(d, p)] = f[p]
Awaited(s, p) ==
  \E k \in 1 .. Len(s) : /\ Under(s[k].from, p) /\ p # s[k].from
                         /\ p[Len(s[k].from) + 1] \in s[k].todo
BeingCopied(s, p) == \E k \in 1 .. Len(s) : p = s[k].from
InCalls(d, f, s, p) == Finished(d, f, p) \/ Awaited(s, p) \/ BeingCopied(s, p)

(* The induction hypothesis, while no call has failed unnoticed.            *)
Working ==
  /\ Ground(dst, fs) /\ CallsOk(dst, fs, stack)
  /\ file # NoFile => FileOk(dst, fs, Len(stack), file)
  /\ \A p \in ToCopy(dst, fs) :
       InCalls(dst, fs, stack, p) \/ (file # NoFile /\ p = file.from)
CopyInv ==
  trouble = {} =>
    /\ status \in {"start", "run", "exists", "done", "failed"}
    /\ status = "start" => fs \in Trees /\ dst \in Dsts /\ stack = <<>> /\ file = NoFile
    /\ status \in {"run", "done"} => Working
    /\ status = "run" => stack # <<>>
    /\ status = "done" => stack = <<>>
    /\ status # "run" => file = NoFile
    /\ status = "failed" => Obstacle \/ Under(Src, dst)

(* A node put into the target at the image of what is copied.               *)
Put(f, p, n) == [q \in DOMAIN f \cup {p} |-> IF q = p THEN n ELSE f[q]]
ButAt(d, f, g, t) ==
  \A q \in DOMAIN f : /\ q \in DOMAIN g /\ q \in Path
                      /\ q # t => g[q] = f[q]
                      /\ ~Under(d, q) => g[q] = f[q]

(* Such a node disturbs neither what is to be copied nor other copies.      *)
LEMMA PutOk ==
  ASSUME NEW d, NEW f, Ground(d, f), NEW r \in DOMAIN f, Under(Src, r),
         ~Under(d, r) => f[r].kind \in {"dir", "file"},
         NEW n, n.mode \in Modes, n = Node(n.kind, n.mode, n.data),
         NEW g, g = Put(f, Image(d, r), n)
  PROVE  /\ Ground(d, g) /\ ToCopy(d, g) = ToCopy(d, f)
         /\ Image(d, r) \in DOMAIN g /\ g[Image(d, r)] = n
         /\ ButAt(d, f, g, Image(d, r))
         /\ \A p \in ToCopy(d, f) : p # r /\ Finished(d, f, p) => Finished(d, g, p)
<1>1. /\ d \in Path /\ DOMAIN f \subseteq Path /\ r \in Path /\ Src \in Path
      /\ Shaped(f) /\ Original(d, f) /\ OnlyCopies(d, f) /\ Src \in DOMAIN f /\ ~Under(d, Src)
  BY CopyAssumption DEF Ground, Shaped
<1>2. PICK t : t = Image(d, r)
  OBVIOUS
<1>3. t \in Path /\ Under(d, t)
  BY <1>1, <1>2, ImagePath
<1>4. /\ DOMAIN g = DOMAIN f \cup {t} /\ g[t] = n
      /\ \A q \in DOMAIN f : q # t => g[q] = f[q]
  BY <1>2 DEF Put
<1>5. \A q \in DOMAIN g : ~Under(d, q) => q \in DOMAIN f /\ q # t /\ g[q] = f[q]
  BY <1>3, <1>4
<1>6. Shaped(g)
  BY <1>1, <1>3, <1>4 DEF Shaped
<1>7. Original(d, g)
  <2>1. ASSUME NEW p \in DOMAIN g, ~Under(d, p), NEW k \in 0 .. Len(p) - 1
        PROVE  SubSeq(p, 1, k) \in DOMAIN g /\ g[SubSeq(p, 1, k)].kind = "dir"
    <3>1. p \in DOMAIN f /\ p \in Path
      BY <1>1, <1>5, <2>1
    <3>2. PICK q : q = SubSeq(p, 1, k)
      OBVIOUS
    <3>3. q \in DOMAIN f /\ f[q].kind = "dir"
      BY <1>1, <2>1, <3>1, <3>2 DEF Original
    <3>4. Under(q, p)
      <4>1. k \in 0 .. Len(p) /\ k \in Nat
        BY <3>1, LenProperties DEF Path
      <4>2. Len(q) = k /\ q \in Path /\ \A j \in 1 .. k : q[j] = p[j]
        BY <3>1, <3>2, <4>1, PathCut
      <4>3. QED
        BY <3>1, <4>1, <4>2, UnderPoints
    <3>5. ~Under(d, q)
      BY <1>1, <2>1, <3>1, <3>3, <3>4, UnderOrder
    <3>6. QED
      BY <1>3, <1>4, <3>2, <3>3, <3>5
  <2>2. ASSUME NEW p \in DOMAIN g, ~Under(d, p)
        PROVE  g[p] \in Nodes /\ (g[p].kind = "dir" => g[p].data = <<>>)
    BY <1>1, <1>5, <2>2 DEF Original
  <2>3. QED
    BY <2>1, <2>2 DEF Original
<1>8. ToCopy(d, g) = ToCopy(d, f)
  BY <1>4, <1>5 DEF ToCopy
<1>9. OnlyCopies(d, g)
  <2>1. ASSUME ~Under(Src, d), NEW q \in DOMAIN g, Under(d, q)
        PROVE  \E p \in ToCopy(d, f) : q = Image(d, p)
    <3>1. CASE q = t
      <4>1. ~Under(d, r)
        BY <1>1, <2>1, UnderOrder
      <4>2. r \in ToCopy(d, f)
        BY <4>1 DEF ToCopy
      <4>3. QED
        BY <1>2, <3>1, <4>2
    <3>2. CASE q # t
      BY <1>1, <1>4, <2>1, <3>2 DEF OnlyCopies
    <3>3. QED
      BY <3>1, <3>2
  <2>2. QED
    BY <1>8, <2>1 DEF OnlyCopies
<1>10. Ground(d, g)
  BY <1>1, <1>4, <1>6, <1>7, <1>9 DEF Ground
<1>11. ASSUME NEW p \in ToCopy(d, f), p # r, Finished(d, f, p) PROVE Finished(d, g, p)
  <2>1. p \in DOMAIN f /\ p \in Path /\ Under(Src, p) /\ ~Under(d, p)
    BY <1>1 DEF ToCopy
  <2>2. Image(d, p) # t
    BY <1>1, <1>2, <1>11, <2>1, ImageInjective
  <2>3. Image(d, p) \in DOMAIN f /\ f[Image(d, p)] = f[p] /\ p # t
    BY <1>3, <1>11, <2>1 DEF Finished
  <2>4. QED
    BY <1>4, <2>1, <2>2, <2>3 DEF Finished
<1>12. QED
  BY <1>1, <1>2, <1>3, <1>4, <1>8, <1>10, <1>11 DEF ButAt

(* What is put at another depth leaves the calls as they are.               *)
LEMMA CallsKept ==
  ASSUME NEW d, NEW f, Ground(d, f), NEW r \in DOMAIN f, Under(Src, r),
         NEW g, NEW s, CallsOk(d, f, s), \A k \in 1 .. Len(s) : Len(s[k].from) # Len(r),
         ButAt(d, f, g, Image(d, r))
  PROVE  CallsOk(d, g, s)
<1>1. d \in Path /\ r \in Path /\ DOMAIN f \subseteq Path
  BY DEF Ground, Shaped
<1>2. ASSUME NEW k \in 1 .. Len(s) PROVE CallOk(d, g, s[k], k)
  <2>1. CallOk(d, f, s[k], k)
    BY DEF CallsOk
  <2>2. s[k].to # Image(d, r)
    <3>1. s[k].from \in Path /\ Under(Src, s[k].from) /\ s[k].to = Image(d, s[k].from)
          /\ s[k].from # r
      BY <1>1, <2>1 DEF CallOk
    <3>2. QED
      BY <1>1, <3>1, ImageInjective
  <2>3. s[k].from \in DOMAIN g /\ (~Under(d, s[k].from) => g[s[k].from] = f[s[k].from])
    BY <2>1 DEF CallOk, ButAt
  <2>4. s[k].to \in DOMAIN g /\ g[s[k].to] = f[s[k].to]
    BY <2>1, <2>2 DEF CallOk, ButAt
  <2>5. \A x \in s[k].todo : Append(s[k].from, x) \in DOMAIN g
    BY <2>1 DEF CallOk, ButAt
  <2>6. QED
    BY <2>1, <2>3, <2>4, <2>5 DEF CallOk
<1>3. QED
  BY <1>2 DEF CallsOk

(* The depth of a call.                                                     *)
LEMMA CallDepth ==
  ASSUME NEW d, NEW f, Ground(d, f), NEW s, CallsOk(d, f, s)
  PROVE  /\ Len(s) \in Nat /\ Len(Src) \in Nat
         /\ \A k \in 1 .. Len(s) :
              /\ s[k] \in CopyCall /\ s[k].from \in Path /\ s[k].to \in Path /\ k \in Nat
              /\ Len(s[k].from) = Len(Src) + k - 1 /\ s[k].from \in DOMAIN f
              /\ Under(Src, s[k].from) /\ s[k].to = Image(d, s[k].from)
<1>1. s \in Seq(CopyCall) /\ Len(s) \in Nat /\ Len(Src) \in Nat
  BY CopyAssumption, LenProperties DEF CallsOk, Path
<1>2. \A k \in 1 .. Len(s) : s[k] \in CopyCall
  BY <1>1, ElementOfSeq
<1>3. \A k \in 1 .. Len(s) : s[k].from \in Path /\ s[k].to \in Path /\ k \in Nat
  BY <1>1, <1>2 DEF CopyCall
<1>4. \A k \in 1 .. Len(s) : CallOk(d, f, s[k], k)
  BY DEF CallsOk
<1>5. QED
  BY <1>1, <1>2, <1>3, <1>4 DEF CallOk

(* What stands outside the target stands in directories, down to it.        *)
LEMMA StandsInDirs ==
  ASSUME NEW d, NEW f, Ground(d, f), NEW p \in DOMAIN f, ~Under(d, p),
         NEW r \in Path, Under(r, p), r # p
  PROVE  /\ r \in DOMAIN f /\ f[r].kind = "dir" /\ p[Len(r) + 1] \in Names
         /\ Append(r, p[Len(r) + 1]) \in DOMAIN f /\ Under(Append(r, p[Len(r) + 1]), p)
<1>1. p \in Path /\ Original(d, f) /\ Len(p) \in Nat /\ Len(r) \in Nat
  BY LenProperties DEF Ground, Shaped, Path
<1>2. /\ Len(r) + 1 <= Len(p) /\ p[Len(r) + 1] \in Names
      /\ Append(r, p[Len(r) + 1]) = SubSeq(p, 1, Len(r) + 1)
      /\ Under(Append(r, p[Len(r) + 1]), p)
  BY <1>1, PathNext
<1>3. r = SubSeq(p, 1, Len(r)) /\ Len(r) \in 0 .. Len(p) - 1
  BY <1>1, <1>2, PathAbove
<1>4. r \in DOMAIN f /\ f[r].kind = "dir"
  BY <1>1, <1>3 DEF Original
<1>5. SubSeq(p, 1, Len(r) + 1) \in DOMAIN f
  <2>1. CASE Len(r) + 1 = Len(p)
    BY <1>1, <2>1, SubSeqFull DEF Path
  <2>2. CASE Len(r) + 1 # Len(p)
    <3>1. Len(r) + 1 \in 0 .. Len(p) - 1
      BY <1>1, <1>2, <2>2
    <3>2. QED
      BY <1>1, <3>1 DEF Original
  <2>3. QED
    BY <2>1, <2>2
<1>6. QED
  BY <1>2, <1>4, <1>5

(* readdir returns a name: what was below it is all that is not awaited in  *)
(* the calls any more.                                                      *)
Without(s, x) == [s EXCEPT ![Len(s)].todo = @ \ {x}]
Returns(s, c, x, r, calls) ==
  s # <<>> /\ c = s[Len(s)] /\ x \in c.todo /\ r = Append(c.from, x) /\ calls = Without(s, x)

(* What was awaited is so still, or it is where the name leads.             *)
LEMMA TakeOut ==
  ASSUME NEW d, NEW f, Ground(d, f), NEW s, CallsOk(d, f, s),
         NEW c, NEW x, NEW r, NEW calls, Returns(s, c, x, r, calls)
  PROVE  /\ r \in DOMAIN f /\ r \in Path /\ Under(Src, r) /\ Len(r) = Len(Src) + Len(s)
         /\ Append(c.to, x) = Image(d, r) /\ Front(Image(d, r)) = c.to
         /\ c.to \in DOMAIN f /\ f[c.to] = Node("dir", "rwx", <<>>)
         /\ CallsOk(d, f, calls) /\ Len(calls) = Len(s) /\ Len(s) \in Nat /\ Len(Src) \in Nat
         /\ \A p \in ToCopy(d, f) : InCalls(d, f, s, p) => InCalls(d, f, calls, p) \/ Under(r, p)
<1>0. /\ s # <<>> /\ c = s[Len(s)] /\ x \in c.todo /\ r = Append(c.from, x)
      /\ calls = Without(s, x)
  BY DEF Returns
<1>1. /\ Len(s) \in Nat /\ Len(Src) \in Nat /\ s \in Seq(CopyCall) /\ d \in Path
      /\ DOMAIN f \subseteq Path
  BY CallDepth DEF CallsOk, Ground, Shaped
<1>2. Len(s) \in 1 .. Len(s) /\ s \in [1 .. Len(s) -> CopyCall]
  BY <1>0, <1>1, EmptySeq, LenProperties
<1>3. PICK n : n = Len(s)
  OBVIOUS
<1>4. c = s[n]
  BY <1>0, <1>3
<1>5. /\ c \in CopyCall /\ CallOk(d, f, c, n) /\ x \in Names /\ x \in c.todo
      /\ c.from \in Path /\ c.to \in Path /\ r = Append(c.from, x)
  BY <1>0, <1>2, <1>3, <1>4 DEF CallsOk, CopyCall
<1>6. /\ Under(Src, c.from) /\ Len(c.from) = Len(Src) + n - 1 /\ c.to = Image(d, c.from)
      /\ c.to \in DOMAIN f /\ f[c.to] = Node("dir", "rwx", <<>>) /\ r \in DOMAIN f
  BY <1>5 DEF CallOk
<1>7. /\ r \in Path /\ Len(r) = Len(Src) + n /\ Under(Src, r)
      /\ Append(c.to, x) = Image(d, r) /\ Front(Image(d, r)) = c.to
  <2>1. /\ r \in Path /\ Len(r) = Len(c.from) + 1 /\ Len(c.from) \in Nat
    BY <1>5, PathAppend
  <2>2. Under(Src, r) /\ Append(c.to, x) = Image(d, r)
    <3>1. /\ Image(d, Append(c.from, x)) = Append(Image(d, c.from), x)
          /\ Under(Src, Append(c.from, x))
      BY <1>1, <1>5, <1>6, ImageAppend
    <3>2. QED
      BY <1>5, <1>6, <3>1
  <2>3. Front(Append(c.to, x)) = c.to
    BY <1>5, PathAppend
  <2>4. QED
    BY <1>1, <1>3, <1>6, <2>1, <2>2, <2>3
<1>8. /\ calls = [k \in 1 .. n |-> calls[k]] /\ \A k \in 1 .. n : k # n => calls[k] = s[k]
      /\ calls[n] = [c EXCEPT !.todo = @ \ {x}]
  BY <1>0, <1>2, <1>3, <1>4 DEF Without
<1>9. /\ calls[n] \in CopyCall /\ calls[n].from = c.from /\ calls[n].to = c.to
      /\ calls[n].mode = c.mode /\ calls[n].todo = c.todo \ {x}
  BY <1>5, <1>8 DEF CopyCall
<1>10. calls \in Seq(CopyCall) /\ Len(calls) = n
  <2>1. calls \in [1 .. n -> CopyCall]
    BY <1>2, <1>3, <1>8, <1>9
  <2>2. QED
    BY <1>1, <1>3, <2>1, LenProperties
<1>11. \A k \in 1 .. n : calls[k].from = s[k].from
  BY <1>4, <1>8, <1>9
<1>12. CallsOk(d, f, calls)
  <2>1. CallOk(d, f, calls[n], n)
    BY <1>5, <1>9 DEF CallOk
  <2>2. \A k \in 1 .. n : CallOk(d, f, calls[k], k)
    BY <1>3, <1>8, <2>1 DEF CallsOk
  <2>3. QED
    BY <1>10, <2>2 DEF CallsOk
<1>13. ASSUME NEW p \in ToCopy(d, f), InCalls(d, f, s, p)
       PROVE  InCalls(d, f, calls, p) \/ Under(r, p)
  <2>1. CASE BeingCopied(s, p)
    BY <1>3, <1>10, <1>11, <2>1 DEF BeingCopied, InCalls
  <2>2. CASE Awaited(s, p)
    <3>1. PICK k \in 1 .. n : /\ Under(s[k].from, p) /\ p # s[k].from
                             /\ p[Len(s[k].from) + 1] \in s[k].todo
      BY <1>3, <2>2 DEF Awaited
    <3>2. CASE p[Len(s[k].from) + 1] \in calls[k].todo
      BY <1>10, <1>11, <3>1, <3>2 DEF Awaited, InCalls
    <3>3. CASE p[Len(s[k].from) + 1] \notin calls[k].todo
      <4>1. k = n /\ p[Len(c.from) + 1] = x
        BY <1>4, <1>8, <1>9, <3>1, <3>3
      <4>2. p \in Path /\ Under(c.from, p) /\ p # c.from
        BY <1>1, <1>4, <3>1, <4>1 DEF ToCopy
      <4>3. QED
        BY <1>5, <4>1, <4>2, PathNext
    <3>4. QED
      BY <3>2, <3>3
  <2>3. QED
    BY <1>13, <2>1, <2>2 DEF InCalls
<1>14. QED
  BY <1>1, <1>3, <1>4, <1>6, <1>7, <1>10, <1>12, <1>13

(* copy_dir goes down: what is below the directory is awaited there.        *)
LEMMA EnterOk ==
  ASSUME NEW d, NEW f, Ground(d, f), NEW s, CallsOk(d, f, s),
         NEW r \in DOMAIN f, Under(Src, r), Len(r) = Len(Src) + Len(s), f[r].kind = "dir",
         NEW g, g = Put(f, Image(d, r), Node("dir", "rwx", <<>>)),
         NEW c, NEW listed \in {Children(f, r), Children(g, r)},
         c = [from |-> r, to |-> Image(d, r), mode |-> f[r].mode, todo |-> listed],
         \A p \in ToCopy(d, f) : InCalls(d, f, s, p) \/ Under(r, p)
  PROVE  /\ Ground(d, g) /\ CallsOk(d, g, Append(s, c))
         /\ \A p \in ToCopy(d, g) : InCalls(d, g, Append(s, c), p)
<1>1. /\ Len(s) \in Nat /\ Len(Src) \in Nat /\ s \in Seq(CopyCall) /\ d \in Path
      /\ DOMAIN f \subseteq Path /\ r \in Path /\ f[r].mode \in Modes
  BY CallDepth DEF CallsOk, Ground, Shaped
<1>2. PICK n : n = Node("dir", "rwx", <<>>)
  OBVIOUS
<1>3. n.mode \in Modes /\ n = Node(n.kind, n.mode, n.data)
  BY <1>2 DEF Node, Modes
<1>4. /\ Ground(d, g) /\ ToCopy(d, g) = ToCopy(d, f)
      /\ Image(d, r) \in DOMAIN g /\ g[Image(d, r)] = n /\ ButAt(d, f, g, Image(d, r))
      /\ \A p \in ToCopy(d, f) : p # r /\ Finished(d, f, p) => Finished(d, g, p)
  BY <1>2, <1>3, PutOk
<1>5. \A k \in 1 .. Len(s) : Len(s[k].from) # Len(r)
  BY <1>1, CallDepth
<1>6. CallsOk(d, g, s)
  BY <1>4, <1>5, CallsKept
<1>7. DOMAIN g \subseteq Path /\ DOMAIN f \subseteq DOMAIN g
  BY <1>4 DEF Ground, Shaped, ButAt
<1>8. listed \subseteq Names /\ \A x \in Names : Append(r, x) \in DOMAIN f => x \in listed
  BY <1>1, <1>7, ChildNames
<1>9. \A x \in listed : Append(r, x) \in DOMAIN g
  BY <1>1, <1>7, ChildNames
<1>10. c \in CopyCall
  BY <1>1, <1>8, ImagePath DEF CopyCall
<1>11. /\ Append(s, c) \in Seq(CopyCall) /\ Len(Append(s, c)) = Len(s) + 1
       /\ Append(s, c)[Len(s) + 1] = c /\ \A k \in 1 .. Len(s) : Append(s, c)[k] = s[k]
  BY <1>1, <1>10, AppendProperties
<1>12. PICK m : m = Append(s, c)
  OBVIOUS
<1>13. CallOk(d, g, c, Len(s) + 1)
  <2>1. c.from = r /\ c.to = Image(d, r) /\ c.mode = f[r].mode /\ c.todo = listed
    OBVIOUS
  <2>2. r \in DOMAIN g /\ Len(r) = Len(Src) + (Len(s) + 1) - 1
    BY <1>1, <1>7
  <2>3. ~Under(d, r) => g[r] = f[r]
    BY <1>4 DEF ButAt
  <2>4. QED
    BY <1>2, <1>4, <1>9, <2>1, <2>2, <2>3 DEF CallOk
<1>14. CallsOk(d, g, m)
  <2>1. ASSUME NEW k \in 1 .. Len(m) PROVE CallOk(d, g, m[k], k)
    <3>1. CASE k = Len(s) + 1
      BY <1>11, <1>12, <1>13, <3>1
    <3>2. CASE k # Len(s) + 1
      <4>1. k \in 1 .. Len(s)
        BY <1>1, <1>11, <1>12, <3>2
      <4>2. QED
        BY <1>6, <1>11, <1>12, <4>1 DEF CallsOk
    <3>3. QED
      BY <3>1, <3>2
  <2>2. QED
    BY <1>11, <1>12, <2>1 DEF CallsOk
<1>15. \A k \in 1 .. Len(s) : k \in 1 .. Len(m) /\ m[k] = s[k]
  BY <1>1, <1>11, <1>12
<1>16. Len(s) + 1 \in 1 .. Len(m) /\ m[Len(s) + 1] = c /\ c.from = r /\ c.todo = listed
  BY <1>1, <1>11, <1>12
<1>17. ASSUME NEW p \in ToCopy(d, f) PROVE InCalls(d, g, m, p)
  <2>1. p \in DOMAIN f /\ p \in Path /\ ~Under(d, p)
    BY <1>1 DEF ToCopy
  <2>2. CASE p = r
    BY <1>16, <2>2 DEF InCalls, BeingCopied
  <2>3. CASE p # r /\ Under(r, p)
    <3>1. p[Len(r) + 1] \in listed
      BY <1>1, <1>8, <2>1, <2>3, StandsInDirs
    <3>2. QED
      BY <1>16, <2>3, <3>1 DEF InCalls, Awaited
  <2>4. CASE p # r /\ InCalls(d, f, s, p)
    <3>1. Finished(d, f, p) => Finished(d, g, p)
      BY <1>4, <2>4
    <3>2. Awaited(s, p) => Awaited(m, p)
      BY <1>15 DEF Awaited
    <3>3. BeingCopied(s, p) => BeingCopied(m, p)
      BY <1>15 DEF BeingCopied
    <3>4. QED
      BY <2>4, <3>1, <3>2, <3>3 DEF InCalls
  <2>5. QED
    BY <2>2, <2>3, <2>4
<1>18. QED
  BY <1>4, <1>12, <1>14, <1>17

(* copy_file begins: there is nothing below the file.                       *)
LEMMA OpenOk ==
  ASSUME NEW d, NEW f, Ground(d, f), NEW s, CallsOk(d, f, s),
         NEW r \in DOMAIN f, Under(Src, r), Len(r) = Len(Src) + Len(s), f[r].kind = "file",
         NEW g, g = Put(f, Image(d, r), Node("file", "rwx", <<>>)),
         NEW l, l = [from |-> r, to |-> Image(d, r), pos |-> 0],
         \A p \in ToCopy(d, f) : InCalls(d, f, s, p) \/ Under(r, p)
  PROVE  /\ Ground(d, g) /\ CallsOk(d, g, s) /\ FileOk(d, g, Len(s), l)
         /\ \A p \in ToCopy(d, g) : InCalls(d, g, s, p) \/ p = l.from
<1>1. /\ Len(s) \in Nat /\ Len(Src) \in Nat /\ d \in Path
      /\ DOMAIN f \subseteq Path /\ r \in Path /\ Original(d, f)
  BY CallDepth DEF CallsOk, Ground, Shaped
<1>2. PICK n : n = Node("file", "rwx", <<>>)
  OBVIOUS
<1>3. n.mode \in Modes /\ n = Node(n.kind, n.mode, n.data)
  BY <1>2 DEF Node, Modes
<1>4. /\ Ground(d, g) /\ ToCopy(d, g) = ToCopy(d, f)
      /\ Image(d, r) \in DOMAIN g /\ g[Image(d, r)] = n /\ ButAt(d, f, g, Image(d, r))
      /\ \A p \in ToCopy(d, f) : p # r /\ Finished(d, f, p) => Finished(d, g, p)
  BY <1>2, <1>3, PutOk
<1>5. \A k \in 1 .. Len(s) : Len(s[k].from) # Len(r)
  BY <1>1, CallDepth
<1>6. CallsOk(d, g, s)
  BY <1>4, <1>5, CallsKept
<1>7. l.from = r /\ l.to = Image(d, r) /\ l.pos = 0 /\ l \in [from : Path, to : Path, pos : Nat]
  BY <1>1, ImagePath
<1>8. FileOk(d, g, Len(s), l)
  <2>1. ASSUME ~Under(d, r)
        PROVE  /\ g[r].kind = "file" /\ 0 <= Len(g[r].data)
               /\ g[Image(d, r)] = Node("file", "rwx", SubSeq(g[r].data, 1, 0))
    <3>1. g[r] = f[r] /\ f[r] \in Nodes
      BY <1>1, <1>4, <2>1 DEF ButAt, Original
    <3>2. f[r].data \in Seq(Blocks)
      BY <3>1 DEF Nodes
    <3>3. SubSeq(f[r].data, 1, 0) = <<>> /\ 0 <= Len(f[r].data)
      BY <3>2, SubSeqEmpty, LenProperties
    <3>4. QED
      BY <1>2, <1>4, <3>1, <3>3
  <2>2. r \in DOMAIN g
    BY <1>4 DEF ButAt
  <2>3. QED
    BY <1>4, <1>7, <2>1, <2>2 DEF FileOk
<1>9. ASSUME NEW p \in ToCopy(d, f) PROVE InCalls(d, g, s, p) \/ p = r
  <2>1. p \in DOMAIN f /\ p \in Path /\ ~Under(d, p)
    BY <1>1 DEF ToCopy
  <2>2. ~(p # r /\ Under(r, p))
    BY <1>1, <2>1, StandsInDirs
  <2>3. QED
    BY <1>4, <2>2 DEF InCalls
<1>10. QED
  BY <1>4, <1>6, <1>7, <1>8, <1>9

(* What is neither a directory nor a file is passed over.                   *)
LEMMA SkipOk ==
  ASSUME NEW d, NEW f, Ground(d, f), NEW s, NEW r \in DOMAIN f, r \in Path,
         f[r].kind \notin {"dir", "file"},
         NEW p \in ToCopy(d, f), InCalls(d, f, s, p) \/ Under(r, p)
  PROVE  InCalls(d, f, s, p)
<1>1. p \in DOMAIN f /\ ~Under(d, p) /\ p # r
  BY DEF ToCopy
<1>2. CASE Under(r, p)
  BY <1>1, <1>2, StandsInDirs
<1>3. QED
  BY <1>2

(* What copy_file writes and sets leaves everything else as it was.         *)
LEMMA FilePut ==
  ASSUME NEW d, NEW f, Ground(d, f), NEW s, CallsOk(d, f, s),
         NEW l, FileOk(d, f, Len(s), l), NEW g, NEW n, n.mode \in Modes,
         n = Node(n.kind, n.mode, n.data), g = Put(f, l.to, n),
         \A p \in ToCopy(d, f) : InCalls(d, f, s, p) \/ p = l.from
  PROVE  /\ Ground(d, g) /\ CallsOk(d, g, s) /\ ToCopy(d, g) = ToCopy(d, f)
         /\ l.to \in DOMAIN g /\ g[l.to] = n /\ ButAt(d, f, g, l.to)
         /\ \A p \in ToCopy(d, g) : InCalls(d, g, s, p) \/ p = l.from
<1>1. PICK r : r = l.from
  OBVIOUS
<1>2. /\ r \in DOMAIN f /\ Under(Src, r) /\ Len(r) = Len(Src) + Len(s) /\ l.to = Image(d, r)
      /\ ~Under(d, r) => f[r].kind \in {"dir", "file"}
  BY <1>1 DEF FileOk
<1>3. /\ Ground(d, g) /\ ToCopy(d, g) = ToCopy(d, f)
      /\ Image(d, r) \in DOMAIN g /\ g[Image(d, r)] = n /\ ButAt(d, f, g, Image(d, r))
      /\ \A p \in ToCopy(d, f) : p # r /\ Finished(d, f, p) => Finished(d, g, p)
  BY <1>2, PutOk
<1>4. \A k \in 1 .. Len(s) : Len(s[k].from) # Len(r)
  BY <1>2, CallDepth
<1>5. CallsOk(d, g, s)
  BY <1>2, <1>3, <1>4, CallsKept
<1>6. \A p \in ToCopy(d, f) : InCalls(d, g, s, p) \/ p = r
  BY <1>1, <1>3 DEF InCalls
<1>7. QED
  BY <1>1, <1>2, <1>3, <1>5, <1>6

(* Sequences one longer and one shorter.                                    *)
LEMMA NextBlock ==
  ASSUME NEW b \in Seq(Blocks), NEW n \in Nat, n + 1 <= Len(b)
  PROVE  SubSeq(b, 1, n + 1) = Append(SubSeq(b, 1, n), b[n + 1])
<1>1. Len(b) \in Nat /\ b \in [1 .. Len(b) -> Blocks]
  BY LenProperties
<1>2. 1 \in 1 .. Len(b) /\ n + 1 \in 1 .. Len(b)
  BY <1>1
<1>3. QED
  BY <1>1, <1>2, SubSeqRecursiveSecond, SubSeqEmpty

(* The calls but the last.                                                  *)
LEMMA FrontCalls ==
  ASSUME NEW s \in Seq(CopyCall), s # <<>>
  PROVE  /\ Front(s) \in Seq(CopyCall) /\ Len(Front(s)) = Len(s) - 1
         /\ \A k \in 1 .. Len(s) - 1 : Front(s)[k] = s[k]
<1>1. Len(s) \in Nat \ {0} /\ s \in [1 .. Len(s) -> CopyCall]
  BY EmptySeq, LenProperties
<1>2. PICK n : n = Len(s) - 1
  OBVIOUS
<1>3. n \in Nat /\ \A h \in 1 .. n : s[h] \in CopyCall
  BY <1>1, <1>2
<1>4. /\ SubSeq(s, 1, n) \in Seq(CopyCall)
      /\ Len(SubSeq(s, 1, n)) = IF 1 <= n THEN n - 1 + 1 ELSE 0
      /\ \A h \in 1 .. n - 1 + 1 : SubSeq(s, 1, n)[h] = s[1 + h - 1]
  BY <1>1, <1>3, SubSeqProperties
<1>5. QED
  BY <1>2, <1>3, <1>4 DEF Front

(* What a sequence of calls ends with is a call.                            *)
LEMMA LastAppended ==
  ASSUME NEW s \in Seq(CopyCall), NEW c, Append(s, c) \in Seq(CopyCall)
  PROVE  c \in CopyCall
<1>1. Len(s) \in Nat /\ DOMAIN s = 1 .. Len(s)
  BY LenProperties
<1>2. Append(s, c)[Len(s) + 1] = c /\ Len(Append(s, c)) = Len(s) + 1
  BY <1>1
<1>3. QED
  BY <1>1, <1>2, LenProperties

(* A node has its parts.                                                    *)
LEMMA NodeParts ==
  ASSUME NEW kind, NEW mode, NEW blocks, NEW n, n = Node(kind, mode, blocks)
  PROVE  n.kind = kind /\ n.mode = mode /\ n.data = blocks
BY DEF Node

(* chmod puts a node with another mode.                                     *)
LEMMA ChmodPuts ==
  ASSUME NEW f, Shaped(f), NEW t \in DOMAIN f, NEW mode, NEW n,
         n = Node(f[t].kind, mode, f[t].data)
  PROVE  Chmod(f, t, mode) = Put(f, t, n)
<1>1. f[t] = Node(f[t].kind, f[t].mode, f[t].data)
  BY DEF Shaped
<1>2. [f[t] EXCEPT !.mode = mode] = n
  BY <1>1 DEF Node
<1>3. DOMAIN f \cup {t} = DOMAIN f
  OBVIOUS
<1>4. QED
  BY <1>2, <1>3 DEF Put, Chmod

(* A block is appended to the node it is read into.                         *)
Grown(f, t, x) == [f EXCEPT ![t].data = Append(@, x)]

(* That is a node put where the file is.                                    *)
LEMMA BlockPuts ==
  ASSUME NEW f, Shaped(f), NEW t \in DOMAIN f, NEW x
  PROVE  Grown(f, t, x) = Put(f, t, Node(f[t].kind, f[t].mode, Append(f[t].data, x)))
<1>1. PICK v : v = Append(f[t].data, x)
  OBVIOUS
<1>2. f[t] = Node(f[t].kind, f[t].mode, f[t].data)
  BY DEF Shaped
<1>3. [f[t] EXCEPT !.data = v] = Node(f[t].kind, f[t].mode, v)
  BY <1>2 DEF Node
<1>4. DOMAIN f \cup {t} = DOMAIN f
  OBVIOUS
<1>5. [f EXCEPT ![t].data = v] = Put(f, t, Node(f[t].kind, f[t].mode, v))
  BY <1>3, <1>4 DEF Put
<1>6. QED
  BY <1>1, <1>5 DEF Grown

(* The copy of a file with one more block.                                  *)
Longer(f, l) ==
  Node(f[l.to].kind, f[l.to].mode, Append(f[l.to].data, f[l.from].data[l.pos + 1]))

(* A block is written: the copy is what has been read.                      *)
LEMMA WriteOk ==
  ASSUME NEW d, NEW f, Ground(d, f), NEW depth, NEW l, FileOk(d, f, depth, l),
         l.pos # Len(f[l.from].data),
         NEW n, n = Longer(f, l), NEW g, g[l.to] = n, ButAt(d, f, g, l.to)
  PROVE  FileOk(d, g, depth, [l EXCEPT !.pos = @ + 1])
<1>1. /\ Shaped(f) /\ l.to \in DOMAIN f /\ l.from \in DOMAIN f
      /\ l \in [from : Path, to : Path, pos : Nat] /\ Original(d, f)
  BY DEF Ground, FileOk
<1>2. PICK m : m = [l EXCEPT !.pos = @ + 1]
  OBVIOUS
<1>3. /\ m.from = l.from /\ m.to = l.to /\ m.pos = l.pos + 1 /\ l.pos \in Nat
      /\ m \in [from : Path, to : Path, pos : Nat]
  BY <1>1, <1>2
<1>4. l.from \in DOMAIN g /\ l.to \in DOMAIN g
  BY <1>1 DEF ButAt
<1>5. ASSUME ~Under(d, l.from)
      PROVE  /\ g[l.from].kind = "file" /\ l.pos + 1 <= Len(g[l.from].data)
             /\ g[l.to] = Node("file", "rwx", SubSeq(g[l.from].data, 1, l.pos + 1))
  <2>1. /\ g[l.from] = f[l.from] /\ f[l.from].kind = "file" /\ l.pos <= Len(f[l.from].data)
        /\ f[l.to] = Node("file", "rwx", SubSeq(f[l.from].data, 1, l.pos))
    BY <1>1, <1>5 DEF ButAt, FileOk
  <2>2. PICK b : b = f[l.from].data
    OBVIOUS
  <2>3. b \in Seq(Blocks) /\ Len(b) \in Nat
    BY <1>1, <1>5, <2>2, LenProperties DEF Original, Nodes
  <2>4. l.pos + 1 <= Len(b)
    BY <1>3, <2>1, <2>2, <2>3
  <2>5. SubSeq(b, 1, l.pos + 1) = Append(SubSeq(b, 1, l.pos), b[l.pos + 1])
    BY <1>3, <2>3, <2>4, NextBlock
  <2>6. /\ f[l.to].kind = "file" /\ f[l.to].mode = "rwx"
        /\ f[l.to].data = SubSeq(f[l.from].data, 1, l.pos)
    <3>1. PICK v : v = SubSeq(f[l.from].data, 1, l.pos)
      OBVIOUS
    <3>2. f[l.to] = Node("file", "rwx", v)
      BY <2>1, <3>1
    <3>3. f[l.to].kind = "file" /\ f[l.to].mode = "rwx" /\ f[l.to].data = v
      BY <3>2, NodeParts
    <3>4. QED
      BY <3>1, <3>3
  <2>7. n = Node("file", "rwx", SubSeq(b, 1, l.pos + 1))
    BY <2>2, <2>5, <2>6 DEF Longer
  <2>8. QED
    BY <2>1, <2>2, <2>4, <2>7
<1>6. FileOk(d, g, depth, m)
  BY <1>3, <1>4, <1>5 DEF FileOk
<1>7. QED
  BY <1>2, <1>6

(* The end of a file: it is copied.                                         *)
Closes(f, l, g) == l.pos = Len(f[l.from].data) /\ g = Chmod(f, l.to, f[l.from].mode)

(* Nothing of the file is missing, and no other copy is touched.            *)
LEMMA CloseOk ==
  ASSUME NEW d, NEW f, Ground(d, f), NEW s, CallsOk(d, f, s), NEW l, FileOk(d, f, Len(s), l),
         NEW g, Closes(f, l, g),
         \A p \in ToCopy(d, f) : InCalls(d, f, s, p) \/ p = l.from
  PROVE  /\ Ground(d, g) /\ CallsOk(d, g, s) /\ \A p \in ToCopy(d, g) : InCalls(d, g, s, p)
<1>1. /\ Shaped(f) /\ l.to \in DOMAIN f /\ l.from \in DOMAIN f /\ Original(d, f)
      /\ l.to = Image(d, l.from)
  BY DEF Ground, FileOk
<1>2. PICK n : n = Node(f[l.to].kind, f[l.from].mode, f[l.to].data)
  OBVIOUS
<1>3. n.mode \in Modes /\ n = Node(n.kind, n.mode, n.data)
  BY <1>1, <1>2 DEF Node, Shaped
<1>4. g = Put(f, l.to, n)
  BY <1>1, <1>2, ChmodPuts DEF Closes
<1>5. /\ Ground(d, g) /\ CallsOk(d, g, s) /\ ToCopy(d, g) = ToCopy(d, f)
      /\ l.to \in DOMAIN g /\ g[l.to] = n /\ ButAt(d, f, g, l.to)
      /\ \A p \in ToCopy(d, g) : InCalls(d, g, s, p) \/ p = l.from
  BY <1>3, <1>4, FilePut
<1>6. ASSUME l.from \in ToCopy(d, f) PROVE Finished(d, g, l.from)
  <2>1. ~Under(d, l.from)
    BY <1>6 DEF ToCopy
  <2>2. /\ g[l.from] = f[l.from] /\ f[l.from].kind = "file"
        /\ f[l.to] = Node("file", "rwx", SubSeq(f[l.from].data, 1, Len(f[l.from].data)))
    BY <1>1, <1>5, <2>1 DEF ButAt, FileOk, Closes
  <2>3. f[l.from].data \in Seq(Blocks)
    BY <1>1, <2>1 DEF Original, Nodes
  <2>4. SubSeq(f[l.from].data, 1, Len(f[l.from].data)) = f[l.from].data
    BY <2>3, SubSeqFull
  <2>5. n = Node("file", f[l.from].mode, f[l.from].data)
    <3>1. f[l.to].kind = "file" /\ f[l.to].data = f[l.from].data
      <4>1. f[l.to] = Node("file", "rwx", f[l.from].data)
        BY <2>2, <2>4
      <4>2. QED
        BY <4>1, NodeParts
    <3>2. QED
      BY <1>2, <3>1
  <2>6. n = f[l.from]
    BY <1>1, <2>2, <2>5 DEF Shaped
  <2>7. QED
    BY <1>1, <1>5, <2>2, <2>6 DEF Finished
<1>7. QED
  BY <1>5, <1>6 DEF InCalls

(* The end of copy_dir: all that was in the directory is copied.            *)
Leaves(f, s, g) ==
  s # <<>> /\ s[Len(s)].todo = {} /\ g = Chmod(f, s[Len(s)].to, s[Len(s)].mode)

(* The names are used up, and the mode is that of the original.             *)
LEMMA LeaveOk ==
  ASSUME NEW d, NEW f, Ground(d, f), NEW s, CallsOk(d, f, s), NEW g, Leaves(f, s, g),
         \A p \in ToCopy(d, f) : InCalls(d, f, s, p)
  PROVE  /\ Ground(d, g) /\ CallsOk(d, g, Front(s)) /\ Len(s) \in Nat \ {0}
         /\ Len(Front(s)) = Len(s) - 1
         /\ \A p \in ToCopy(d, g) : InCalls(d, g, Front(s), p)
<1>0. s # <<>> /\ s[Len(s)].todo = {} /\ g = Chmod(f, s[Len(s)].to, s[Len(s)].mode)
  BY DEF Leaves
<1>1. /\ Len(s) \in Nat /\ Len(Src) \in Nat /\ s \in Seq(CopyCall) /\ d \in Path
      /\ DOMAIN f \subseteq Path /\ Shaped(f) /\ Original(d, f)
  BY CallDepth DEF CallsOk, Ground, Shaped
<1>2. Len(s) \in 1 .. Len(s) /\ Len(s) # 0
  BY <1>0, <1>1, EmptySeq, LenProperties
<1>3. PICK c : c = s[Len(s)]
  OBVIOUS
<1>4. c \in CopyCall /\ CallOk(d, f, c, Len(s)) /\ c.mode \in Modes
  <2>1. c \in CopyCall
    BY <1>2, <1>3, CallDepth
  <2>2. CallOk(d, f, c, Len(s))
    BY <1>2, <1>3 DEF CallsOk
  <2>3. QED
    BY <2>1, <2>2 DEF CopyCall
<1>5. PICK r : r = c.from
  OBVIOUS
<1>6. /\ r \in DOMAIN f /\ Under(Src, r) /\ Len(r) = Len(Src) + Len(s) - 1 /\ c.to = Image(d, r)
      /\ c.to \in DOMAIN f /\ f[c.to] = Node("dir", "rwx", <<>>)
      /\ ~Under(d, r) => f[r].kind = "dir" /\ c.mode = f[r].mode
  BY <1>4, <1>5 DEF CallOk
<1>7. PICK n : n = Node("dir", c.mode, <<>>)
  OBVIOUS
<1>8. n.mode \in Modes /\ n = Node(n.kind, n.mode, n.data)
  BY <1>4, <1>7 DEF Node
<1>9. g = Put(f, Image(d, r), n)
  <2>1. n = Node(f[c.to].kind, c.mode, f[c.to].data)
    BY <1>6, <1>7 DEF Node
  <2>2. QED
    BY <1>0, <1>1, <1>3, <1>6, <2>1, ChmodPuts
<1>10. /\ Ground(d, g) /\ ToCopy(d, g) = ToCopy(d, f)
       /\ Image(d, r) \in DOMAIN g /\ g[Image(d, r)] = n /\ ButAt(d, f, g, Image(d, r))
       /\ \A p \in ToCopy(d, f) : p # r /\ Finished(d, f, p) => Finished(d, g, p)
  BY <1>6, <1>8, <1>9, PutOk
<1>11. PICK t : t = Front(s)
  OBVIOUS
<1>12. /\ t \in Seq(CopyCall) /\ Len(t) = Len(s) - 1 /\ \A k \in 1 .. Len(s) - 1 : t[k] = s[k]
  BY <1>0, <1>1, <1>11, FrontCalls
<1>13. CallsOk(d, f, t)
  <2>1. \A k \in 1 .. Len(t) : k \in 1 .. Len(s) /\ t[k] = s[k]
    BY <1>1, <1>12
  <2>2. QED
    BY <1>12, <2>1 DEF CallsOk
<1>14. \A k \in 1 .. Len(t) : Len(t[k].from) # Len(r)
  <2>1. \A k \in 1 .. Len(t) : Len(t[k].from) = Len(Src) + k - 1 /\ k \in Nat /\ k < Len(s)
    BY <1>1, <1>12, <1>13, CallDepth
  <2>2. QED
    BY <1>1, <1>6, <2>1
<1>15. CallsOk(d, g, t)
  BY <1>6, <1>10, <1>13, <1>14, CallsKept
<1>16. \A k \in 1 .. Len(s) : k = Len(s) \/ (k \in 1 .. Len(t) /\ t[k] = s[k])
  BY <1>1, <1>12
<1>17. ASSUME NEW p \in ToCopy(d, f) PROVE InCalls(d, g, t, p)
  <2>1. p \in DOMAIN f /\ ~Under(d, p)
    BY DEF ToCopy
  <2>2. CASE p = r
    <3>1. g[r] = f[r] /\ f[r].kind = "dir" /\ c.mode = f[r].mode
      BY <1>6, <1>10, <2>1, <2>2 DEF ButAt
    <3>2. f[r].data = <<>> /\ f[r] = Node(f[r].kind, f[r].mode, f[r].data)
      BY <1>1, <1>6, <2>1, <2>2, <3>1 DEF Original, Shaped
    <3>3. n = g[r]
      BY <1>7, <3>1, <3>2
    <3>4. QED
      BY <1>10, <2>2, <3>3 DEF InCalls, Finished
  <2>3. CASE p # r
    <3>1. Finished(d, f, p) => Finished(d, g, p)
      BY <1>10, <2>3
    <3>2. Awaited(s, p) => Awaited(t, p)
      BY <1>0, <1>16 DEF Awaited
    <3>3. BeingCopied(s, p) => BeingCopied(t, p)
      BY <1>3, <1>5, <1>16, <2>3 DEF BeingCopied
    <3>4. QED
      BY <3>1, <3>2, <3>3 DEF InCalls
  <2>4. QED
    BY <2>2, <2>3
<1>18. QED
  BY <1>1, <1>2, <1>10, <1>11, <1>12, <1>15, <1>17

(* Where cpr starts: a tree with nothing in the target.                     *)
LEMMA StartGround ==
  ASSUME NEW d \in Dsts, NEW f \in Trees, d \notin DOMAIN f, Src \in DOMAIN f
  PROVE  Ground(d, f)
<1>1. IsTree(f) /\ d \in Path /\ DOMAIN f \subseteq Path
  BY CopyAssumption DEF IsTree
<1>2. \A p \in DOMAIN f :
        /\ f[p] \in Nodes /\ (f[p].kind = "dir" => f[p].data = <<>>)
        /\ \A k \in 0 .. Len(p) - 1 : SubSeq(p, 1, k) \in DOMAIN f /\ f[SubSeq(p, 1, k)].kind = "dir"
  BY <1>1 DEF IsTree
<1>3. Shaped(f)
  BY <1>1, <1>2 DEF Shaped, Nodes, Node
<1>4. Original(d, f)
  BY <1>2 DEF Original
<1>5. ASSUME NEW q \in DOMAIN f, Under(d, q) PROVE FALSE
  <2>1. q \in Path /\ q # d /\ Len(q) \in Nat /\ Len(d) \in Nat
    BY <1>1, LenProperties DEF Path
  <2>2. d = SubSeq(q, 1, Len(d)) /\ Len(d) <= Len(q) /\ Len(d) # Len(q)
    BY <1>1, <1>5, <2>1, PathAbove, UnderOrder
  <2>3. Len(d) \in 0 .. Len(q) - 1
    BY <2>1, <2>2
  <2>4. QED
    BY <1>2, <2>2, <2>3
<1>6. QED
  BY <1>1, <1>3, <1>4, <1>5 DEF Ground, OnlyCopies

(* cpr gives up for want of permission or of descriptors.                   *)
LEMMA GivesUp ==
  ASSUME Ground(dst, fs), NEW from \in DOMAIN fs, Under(Src, from), Len(stack) \in Nat,
         Len(from) = Len(Src) + Len(stack),
         (~Readable(fs[from]) /\ fs[from].kind # "other") \/ Len(stack) + 2 > MaxOpen
  PROVE  Obstacle \/ Under(Src, dst)
<1>1. /\ dst \in Path /\ from \in Path /\ Src \in Path /\ ~Under(dst, Src)
      /\ Len(Src) \in Nat /\ MaxOpen \in Nat
  BY CopyAssumption, LenProperties DEF Ground, Shaped, Path
<1>2. CASE Under(dst, from)
  BY <1>1, <1>2, UnderOrder
<1>3. CASE ~Under(dst, from)
  <2>1. from \in Tree
    BY <1>3 DEF Tree
  <2>2. Len(from) - Len(Src) + 2 = Len(stack) + 2
    BY <1>1
  <2>3. QED
    BY <2>1, <2>2 DEF Obstacle
<1>4. QED
  BY <1>2, <1>3

(* The two calls main and copy_dir make.                                    *)
LEMMA EnterStep ==
  ASSUME NEW calls, NEW from \in DOMAIN fs, NEW to,
         Ground(dst, fs), CallsOk(dst, fs, calls), Len(calls) = Len(stack),
         Under(Src, from), Len(from) = Len(Src) + Len(calls), to = Image(dst, from),
         fs[from].kind \in {"dir", "link"}, file = NoFile, trouble = {}, trouble' = {},
         \A p \in ToCopy(dst, fs) : InCalls(dst, fs, calls, p) \/ Under(from, p),
         EnterDir(calls, from, to)
  PROVE  CopyInv'
<1>1. Len(calls) \in Nat /\ calls \in Seq(CopyCall)
  BY CallDepth DEF CallsOk
<1>2. CASE fs[from].kind = "dir" /\ Readable(fs[from]) /\ Len(stack) < MaxOpen
  <2>1. fs' = Put(fs, Image(dst, from), Node("dir", "rwx", <<>>))
    <3>1. fs' = With(to, Node("dir", "rwx", <<>>))
      BY <1>2 DEF EnterDir, FirstMode
    <3>2. QED
      BY <3>1 DEF With, Put
  <2>2. PICK listed \in {Children(fs, from), Children(fs', from)} :
          stack' = Append(calls, [from |-> from, to |-> to, mode |-> fs[from].mode, todo |-> listed])
    BY <1>2 DEF EnterDir
  <2>3. status' = "run" /\ dst' = dst /\ file' = NoFile
    BY <1>2 DEF EnterDir
  <2>4. PICK g : g = fs'
    OBVIOUS
  <2>5. PICK c : c = [from |-> from, to |-> Image(dst, from), mode |-> fs[from].mode, todo |-> listed]
    OBVIOUS
  <2>6. /\ Ground(dst, g) /\ CallsOk(dst, g, Append(calls, c))
        /\ \A p \in ToCopy(dst, g) : InCalls(dst, g, Append(calls, c), p)
    BY <1>2, <2>1, <2>2, <2>4, <2>5, EnterOk
  <2>7. stack' = Append(calls, c) /\ stack' # <<>>
    <3>1. c \in CopyCall
      <4>1. Append(calls, c) \in Seq(CopyCall)
        BY <2>6 DEF CallsOk
      <4>2. QED
        BY <1>1, <4>1, LastAppended
    <3>2. QED
      BY <1>1, <2>2, <2>5, <3>1, AppendProperties
  <2>8. Working'
    BY <2>3, <2>4, <2>6, <2>7 DEF Working
  <2>9. QED
    BY <2>3, <2>7, <2>8 DEF CopyInv
<1>3. CASE ~(fs[from].kind = "dir" /\ Readable(fs[from]) /\ Len(stack) < MaxOpen)
  <2>1. status' = "failed" /\ fs' = fs /\ dst' = dst /\ file' = NoFile
    BY <1>3 DEF EnterDir, Fail
  <2>2. (~Readable(fs[from]) /\ fs[from].kind # "other") \/ Len(stack) + 2 > MaxOpen
    <3>1. fs[from].kind # "dir" => ~Readable(fs[from])
      BY DEF Readable
    <3>2. ~(Len(stack) < MaxOpen) => Len(stack) + 2 > MaxOpen
      BY <1>1, CopyAssumption
    <3>3. QED
      BY <1>3, <3>1, <3>2
  <2>3. Obstacle \/ Under(Src, dst)
    BY <1>1, <2>2, GivesUp
  <2>4. Obstacle' \/ Under(Src, dst')
    BY <2>1, <2>3 DEF Obstacle, Tree
  <2>5. QED
    BY <2>1, <2>4 DEF CopyInv
<1>4. QED
  BY <1>2, <1>3

(* copy_file opens both files, or cpr ends.                                 *)
LEMMA OpenStep ==
  ASSUME NEW calls, NEW from \in DOMAIN fs, NEW to, CanCreate(to), status = "run", calls # <<>>,
         Ground(dst, fs), CallsOk(dst, fs, calls), Len(calls) = Len(stack),
         Under(Src, from), Len(from) = Len(Src) + Len(calls), to = Image(dst, from),
         fs[from].kind \in {"file", "link"}, file = NoFile, trouble = {}, trouble' = {},
         \A p \in ToCopy(dst, fs) : InCalls(dst, fs, calls, p) \/ Under(from, p),
         OpenFiles(calls, from, to)
  PROVE  CopyInv'
<1>1. Len(calls) \in Nat /\ calls \in Seq(CopyCall)
  BY CallDepth DEF CallsOk
<1>2. CASE Readable(fs[from]) /\ Len(stack) + 2 <= MaxOpen
  <2>1. fs' = Put(fs, Image(dst, from), Node("file", "rwx", <<>>))
    <3>1. fs' = With(to, Node("file", "rwx", <<>>))
      BY <1>2 DEF OpenFiles
    <3>2. QED
      BY <3>1 DEF With, Put
  <2>2. /\ file' = [from |-> from, to |-> Image(dst, from), pos |-> 0]
        /\ status' = "run" /\ dst' = dst /\ stack' = calls
    BY <1>2 DEF OpenFiles
  <2>3. PICK g : g = fs'
    OBVIOUS
  <2>4. PICK l : l = [from |-> from, to |-> Image(dst, from), pos |-> 0]
    OBVIOUS
  <2>5. fs[from].kind = "file"
    BY <1>2 DEF Readable
  <2>6. /\ Ground(dst, g) /\ CallsOk(dst, g, calls) /\ FileOk(dst, g, Len(calls), l)
        /\ \A p \in ToCopy(dst, g) : InCalls(dst, g, calls, p) \/ p = l.from
    BY <2>1, <2>3, <2>4, <2>5, OpenOk
  <2>7. file' = l /\ l # NoFile
    BY <2>2, <2>4, <2>6, CopyAssumption DEF FileOk
  <2>8. Working'
    BY <2>2, <2>3, <2>6, <2>7 DEF Working
  <2>9. QED
    BY <2>2, <2>8 DEF CopyInv
<1>3. CASE ~(Readable(fs[from]) /\ Len(stack) + 2 <= MaxOpen)
  <2>1. status' = "failed" /\ fs' = fs /\ dst' = dst /\ file' = NoFile
    BY <1>3 DEF OpenFiles, Fail
  <2>2. (~Readable(fs[from]) /\ fs[from].kind # "other") \/ Len(stack) + 2 > MaxOpen
    BY <1>1, <1>3, CopyAssumption
  <2>3. Obstacle \/ Under(Src, dst)
    BY <1>1, <2>2, GivesUp
  <2>4. Obstacle' \/ Under(Src, dst')
    BY <2>1, <2>3 DEF Obstacle, Tree
  <2>5. QED
    BY <2>1, <2>4 DEF CopyInv
<1>4. QED
  BY <1>2, <1>3

(* main begins with the tree it was given.                                  *)
LEMMA CopyStarts == CInit => CopyInv
BY DEF CInit, CopyInv

(* main: the target exists, the source is none, or copy_dir is called.      *)
LEMMA MainKeeps ==
  ASSUME CopyInv, CMain, trouble = {}, trouble' = {}
  PROVE  CopyInv'
<1>1. status = "start" /\ fs \in Trees /\ dst \in Dsts /\ stack = <<>> /\ file = NoFile
  BY DEF CopyInv, CMain
<1>2. CASE dst \in DOMAIN fs
  BY <1>1, <1>2 DEF CMain, CopyInv
<1>3. CASE dst \notin DOMAIN fs
  <2>1. EnterDir(<<>>, Src, dst)
    BY <1>3 DEF CMain
  <2>2. CASE Src \notin DOMAIN fs \/ fs[Src].kind # "dir"
    <3>1. status' = "failed" /\ fs' = fs /\ dst' = dst /\ file' = NoFile
      BY <1>1, <2>1, <2>2 DEF EnterDir, Fail
    <3>2. Obstacle'
      BY <2>2, <3>1 DEF Obstacle
    <3>3. QED
      BY <3>1, <3>2 DEF CopyInv
  <2>3. CASE Src \in DOMAIN fs /\ fs[Src].kind = "dir"
    <3>1. Ground(dst, fs) /\ dst \in Path /\ Src \in Path
      BY <1>1, <1>3, <2>3, StartGround, CopyAssumption
    <3>2. CallsOk(dst, fs, <<>>) /\ Len(<<>>) = 0
      BY EmptySeq DEF CallsOk
    <3>3. Len(Src) \in Nat /\ Len(Src) = Len(Src) + Len(<<>>) /\ Under(Src, Src)
      BY <3>1, <3>2, UnderOrder, LenProperties DEF Path
    <3>4. dst = Image(dst, Src)
      <4>1. SubSeq(Src, Len(Src) + 1, Len(Src)) = <<>>
        BY <3>3, SubSeqEmpty
      <4>2. QED
        BY <3>1, <4>1, ConcatEmptySeq DEF Image, Path
    <3>5. \A p \in ToCopy(dst, fs) : Under(Src, p)
      BY DEF ToCopy
    <3>6. QED
      BY <1>1, <2>1, <2>3, <3>1, <3>2, <3>3, <3>4, <3>5, EnterStep
  <2>4. QED
    BY <2>2, <2>3
<1>4. QED
  BY <1>2, <1>3

(* An entry: a call of copy_dir, one of copy_file, or none.                 *)
LEMMA EntryKeeps ==
  ASSUME CopyInv, Entry, trouble = {}, trouble' = {}
  PROVE  CopyInv'
<1>1. /\ status = "run" /\ file = NoFile /\ stack # <<>> /\ Ground(dst, fs)
      /\ CallsOk(dst, fs, stack)
      /\ \A p \in ToCopy(dst, fs) : InCalls(dst, fs, stack, p)
  BY DEF Entry, Looping, CopyInv, Working
<1>2. PICK name, from, to, calls, kind :
        /\ name \in Top.todo /\ kind \in Kinds(fs[from])
        /\ from = Append(Top.from, name) /\ to = Append(Top.to, name)
        /\ calls = [stack EXCEPT ![Len(stack)].todo = @ \ {name}]
        /\ \/ kind = "dir" /\ EnterDir(calls, from, to)
           \/ kind = "file" /\ OpenFiles(calls, from, to)
           \/ kind = "other" /\ stack' = calls /\ UNCHANGED <<fs, dst, status, file, trouble>>
  BY DEF Entry
<1>3. /\ from \in DOMAIN fs /\ from \in Path /\ Under(Src, from)
      /\ Len(from) = Len(Src) + Len(stack)
      /\ to = Image(dst, from) /\ Front(to) \in DOMAIN fs
      /\ fs[Front(to)] = Node("dir", "rwx", <<>>)
      /\ CallsOk(dst, fs, calls) /\ Len(calls) = Len(stack) /\ Len(stack) \in Nat
      /\ \A p \in ToCopy(dst, fs) : InCalls(dst, fs, calls, p) \/ Under(from, p)
  <2>1. PICK s : s = stack
    OBVIOUS
  <2>2. PICK c : c = s[Len(s)]
    OBVIOUS
  <2>3. /\ name \in c.todo /\ from = Append(c.from, name) /\ to = Append(c.to, name)
        /\ calls = Without(s, name)
    BY <1>2, <2>1, <2>2 DEF Top, Without
  <2>4. Ground(dst, fs) /\ CallsOk(dst, fs, s) /\ Returns(s, c, name, from, calls)
    BY <1>1, <2>1, <2>2, <2>3 DEF Returns
  <2>5. /\ from \in DOMAIN fs /\ from \in Path /\ Under(Src, from) /\ Len(from) = Len(Src) + Len(s)
        /\ Append(c.to, name) = Image(dst, from) /\ Front(Image(dst, from)) = c.to
        /\ c.to \in DOMAIN fs /\ fs[c.to] = Node("dir", "rwx", <<>>)
        /\ CallsOk(dst, fs, calls) /\ Len(calls) = Len(s) /\ Len(s) \in Nat
        /\ \A p \in ToCopy(dst, fs) :
             InCalls(dst, fs, s, p) => InCalls(dst, fs, calls, p) \/ Under(from, p)
    BY <2>4, TakeOut
  <2>6. QED
    BY <1>1, <2>1, <2>3, <2>5
<1>4. calls # <<>>
  <2>1. stack \in Seq(CopyCall) /\ calls \in Seq(CopyCall)
    BY <1>1, <1>3 DEF CallsOk
  <2>2. QED
    BY <1>1, <1>3, <2>1, EmptySeq
<1>5. kind = fs[from].kind \/ fs[from].kind = "link"
  BY <1>2 DEF Kinds
<1>6. CASE kind = "dir" /\ EnterDir(calls, from, to)
  BY <1>1, <1>3, <1>5, <1>6, EnterStep
<1>7. CASE kind = "file" /\ OpenFiles(calls, from, to)
  <2>1. CanCreate(to)
    BY <1>3, NodeParts DEF CanCreate, Writable
  <2>2. QED
    BY <1>1, <1>3, <1>4, <1>5, <1>7, <2>1, OpenStep
<1>8. CASE kind = "other" /\ stack' = calls /\ UNCHANGED <<fs, dst, status, file, trouble>>
  <2>1. fs[from].kind \notin {"dir", "file"}
    BY <1>5, <1>8
  <2>2. \A p \in ToCopy(dst, fs) : InCalls(dst, fs, calls, p)
    BY <1>1, <1>3, <2>1, SkipOk
  <2>3. Working'
    BY <1>1, <1>3, <1>8, <2>2 DEF Working
  <2>4. QED
    BY <1>1, <1>4, <1>8, <2>3 DEF CopyInv
<1>9. QED
  BY <1>2, <1>6, <1>7, <1>8

(* A block is copied, or the file is closed.                                *)
LEMMA FileKeeps ==
  ASSUME CopyInv, CopyBlock \/ CloseFiles, trouble = {}, trouble' = {}
  PROVE  CopyInv'
<1>1. /\ file # NoFile /\ status = "run" /\ stack # <<>> /\ status' = "run" /\ dst' = dst
      /\ stack' = stack
      /\ Ground(dst, fs) /\ CallsOk(dst, fs, stack) /\ FileOk(dst, fs, Len(stack), file)
  BY DEF CopyBlock, CloseFiles, CopyInv, Working
<1>2. \A p \in ToCopy(dst, fs) : InCalls(dst, fs, stack, p) \/ p = file.from
  BY <1>1 DEF CopyInv, Working
<1>3. Shaped(fs) /\ file.to \in DOMAIN fs /\ file \in [from : Path, to : Path, pos : Nat]
  BY <1>1 DEF Ground, FileOk
<1>4. CASE CopyBlock
  <2>1. /\ file' = [file EXCEPT !.pos = @ + 1] /\ file.pos # Len(fs[file.from].data)
        /\ fs' = [fs EXCEPT ![file.to].data = Append(@, fs[file.from].data[file.pos + 1])]
    BY <1>4 DEF CopyBlock, charCount, Data
  <2>2. PICK n : n = Longer(fs, file)
    OBVIOUS
  <2>3. fs' = Put(fs, file.to, n)
    <3>1. PICK x : x = fs[file.from].data[file.pos + 1]
      OBVIOUS
    <3>2. PICK t : t = file.to
      OBVIOUS
    <3>3. fs' = Grown(fs, t, x)
      BY <2>1, <3>1, <3>2 DEF Grown
    <3>4. n = Node(fs[t].kind, fs[t].mode, Append(fs[t].data, x))
      BY <2>2, <3>1, <3>2 DEF Longer
    <3>5. QED
      BY <1>3, <3>2, <3>3, <3>4, BlockPuts
  <2>4. n.mode = fs[file.to].mode /\ n = Node(n.kind, n.mode, n.data)
    BY <2>2, NodeParts DEF Longer
  <2>5. n.mode \in Modes
    BY <1>3, <2>4 DEF Shaped
  <2>6. PICK g : g = fs'
    OBVIOUS
  <2>7. /\ Ground(dst, g) /\ CallsOk(dst, g, stack) /\ g[file.to] = n /\ ButAt(dst, fs, g, file.to)
        /\ \A p \in ToCopy(dst, g) : InCalls(dst, g, stack, p) \/ p = file.from
    BY <1>1, <1>2, <2>3, <2>4, <2>5, <2>6, FilePut
  <2>8. FileOk(dst, g, Len(stack), file')
    BY <1>1, <2>1, <2>2, <2>7, WriteOk
  <2>9. file'.from = file.from /\ file' # NoFile
    <3>1. file' \in [from : Path, to : Path, pos : Nat] /\ file'.from = file.from
      BY <1>3, <2>1
    <3>2. QED
      BY <3>1, CopyAssumption
  <2>10. Working'
    BY <1>1, <2>6, <2>7, <2>8, <2>9 DEF Working
  <2>11. QED
    BY <1>1, <2>10 DEF CopyInv
<1>5. CASE CloseFiles
  <2>1. file' = NoFile /\ fs' = Chmod(fs, file.to, fs[file.from].mode)
    BY <1>5 DEF CloseFiles
  <2>2. file.pos = Len(fs[file.from].data)
    BY <1>5 DEF CloseFiles, GoesOn, charCount, Data
  <2>3. PICK g : g = fs'
    OBVIOUS
  <2>4. /\ Ground(dst, g) /\ CallsOk(dst, g, stack)
        /\ \A p \in ToCopy(dst, g) : InCalls(dst, g, stack, p)
    <3>1. Closes(fs, file, g)
      BY <2>1, <2>2, <2>3 DEF Closes
    <3>2. QED
      BY <1>1, <1>2, <3>1, CloseOk
  <2>5. Working'
    BY <1>1, <2>1, <2>3, <2>4 DEF Working
  <2>6. QED
    BY <1>1, <2>1, <2>5 DEF CopyInv
<1>6. QED
  BY <1>4, <1>5

(* copy_dir returns, and from the outermost call cpr ends.                  *)
LEMMA LeaveKeeps ==
  ASSUME CopyInv, LeaveDir, trouble = {}, trouble' = {}
  PROVE  CopyInv'
<1>1. /\ status = "run" /\ file = NoFile /\ stack # <<>> /\ Ground(dst, fs)
      /\ CallsOk(dst, fs, stack) /\ file' = NoFile /\ dst' = dst /\ stack' = Front(stack)
      /\ \A p \in ToCopy(dst, fs) : InCalls(dst, fs, stack, p)
  BY DEF LeaveDir, Looping, CopyInv, Working
<1>2. /\ fs' = Chmod(fs, stack[Len(stack)].to, stack[Len(stack)].mode)
      /\ stack[Len(stack)].todo = {}
      /\ status' = IF Len(stack) = 1 THEN "done" ELSE "run"
  BY DEF LeaveDir, Top
<1>3. PICK g : g = fs'
  OBVIOUS
<1>4. /\ Ground(dst, g) /\ CallsOk(dst, g, Front(stack)) /\ Len(stack) \in Nat \ {0}
      /\ Len(Front(stack)) = Len(stack) - 1
      /\ \A p \in ToCopy(dst, g) : InCalls(dst, g, Front(stack), p)
  <2>1. Leaves(fs, stack, g)
    BY <1>1, <1>2, <1>3 DEF Leaves
  <2>2. QED
    BY <1>1, <2>1, LeaveOk
<1>5. Working'
  BY <1>1, <1>3, <1>4 DEF Working
<1>6. (Len(stack) = 1 => Front(stack) = <<>>) /\ (Len(stack) # 1 => Front(stack) # <<>>)
  <2>1. Front(stack) \in Seq(CopyCall)
    BY <1>4 DEF CallsOk
  <2>2. QED
    BY <1>4, <2>1, EmptySeq
<1>7. QED
  BY <1>1, <1>2, <1>5, <1>6 DEF CopyInv

(* Every step keeps the invariant; what fails unnoticed ends its claims.    *)
LEMMA CopyKeeps == CopyInv /\ [CNext]_cvars => CopyInv'
<1>1. SUFFICES ASSUME CopyInv, [CNext]_cvars, trouble' = {}
               PROVE  CopyInv'
  BY DEF CopyInv
<1>2. CASE UNCHANGED cvars
  BY <1>1, <1>2 DEF cvars, CopyInv, Working, Obstacle, Tree
<1>3. CASE CNext
  <2>1. trouble = {}
    BY <1>1, <1>3 DEF CNext, CStep, CMain, EnterDir, OpenFiles, Fail, Entry, CopyBlock, ReadFails,
                      CloseFiles, LeaveDir, OpenFault
  <2>2. ~ReadFails /\ ~OpenFault
    BY <1>1 DEF ReadFails, OpenFault
  <2>3. QED
    BY <1>1, <1>3, <2>1, <2>2, MainKeeps, EntryKeeps, FileKeeps, LeaveKeeps DEF CNext, CStep
<1>4. QED
  BY <1>1, <1>2, <1>3

(* With no call left, all that is to be copied is.                          *)
LEMMA CopyInvSays == CopyInv => CopyIsFaithful
<1>1. SUFFICES ASSUME CopyInv, trouble = {}, status = "done"
               PROVE  /\ \A p \in Copied : Image(dst, p) \in DOMAIN fs /\ fs[Image(dst, p)] = fs[p]
                      /\ \A q \in DOMAIN fs : Under(dst, q) /\ ~Under(Src, dst) =>
                           \E p \in Copied : q = Image(dst, p)
  BY DEF CopyInv, CopyIsFaithful
<1>2. /\ Ground(dst, fs) /\ stack = <<>> /\ file = NoFile
      /\ \A p \in ToCopy(dst, fs) : InCalls(dst, fs, stack, p)
  BY <1>1 DEF CopyInv, Working
<1>3. Copied = ToCopy(dst, fs)
  BY DEF Copied, Tree, ToCopy
<1>4. \A p : ~Awaited(stack, p) /\ ~BeingCopied(stack, p)
  <2>1. 1 .. Len(stack) = {}
    BY <1>2, EmptySeq
  <2>2. QED
    BY <2>1 DEF Awaited, BeingCopied
<1>5. QED
  BY <1>2, <1>3, <1>4 DEF InCalls, Finished, Ground, OnlyCopies

(* If cpr ends and no call has failed unnoticed, every directory and file   *)
(* of the source is in the target with its contents and its mode, and       *)
(* nothing else is; it gives up only for want of permission or descriptors. *)
THEOREM TrueCopy == CSpec => []CopyIsFaithful
<1>1. CSpec => []CopyInv
  BY CopyStarts, CopyKeeps, PTL DEF CSpec
<1>2. QED
  BY <1>1, CopyInvSays, PTL
=============================================================================
