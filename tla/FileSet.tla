------------------------------- MODULE FileSet -------------------------------
(***************************************************************************)
(* webserver/fileset.c writes a directory of files and their index;        *)
(* webserver/client.c then reads the index and asks a server for files in  *)
(* it.  Either may end at any system call, and a set made before may lie   *)
(* where the new one is written.  A reply is what the server finds on      *)
(* disk; how it is sent is in Requests.                                    *)
(***************************************************************************)
EXTENDS Integers, Sequences, FiniteSets

CONSTANTS Means, Counts,  \* the options -m and -n
          Sizes, Char,    \* lengths rand_pareto draws, values of a byte
          BLOCK,          \* bytes written at once (4096)
          INT_MAX,
          IdxMax,         \* lines that fit into idx_buffer
          Thread, Times,  \* threads of the client, requests of each
          OldSet,         \* the lines of an index made before
          Unset

ASSUME FileSetAssumption ==
  /\ Means \subseteq Nat /\ Counts \subseteq Nat /\ Sizes \subseteq Nat \ {0}
  /\ Char \subseteq Nat /\ {BLOCK, INT_MAX, Times} \subseteq Nat \ {0} /\ IdxMax \in Nat
  /\ OldSet \in Seq([file : Nat, csum : Nat, len : Nat]) /\ Unset \notin Nat

VARIABLES
  gpc,          \* where main of fileset.c is
  total_fileset_sz, current_fileset_sz, nr_files,
  remaining,    \* bytes of the current file not yet written
  file_sz, csum,
  idx_buffer,   \* the lines of the index
  disk,         \* the directory: the length and the sum of the bytes of each file
  index, cut,   \* the lines of the index file, and whether the last is not whole
  clpc,         \* where main of client.c is, or why it ended
  at,           \* the lines init_fileset has read
  count, fileset,   \* cl->nr_files and what it has of each file
  left          \* left[t]: the requests thread t has yet to make

gen == <<gpc, total_fileset_sz, current_fileset_sz, nr_files, remaining, file_sz, csum, idx_buffer>>
files == <<disk, index, cut>>
client == <<clpc, at, count, fileset, left>>
fvars == <<gen, files, client>>

Info(f, s, l) == [file |-> f, csum |-> s, len |-> l]
Index(n, lines) == <<n>> \o lines

(* int arithmetic, which wraps round as the program is built.               *)
Wrapped(x) == ((x + INT_MAX + 1) % (2 * INT_MAX + 2)) - (INT_MAX + 1)

FInit ==
  /\ gpc = "options" /\ total_fileset_sz = 0 /\ current_fileset_sz = 0 /\ nr_files = 0
  /\ remaining = 0 /\ file_sz = 0 /\ csum = 0 /\ idx_buffer = <<>>
  /\ disk = [f \in {OldSet[k].file : k \in DOMAIN OldSet} |->
               LET e == CHOOSE e \in {OldSet[k] : k \in DOMAIN OldSet} : e.file = f
               IN [len |-> e.len, sum |-> e.csum]]
  /\ index = Index(Len(OldSet), OldSet) /\ cut = FALSE
  /\ clpc = "off" /\ at = 0 /\ count = 0 /\ fileset = <<>> /\ left = [t \in Thread |-> Times]

-----------------------------------------------------------------------------
(* fileset.c.  The options, and the directory cleared or made.              *)
OpenDir ==
  /\ gpc = "options" /\ gpc' = "file"
  /\ \E m \in Means, n \in Counts :
       m > 1 /\ n > 0 /\ total_fileset_sz' = Wrapped(m * BLOCK * n)
  /\ disk' = [f \in {} |-> 0]
  /\ UNCHANGED <<current_fileset_sz, nr_files, remaining, file_sz, csum, idx_buffer,
                 index, cut, client>>

SumSoFar == csum      \* mutant: csum not reset for each file
NewSum == 0

CreateFile ==
  /\ gpc = "file" /\ current_fileset_sz < total_fileset_sz /\ gpc' = "block"
  /\ nr_files' = nr_files + 1
  /\ \E sz \in Sizes : /\ file_sz' = sz /\ remaining' = sz
                       /\ current_fileset_sz' = Wrapped(current_fileset_sz + sz)
  /\ csum' = NewSum
  /\ disk' = [f \in DOMAIN disk \cup {nr_files} |->
                IF f = nr_files THEN [len |-> 0, sum |-> 0] ELSE disk[f]]
  /\ UNCHANGED <<total_fileset_sz, idx_buffer, index, cut, client>>

WriteBlock ==
  /\ gpc = "block" /\ remaining > 0
  /\ LET sz == IF remaining < BLOCK THEN remaining ELSE BLOCK IN
     /\ remaining' = remaining - sz
     /\ \E c \in Char :
          /\ csum' = csum + sz * c
          /\ disk' = [disk EXCEPT ![nr_files - 1].len = @ + sz, ![nr_files - 1].sum = @ + sz * c]
  /\ UNCHANGED <<gpc, total_fileset_sz, current_fileset_sz, nr_files, file_sz, idx_buffer,
                 index, cut, client>>

ListFile ==
  /\ gpc = "block" /\ remaining = 0 /\ Len(idx_buffer) < IdxMax
  /\ gpc' = "file"
  /\ idx_buffer' = Append(idx_buffer, Info(nr_files - 1, csum, file_sz))
  /\ UNCHANGED <<total_fileset_sz, current_fileset_sz, nr_files, remaining, file_sz, csum,
                 files, client>>

(* The index is opened, which empties it, and written in two calls.         *)
OpenIndex ==
  /\ gpc = "file" /\ current_fileset_sz >= total_fileset_sz /\ gpc' = "count"
  /\ index' = <<>>
  /\ UNCHANGED <<total_fileset_sz, current_fileset_sz, nr_files, remaining, file_sz, csum,
                 idx_buffer, disk, cut, client>>

Written(label, lines, whole) ==
  /\ gpc' = label /\ index' = index \o lines /\ cut' = ~whole
  /\ UNCHANGED <<total_fileset_sz, current_fileset_sz, nr_files, remaining, file_sz, csum,
                 idx_buffer, disk, client>>

WriteCount == gpc = "count" /\ Written("entries", <<nr_files>>, TRUE)
WriteEntries == gpc = "entries" /\ Written("done", idx_buffer, TRUE)

(* Rio_write fails after a part of what it was given, which may end in the  *)
(* middle of a line.                                                        *)
WriteFails ==
  \/ gpc = "count" /\ Written("failed", <<nr_files>>, FALSE)
  \/ /\ gpc = "entries"
     /\ \E k \in 1 .. Len(idx_buffer), whole \in BOOLEAN :
          Written("failed", SubSeq(idx_buffer, 1, k), whole)

(* Any other call fails, or there is no more room in idx_buffer.            *)
GenFails ==
  /\ gpc \notin {"done", "failed"} /\ gpc' = "failed"
  /\ UNCHANGED <<total_fileset_sz, current_fileset_sz, nr_files, remaining, file_sz, csum,
                 idx_buffer, files, client>>

-----------------------------------------------------------------------------
(* client.c.  What sscanf makes of a line that is cut: fields it does not   *)
(* find are left uninitialised (Unset if they have no right value by chance).*)
Garbled(e) == {e, [e EXCEPT !.len = @ - 1], [e EXCEPT !.len = Unset],
               Info(e.file, Unset, Unset), Info(Unset, Unset, Unset)}
Read(k) == IF cut /\ k = Len(index) THEN Garbled(index[k]) ELSE {index[k]}
ReadNumber == IF cut /\ Len(index) = 1 THEN (1 .. index[1]) \cup {index[1]} ELSE {index[1]}

End(why) == clpc' = why /\ UNCHANGED <<gen, files, at, count, fileset, left>>

StartClient ==
  /\ gpc \in {"done", "failed"} /\ clpc = "off" /\ clpc' = "read"
  /\ UNCHANGED <<gen, files, at, count, fileset, left>>

ReadCount ==
  /\ clpc = "read" /\ at = 0 /\ index # <<>> /\ at' = 1
  /\ \E n \in ReadNumber : count' = n /\ clpc' = IF n > 0 THEN "read" ELSE "index"
  /\ UNCHANGED <<gen, files, fileset, left>>

RoomFor == Len(fileset) < count

ReadEntry ==
  /\ clpc = "read" /\ at > 0 /\ at < Len(index) /\ RoomFor /\ at' = at + 1
  /\ \E e \in Read(at + 1) : fileset' = Append(fileset, e)
  /\ UNCHANGED <<gen, files, clpc, count, left>>

NotTooMany == Len(fileset) <= count    \* mutant: fewer lines than announced are taken
AllRead == Len(fileset) = count

EndOfIndex ==
  /\ clpc = "read" /\ at = Len(index) /\ count > 0 /\ AllRead
  /\ clpc' = "run"
  /\ UNCHANGED <<gen, files, at, count, fileset, left>>

(* One of the assertions of init_fileset fails.                             *)
Rejected ==
  /\ clpc = "read"
  /\ \/ at = Len(index) /\ ~(count > 0 /\ AllRead)
     \/ at > 0 /\ at < Len(index) /\ ~RoomFor
  /\ End("index")

ClientFails == clpc \in {"read", "run"} /\ End("system")   \* a call fails, or no server

(* A request, with the file that rand_int draws.  The server sends the file *)
(* as it is on disk, or an error page when there is none of that name.      *)
Matches(e) == /\ e.file \in DOMAIN disk
              /\ e.csum = disk[e.file].sum /\ e.len = disk[e.file].len

Request(t) ==
  /\ clpc = "run" /\ left[t] > 0
  /\ \E fnr \in 1 .. count : Matches(fileset[fnr])
  /\ left' = [left EXCEPT ![t] = @ - 1]
  /\ clpc' = IF \A u \in Thread : left'[u] = 0 THEN "ended" ELSE "run"
  /\ UNCHANGED <<gen, files, at, count, fileset>>

Mismatch(t) ==
  /\ clpc = "run" /\ left[t] > 0
  /\ \E fnr \in 1 .. count : ~Matches(fileset[fnr])
  /\ End("mismatch")

(* ceil(high * r) is 0 when random() is, and the assertion of rand_int fails. *)
DrawsZero(t) == clpc = "run" /\ left[t] > 0 /\ End("zero")

-----------------------------------------------------------------------------
FNext == \/ OpenDir \/ CreateFile \/ WriteBlock \/ ListFile \/ OpenIndex
         \/ WriteCount \/ WriteEntries \/ WriteFails \/ GenFails
         \/ StartClient \/ ReadCount \/ ReadEntry \/ EndOfIndex \/ Rejected \/ ClientFails
         \/ \E t \in Thread : Request(t) \/ Mismatch(t) \/ DrawsZero(t)
FSpec == FInit /\ [][FNext]_fvars

(* A set that was written to the end serves every client: its index is      *)
(* accepted, and length and checksum of no file differ.  With options whose *)
(* product does not fit into an int the set is empty, and no client takes   *)
(* its index.                                                               *)
GoodSetServes == gpc = "done" /\ nr_files > 0 => clpc \notin {"index", "mismatch"}

(* A client never starts on part of an index: if the generator stopped      *)
(* while it wrote the index, at whatever byte, either the client refuses    *)
(* it, or every file is listed, all but the last as it is on disk.          *)
CutIndexNoticed ==
  clpc \in {"run", "ended", "mismatch"} /\ index # Index(Len(OldSet), OldSet) =>
    /\ Len(fileset) = nr_files
    /\ \A k \in 1 .. nr_files - 1 : Matches(fileset[k])
=============================================================================
