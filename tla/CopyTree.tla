------------------------------ MODULE CopyTree ------------------------------
(***************************************************************************)
(* warmup/cpr.c copies a directory: copy_dir goes down the tree with a     *)
(* directory stream open at each level, copy_file copies a block at a      *)
(* time.  open and opendir are checked; stat, mkdir, write and chmod are   *)
(* not, and read is only compared with 0.  Nobody else changes the tree.   *)
(***************************************************************************)
EXTENDS Integers, Sequences, SequencesExt

CONSTANTS Names,    \* what readdir may return
          Blocks,   \* what read may return in one call
          Trees,    \* file systems to start from
          Src, Dsts,
          MaxOpen,  \* descriptors of a process
          NoFile

(* A path is a sequence of names.  A node has a kind, the mode stat gives,  *)
(* and the blocks of a file; reading a block "bad" fails.                   *)
Node(kind, mode, data) == [kind |-> kind, mode |-> mode, data |-> data]
Readable(n) == n.kind \in {"dir", "file"} /\ n.mode \in {"rwx", "r-x", "rw-", "r--"}
Writable(n) == n.mode \in {"rwx", "rw-", "-wx"}
Searchable(n) == n.mode \in {"rwx", "r-x", "-wx", "--x"}

Path == Seq(Names)
Modes == {"rwx", "rw-", "r-x", "r--", "-wx", "-w-", "--x", "---"}
Nodes == [kind : {"dir", "file", "link", "other"}, mode : Modes, data : Seq(Blocks)]

(* What stands at a path is in a directory, up to the root.  Directories    *)
(* that may be read may be searched, and so may those the arguments name.   *)
IsTree(t) ==
  /\ DOMAIN t \subseteq Path
  /\ \A p \in DOMAIN t :
       /\ t[p] \in Nodes
       /\ t[p].kind = "dir" => t[p].data = <<>> /\ (Readable(t[p]) => Searchable(t[p]))
       /\ \A k \in 0 .. Len(p) - 1 : SubSeq(p, 1, k) \in DOMAIN t /\ t[SubSeq(p, 1, k)].kind = "dir"
       /\ \A q \in Dsts \cup {Src} : IsPrefix(p, q) /\ p # q => Searchable(t[p])

ASSUME CopyAssumption ==
  /\ MaxOpen \in Nat /\ Src \in Path /\ Dsts \subseteq Path
  /\ NoFile \notin [from : Path, to : Path, pos : Nat]
  /\ \A t \in Trees : IsTree(t)

VARIABLES
  fs,        \* the file system: a node for each path
  dst,       \* argv[2]
  status,    \* "start", "run", or how main ended: "done", "exists", "failed"
  stack,     \* the calls of copy_dir, with the names readdir has yet to return
  file,      \* the call of copy_file, or NoFile
  trouble    \* the calls that have failed for a reason outside the tree

cvars == <<fs, dst, status, stack, file, trouble>>

CInit == /\ fs \in Trees /\ dst \in Dsts
         /\ status = "start" /\ stack = <<>> /\ file = NoFile /\ trouble = {}

-----------------------------------------------------------------------------
Top == stack[Len(stack)]
Under(p, q) == IsPrefix(p, q)
Children(f, p) == {q[Len(q)] : q \in {q \in DOMAIN f : Len(q) = Len(p) + 1 /\ Under(p, q)}}
CanCreate(p) == LET up == Front(p) IN
  up \in DOMAIN fs /\ fs[up].kind = "dir" /\ Writable(fs[up])
With(p, n) == [q \in DOMAIN fs \cup {p} |-> IF q = p THEN n ELSE fs[q]]
Chmod(f, p, mode) == [f EXCEPT ![p].mode = mode]

(* syserror: there is no such entry, it may not be read, or made.           *)
Fail == status' = "failed" /\ UNCHANGED <<fs, dst, stack, file, trouble>>

EarlyMode(mode) == mode     \* mutant: the mode is set before the directory is filled
FirstMode(mode) == "rwx"

(* copy_dir up to its loop: opendir, stat, mkdir.  Whether readdir returns  *)
(* the new directory, if it is in the old one, is left open.                *)
EnterDir(calls, from, to) ==
  IF from \in DOMAIN fs /\ fs[from].kind = "dir" /\ Readable(fs[from]) /\ Len(stack) < MaxOpen
  THEN /\ \/ /\ CanCreate(to)
             /\ fs' = With(to, Node("dir", FirstMode(fs[from].mode), <<>>))
             /\ UNCHANGED trouble
          \/ trouble' = trouble \cup {"mkdir"} /\ UNCHANGED fs
       /\ \E listed \in {Children(fs, from), Children(fs', from)} :
            stack' = Append(calls, [from |-> from, to |-> to,
                                    mode |-> fs[from].mode, todo |-> listed])
       /\ status' = "run"
       /\ UNCHANGED <<dst, file>>
  ELSE Fail

CMain ==
  /\ status = "start"
  /\ IF dst \in DOMAIN fs
     THEN status' = "exists" /\ UNCHANGED <<fs, dst, stack, file, trouble>>
     ELSE EnterDir(<<>>, Src, dst)

(* copy_file up to its loop.                                                *)
OpenFiles(calls, from, to) ==
  IF from \in DOMAIN fs /\ Readable(fs[from]) /\ CanCreate(to) /\ Len(stack) + 2 <= MaxOpen
  THEN /\ fs' = With(to, Node("file", "rwx", <<>>))
       /\ file' = [from |-> from, to |-> to, pos |-> 0]
       /\ stack' = calls
       /\ UNCHANGED <<dst, status, trouble>>
  ELSE Fail

Looping == status = "run" /\ file = NoFile

(* What stat says of an entry; of a link that leads nowhere it says nothing *)
(* and entity_stats is whatever was on the stack.                           *)
Kinds(n) == IF n.kind = "link" THEN {"dir", "file", "other"} ELSE {n.kind}

Entry ==
  /\ Looping /\ stack # <<>>
  /\ \E name \in Top.todo :
       LET from == Append(Top.from, name)  to == Append(Top.to, name)
           calls == [stack EXCEPT ![Len(stack)].todo = @ \ {name}]
       IN \E kind \in Kinds(fs[from]) :
            \/ kind = "dir" /\ EnterDir(calls, from, to)
            \/ kind = "file" /\ OpenFiles(calls, from, to)
            \/ kind = "other" /\ stack' = calls /\ UNCHANGED <<fs, dst, status, file, trouble>>

(* The loop of copy_file: what read returns, in blocks.                     *)
Data == fs[file.from].data
charCount == IF file.pos = Len(Data) THEN 0 ELSE IF Data[file.pos + 1] = "bad" THEN -1 ELSE 1

UntilError(n) == n # -1     \* mutant: the end of the file is no reason to stop
GoesOn(n) == n # 0

CopyBlock ==
  /\ file # NoFile /\ charCount = 1 /\ GoesOn(charCount)
  /\ file' = [file EXCEPT !.pos = @ + 1]
  /\ \/ fs' = [fs EXCEPT ![file.to].data = Append(@, Data[file.pos + 1])] /\ UNCHANGED trouble
     \/ trouble' = trouble \cup {"write"} /\ UNCHANGED fs
  /\ UNCHANGED <<dst, status, stack>>

(* read returns -1 and so does write, again and again.                      *)
ReadFails ==
  /\ file # NoFile /\ charCount = -1 /\ GoesOn(charCount)
  /\ trouble' = trouble \cup {"read"}
  /\ UNCHANGED <<fs, dst, status, stack, file>>

CloseFiles ==
  /\ file # NoFile /\ ~GoesOn(charCount)
  /\ \/ fs' = Chmod(fs, file.to, fs[file.from].mode) /\ UNCHANGED trouble
     \/ trouble' = trouble \cup {"chmod"} /\ UNCHANGED fs
  /\ file' = NoFile
  /\ UNCHANGED <<dst, status, stack>>

(* The end of copy_dir, and of main.                                        *)
LeaveDir ==
  /\ Looping /\ Top.todo = {}
  /\ \/ Top.to \in DOMAIN fs /\ fs' = Chmod(fs, Top.to, Top.mode) /\ UNCHANGED trouble
     \/ trouble' = trouble \cup {"chmod"} /\ UNCHANGED fs
  /\ stack' = Front(stack)
  /\ status' = IF Len(stack) = 1 THEN "done" ELSE "run"
  /\ UNCHANGED <<dst, file>>

(* open or opendir fails for a reason outside the tree.                     *)
OpenFault ==
  /\ \/ status = "start" /\ dst \notin DOMAIN fs
     \/ Looping /\ Top.todo # {}
  /\ status' = "failed" /\ trouble' = trouble \cup {"open"}
  /\ UNCHANGED <<fs, dst, stack, file>>

(* Nobody has to start cpr; once started it runs.                           *)
CStep == Entry \/ CopyBlock \/ ReadFails \/ CloseFiles \/ LeaveDir
CNext == CMain \/ CStep \/ OpenFault
CSpec == CInit /\ [][CNext]_cvars /\ WF_cvars(CStep)

-----------------------------------------------------------------------------
Tree == {p \in DOMAIN fs : Under(Src, p) /\ ~Under(dst, p)}
Copied == {p \in Tree : fs[p].kind \in {"dir", "file"}}
Image(d, p) == d \o SubSeq(p, Len(Src) + 1, Len(p))

(* Obstacles a caller is told of.                                           *)
Obstacle == \/ Src \notin DOMAIN fs \/ fs[Src].kind # "dir"
            \/ \E p \in Tree : ~Readable(fs[p]) /\ fs[p].kind # "other"
            \/ \E p \in Tree : Len(p) - Len(Src) + 2 > MaxOpen

(* If cpr ends without a word and no call has failed unnoticed, the copy    *)
(* has every directory and file with its contents and its mode, and nothing *)
(* else, in whatever order readdir names them; and it gives up only for a   *)
(* reason: a directory nobody may write into is copied with what it holds.  *)
(* A copy into the tree itself may contain a part of itself besides, or end *)
(* for want of descriptors.                                                 *)
CopyIsFaithful ==
  trouble = {} =>
    /\ status = "done" => /\ \A p \in Copied :
                               Image(dst, p) \in DOMAIN fs /\ fs[Image(dst, p)] = fs[p]
                          /\ \A q \in DOMAIN fs : Under(dst, q) /\ ~Under(Src, dst) =>
                               \E p \in Copied : q = Image(dst, p)
    /\ status = "failed" => Obstacle \/ Under(Src, dst)

(* cpr comes to an end, into its own subdirectory too, where it runs out of *)
(* descriptors; only a block that cannot be read keeps it for ever.         *)
CopyEnds == (status = "run") ~> (status \in {"done", "failed"} \/ "read" \in trouble)
=============================================================================
