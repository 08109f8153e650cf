# A verification project for the ECE353 systems software

The repository holds three small systems written in C for a course on systems
software: a user-level thread package (`src/threads`), a multi-threaded web
server with a file cache and its load generator (`src/webserver`), and a few
warm-up programs (`src/warmup`). This directory models what is concurrent in
them in TLA+, checks the models with TLC on small instances and proves the main
safety properties with TLAPS for all instances.

## 1. The systems and their parts

| part | source | state it keeps | operations | works with |
|---|---|---|---|---|
| thread core | `threads/thread.c` 7–433 | `status[]`, `nodes[]`, the ready, running and exit queues, a wait queue per identifier, a saved context and `yield_count` per node | `thread_create`, `_yield`, `_exit`, `_kill`, `_sleep`, `_wakeup`, `_wait`, `wait_queue_create`/`_destroy` | switched by itself, preempted by the timer |
| locks and condition variables | `threads/thread.c` 435–575 | `state`, `tid` and wait queue of a lock, wait queue of a cv | `lock_*`, `cv_*` | sleep and wake through the thread core |
| timer interrupts | `threads/interrupt.c` | the signal mask (process-wide, restored by each call), a one-shot timer | `interrupts_on/off/set`, `interrupt_handler` | calls `thread_yield` in the running thread |
| thread tests | `threads/test_thread.c` and a `main` each | the static counters, flags and words the threads share | ten programs: basic, preemptive, wakeup, wakeup all, wait, wait-kill, wait-parent, lock, cv signal, cv broadcast | every call of the package |
| request queue, worker pool | `webserver/server_thread.c` 141–159, 311–403 | a ring of descriptors with `in` and `out`, `exiting`, one mutex, two condition variables | `server_request`, `ReceiveRequest`, `server_exit` | filled by the main loop, emptied by the workers |
| file cache | `webserver/server_thread.c` 8–139, 184–309 | hash table of items with use counts, doubly linked list of names, byte count, one mutex | lookup, insert, evict, use and give back | called by each worker around reading and sending a file |
| server main loop | `webserver/server.c`, `server_shutdown` | the listening socket, the fifo `./server_exit` | start-up, `poll`, `accept`, exit | calls the request queue; the script writes to the fifo |
| requests | `webserver/request.c` | one connection and one file buffer per request | parse, read file, send | called by the workers, calls Rio |
| robust I/O, sockets, random sizes | `webserver/common.c` | a read buffer per connection | `Rio_*`, `open_*`, `rand_*` | the kernel |
| load generator | `webserver/client.c`, `client_simple.c` | what it read of the index | `init_fileset`, request, compare | the server |
| file-set generator | `webserver/fileset.c` | a directory of files and its index with lengths and checksums | generate, list, write the index | the load generator |
| word count | `warmup/wc.c` | an open-addressing table | `wc_init`, `wc_output` | – |
| recursive copy | `warmup/cpr.c` | an open directory per level, the two files of a copy | `copy_dir`, `copy_file` | the file system |

The rest (demonstrations, earlier versions, the starter copy of
the web server, marking scripts) is listed in `PROJECT.json` with the reason it
is left out.

What is hard in this code, and what makes it correct:

* **Thread core.** One processor, but client code is preempted anywhere, and a
  call of `thread_yield` is cut in two by a context switch: another thread may
  create, wake, kill and exit in between. `status[]` and the queues are updated
  by separate statements and must tell one story; `nodes[]` is never cleared;
  an exited thread's stack cannot be freed by itself; `getcontext` returns
  twice. Ready threads must run; waiters must be woken in order.
* **Locks and condition variables.** Mutual exclusion under preemption; no
  signal lost between releasing a lock and sleeping; nobody asleep on a free
  lock; no spinning with the timer blocked.
* **Timer interrupts.** The signal mask is the process's, but every call saves and
  restores it on its own thread's stack, calls nest, and threads are switched,
  created and killed in between; the timer is one-shot. The package must never be
  interrupted, client code always again.
* **Thread tests.** Their assertions count sleepers, compare words written under
  a lock and account for every block of memory; they must hold wherever the timer
  stops whom, or they would fail now and then on correct code.
* **Request queue.** Lost wakeups in both directions, the full/empty boundary
  of the ring, spurious wakeups, and shutting down while workers are anywhere.
* **File cache.** What was looked up is stale once the lock has been given up to
  read the file; items are used without the lock; the table, the list and
  the byte count are changed one after the other; list nodes are found by name.
* **Requests.** Bytes arrive and leave in pieces, connections end too early, a
  client vanishes in the middle of a reply, a file changes between `stat` and
  `read`. Whatever happens, a reply must have the length and checksum its header
  announces, a client must not take part of a reply for all of it, and the server
  thread must get through with every connection.
* **Server main loop.** The fifo belongs to a name in the directory, not to a process:
  servers are started, killed and shut down in any order, and a script that has found the
  name may find something else when it opens it. A shutdown must get through beside
  connections that never stop.
* **File set.** The generator may stop at any call and leave half an index, or an index without its
  files; the client must notice before it compares replies with it.
* **Recursive copy.** Calls that fail and are not looked at, modes that forbid what the
  copy is about to do, a target that lies in the source, a loop that ends only at the end of the file.
* **Word count.** A table that may be full to the last slot: probes that collide
  and wrap round must find each word where it was put and disturb no other.

`PROJECT.json` lists these hazards one by one at the line where they bite, with
the properties that would catch them.

## 2. Modules

```
Interrupts --- MCInterrupts        (the fairness of the timer in Threads)
   |
InterruptsProofs

Threads ---------------> Monitors ----implements----> MesaMonitor
   |  \                     |   \        \
   |   MCThreads            |    \        ThreadTests --- MCThreadTests
   |                        |     MCMonitors
ThreadsProofs -----> MonitorsProofs

RequestQueue --implements--> BoundedBuffer
   |      \
   |   MCRequestQueue
RequestQueueProofs

FileCache --implements--> FifoCache         Requests --- MCRequests
   |      \                                    |
   |   MCFileCache                         RequestsProofs
FileCacheProofs

WordCount --implements--> WordBag      CopyTree      FileSet      ServerMain
     \_________________________________/____________/____________/
        |                                            |
     MCPrograms                                ProgramsProofs
```

`Sums` (a total formed by one addition per turn) is used by `FileCache`, `FifoCache` and
`Requests`, and `QueueLemmas` (sequences, and those sums) by the proofs of
`Threads`, `FileCache`, `Requests`, `WordCount` and `CopyTree`. The four programs in the last row share nothing
with each other; `MCPrograms` runs one of them in each behaviour, so that one run checks
them side by side without their product.

`Monitors` EXTENDS `Threads`: a lock operation is a step of the same machine; and
`ThreadTests` EXTENDS `Monitors`: a step of a test program is one of its steps, or of its own.
The `MC` modules only name the model values and sets the `.cfg` files use. The
abstract specifications say what a component promises and are tied to the
detailed ones by `INSTANCE ... WITH` and a refinement mapping.
Operators marked `\* mutant` are deliberate errors, kept next to the definition
they would replace: each checked property has one that breaks it.

### Threads

A node (`struct queue_node`, one per thread) is the identity of a context:
blocks from the heap, `Node`, are allocated by `thread_create` and freed by
`deleteAll`, and may be allocated again. `status`, `nodes`, `ready_q`, `exit_q`,
`running_q` and `yield_count` are the C variables; queues are sequences of
nodes. `waitq` holds both the queues of `thread_wait_queues[]` (indexed by
identifiers) and those clients create. `pc[n]` and `back[n]` say where the
context of node `n` continues. `waitFor` records whom a thread waits for and
is only read by properties.

The package runs with the signal blocked, so one call is one action up to the
`getcontext` of `thread_yield`; from there `Switch` (first return: choose and
`setcontext`) and `Resume` (second return: reap `exit_q`) are actions of their
own. `YieldTo`, `YieldAny`, `Sleep`, `Wait` and `Exit` all end in that label.
`TimerInterrupt` is `YieldAny` at any point of client code. `Kill` redirects the
context of the victim, which runs `KilledExit` once it is switched to and has no other step. A refused
call is a stuttering step, except for `thread_wait`, which goes on when
`thread_sleep` refused. Clients may make any call, except that they destroy only
empty wait queues: `wait_queue_destroy` (line 353) does not check, although
`thread.h:92` asks for it, and would free the nodes of live threads.

### Monitors

Adds `lockState`, `lockTid` and, for the properties, who waits for which lock or
condition variable and which locks a thread holds. `LockAcquire` enters the loop
at label `"lock"`; `LockSleep` and `LockTake` are its two ways on, and a sleeper
comes back to the label. `LockRelease`, `CvWait`, `CvSignal` and `CvBroadcast` are
one action each, because the signal is blocked. `MSpec` has clients that release
what they acquire, use condition variables with the lock, hold one lock at a time
and none while sleeping or exiting.

`MesaMonitor` has only owners and waiters: acquire, release, wait (which gives up
the lock and joins the waiters in one step), signal, broadcast.

### Interrupts

Below `Threads`: what "runs with the signal blocked" means. `blocked` is the mask of
the process, `saved[t]` the one in the context of thread `t`, `frames[t]` the calls (and
the handler) `t` is in the middle of, each with the answer of its `interrupts_off`.
`armed` and `pending` are the timer and its signal. `InterruptsOff` and `InterruptsSet`
are the beginning and the end of any call of `thread.c` or of `unintr_printf`,
`CreateThread`, `SwitchTo`, `Kill`, `ExitTo` and `ExitLast` what a call may do to contexts (`thread_exit` ends
the process when no other thread is ready; which of those that have run are ready is left open here), `Stub` the
`interrupts_on` of `thread_stub`; `Deliver`, `Rearm`, `HandlerYields` and
`HandlerReturns` are the handler. When calls do what is left open, except that they
return; the queues of `Threads` say which thread is switched to.

### ThreadTests

The ten programs of `test_thread.c`. `th[n]` is the place of a thread in its
function with its argument and loop counter, `g` the static variables and what was
printed. Each statement that reads or writes shared data, or calls the package, is a
step, and the timer may fire between any two, except in `test_basic`, which registers
no handler. `Asserting` is an `assert`: a thread whose assertion fails goes to `"abort"`.
`test_wakeup_thread` counts itself and sleeps in one step, because it blocks the
signal in between. Times are left out: `spin` lets any amount of time pass, and the
checks that an answer does not come too soon do not exist. `malloc` gives the lowest free
block. `mallinfo_check` is stricter than the code, which forgives two stacks.

### RequestQueue

`Main` (the main thread) and the workers, each with a `pc`; between two labels a
thread touches shared state once, or only with the mutex held. `full` and `empty`
are the sets of threads blocked on the condition variables. `Spurious` is a
return of `pthread_cond_wait` that nobody caused. `Accept` stands for `poll` and
`accept`; a descriptor is used again after it was closed. With no worker
threads, `Main` serves the request itself. `Exit`, `Broadcast` and `Join` are
`server_exit`, whose assignment and broadcasts happen without the mutex. Requests
to be handled are abstract (`Serve`), because the queue does not look at them.

`BoundedBuffer` is a sequence of at most `Capacity` requests and what each worker
serves.

### FileCache

Items and list nodes are allocated together and never freed, so the k-th of each
is the number k and 0 is NULL. `lru` is the list with its `next` and `prev`
pointers as `enqueue` and `deque` set them, wrong ones included; where the code would
follow NULL, the head becomes -1: the process has crashed, and from there nobody takes
a step (`Ended`). Two workers that insert one file get there (`KeepsServing`, the run
`cache_crash`). The other way to end is an empty file: `request_readfile` gives it no buffer
(`request.c:193`), and `createItem`, called by `cache_insert` when room has been made, copies the
buffer all the same (`server_thread.c:63`); `InsertItem` then goes to the label `"null"` (`CopiedNull`).
So empty files are never cached, and with caching on the first request for one that is not refused ends the
server. `OrderedAndLimited` says that nothing else does while no file is read twice at once
(`EndsOnlyOnEmpty`). `ListEnds` says that as long as the process lives the list has no cycle that a loop of `cache_evict` or
`deque` could go round for ever. `table[n]` is the part of the hash chain named `n`. One action per
critical section of `do_server_request`: `Hit`, `Miss` (the lock is released and
the file read, whose size is known only then), `Insert` (`cache_insert` with
both loops of `cache_evict`, and `move_to_tail`) and `Finish` after the file was
sent. `SpecDistinct` is the same without two simultaneous reads of one file.

`FifoCache` is a sequence of files, oldest first, within a limit: whatever the
list is called, a hit does not move a file, so the policy is first-in first-out. It never holds
an empty file.

The contents of files are left out. `createItem` and a hit copy the buffer with `strdup`, which stops at a
NUL byte of the file, or reads on behind the buffer, for nothing puts a NUL at its end; the copy may be shorter or longer
than `file_size`, by which it is sent. No property speaks of it.

### Requests

`Conn` connections, each with a client process of its own (`client.c` with one
thread and one request), served one after the other by a thread of the server
with caching off. `up` and `down` are what a connection holds in flight; `unread` is
what a thread has received and no `Rio_readlineb` has returned. `ServerReceive`
and `ClientReceive` are one `read` each and may take any number of tokens,
`ServerWrite` and `ClientWrite` one `write` each, so the Rio loops go round as often
as pieces arrive. The other actions follow `do_server_request`: `ReadRequestLine`
and `ReadHeader` (`request_init`), `Stat` and `Load` (`request_readfile`), `Compose`
(`request_sendfile`), `Destroy`; and `client_print`: `ClientHeader`, `ClientBody` with
the four assertions. A token is a byte of a body, a line end, or all that a header
line says before it; the `Server` and `Content-Type` lines are left out. At the end
of file `Rio_readlineb` leaves its buffer alone, which at the request line and the
first header line is uninitialised: a choice. So is the part of `file_buf` that a
short read leaves as `malloc` returned it. The environment kills clients of
`Impatient` connections (`Leave`) and shortens or removes the files in `Fragile`
(`Shrink`). A write to a client that is gone loses the bytes or ends the server
(`SIGPIPE` or `unix_error`), and clients of a dead server read what is left or fail.
`OtherThreadExits` is a call that fails in a worker thread whose connection is not
modelled: `exit` ends the process, in the middle of a reply too. `AcceptedIsTheFile`, one half of
`AssertionsDecide`, says
that a client whose four assertions hold has then not taken a part for the whole; for
an empty file it holds even when nothing arrived, since length and checksum are 0 on both
sides. It speaks of files the server may give out as the file set lists them
(`Servable`): for any other the client gets an error page, which it would take for the
file if length and checksum happened to be the same.

### ServerMain

`spc[s]` is where the main thread of server `s` is; `Startup` is the order of its calls: `bind` and `listen`
(`open_listenfd`), then `unlink`, `mkfifo` and `open` (`open_fifo`), each a step, because others come in
between. `fifo` is what the name `./server_exit` stands for, and a fifo is identified with the server that
made it, since a server makes one. `exitfd[s]` is what `s` opened under the name, `data` the fifos somebody
wrote to, `came` the servers that had a writer: when a writer has come and gone without a word,
`poll` returns with `POLLHUP` alone and the assertion of line 100 fails (`PollHangup`). A process
that ends, wherever it is killed or exits, closes what it has open (`Ends`). The script is `Test`, then
`OpenAsFifo`, which waits for a reader (`Opened`), and `Echo`; between the test and the opening the name may be gone, and
the shell then makes a regular file (`OpenAsFile`), which the next server removes. `bind` and `listen` fail if another socket listens on the port.
Connections wait in `queue[s]`; `Accept` takes one and `Answer` is what `RequestQueue` and
`Requests` do with it.

### FileSet

`gpc` follows `main` of `fileset.c`: options, one file after the other (`CreateFile`, `WriteBlock` for each
4096 bytes, `ListFile`), then the index in two calls of `Rio_write`. `disk` has of each file its length and
the sum of its bytes, which is all that anybody compares; the byte `c` of a block stands for a block whose bytes
have that mean. `Wrapped` is the arithmetic of an `int` as the program is built. `GenFails` and `WriteFails` end
the generator at any call, the latter with a part of the index written that may end within a line (`cut`). The directory
may hold an older set (`OldSet`), whose files are deleted first and whose index is emptied last. The client then reads
line by line (`ReadCount`, `ReadEntry`), `Garbled` being what `sscanf` makes of a line that is cut; `Rejected` is one
of its assertions. The lengths drawn are positive (`Sizes`): `fileset.c:121` assigns a `double` of `rand_pareto` that may in
rare cases exceed `INT_MAX` to an `int`, and what comes of that, a negative length among others, is left out. `Request` and `Mismatch` compare the file drawn with what is on disk, as the assertions of
`client_print` do; on the way the reply takes, see `Requests`.

### CopyTree

`fs` maps a path to its kind, mode and blocks. `stack` has a record for each call of `copy_dir` with the names
`readdir` has yet to return, `file` the call of `copy_file`. `open` and `opendir` end the program when they fail. `stat`, `mkdir`, `write` and
`chmod` are not checked: each may fail, which `trouble` records, and the copy goes on. Up to its loop a call is
one step (`EnterDir`, `OpenFiles`), then each entry and each block is one. If the target lies in the source, `readdir` may or may not return
what was made after `opendir`. `Kinds` is what the program takes an entry for: anything, for a link
that leads nowhere, because `stat` leaves the buffer as it was on the stack. `ReadFails` is the loop
that compares with 0 only. `IsTree` says what a file system is: a path stands in directories, and a directory that may be
read may be searched, or `stat` and `open` would fail in it for a reason the model does not have.

### WordCount

`ReadSpace`, `ReadLetter` and `LastWord` are the loop of `wc_init`, one character each,
`Probe`, `CountWord` and `InsertWord` one turn of `update_table`. The table has five slots for each
blank or newline and one more group. `hash_function` is reduced modulo `HashRange` at each
character, as an `unsigned long` is: 2^64 in the code, 65536 in the run, whose integers
have 32 bits; the proofs allow any. `Words` is the reference: the longest runs of characters
that are no spaces. Of the two properties one compares `wc_output` with it, the other
maps the table to a bag (`WordBag`) to which each word is added once.

## 3. What is checked

| run | instance | question |
|---|---|---|
| `threads` | 3 identifiers, 3 blocks, 1 client queue; fair | Do the queues, the status table and the heap agree in every interleaving; are threads woken in order; do ready threads run and waits end? |
| `monitors` | the same with 1 lock, 1 condition variable; fair | Exclusion, no lost signal, no sleeper on a free lock, no spinning; refinement of a Mesa monitor; sleepers on a lock are woken. |
| `thread_tests` | every test program, 3 threads each (2 in the lock test), 2 rounds, 6 identifiers; fair | Do all assertions hold, is the potato in one place, is nothing destroyed in use, is the output the one announced, does every program end? |
| `interrupts` | 3 threads, calls nested 4 deep; fair | Is the signal blocked exactly inside the package, is the timer never lost, is client code interrupted again and again? |
| `request_queue` | 2 workers, 4 descriptors, buffer of 2; fair | No lost request or wakeup, one owner per descriptor, refinement of a bounded buffer; saved requests are taken, the listener goes on, exit ends unless it races. |
| `cache_safety` | 3 workers, 4 names, sizes 1 and for one file 0 or 2, limit 5, 6 insertions | With files read and inserted twice: byte count, use counts, items in use stay, the list ends. |
| `cache_fifo` | 2 workers, 3 names, sizes 0–2, limit 3, `SpecDistinct` | Only an empty file ends the server, list and table agree, the limit is kept; refinement of a FIFO cache. |
| `requests` | 2 connections, one impatient, a file of 2 bytes and a hidden empty one, 2 tokens in flight; fair | Are replies framed, cut replies noticed, whole ones accepted; does every request end while no client was killed in the middle of one? |
| `programs` | one of: `wc` on every text of up to 4 characters, and on 5 words in every order that fill the table and 2 of them again; `cpr` on 4 trees with 4 targets; `fileset` with 9 pairs of options and a client of 2 threads; 2 servers on one port or two, 2 scripts, 1 client; fair | Is each word listed once with its number, and no count disturbed? Is a copy without trouble complete, and does it end? Does a client accept a complete file set and no other? Is the fifo its server's, and does a shutdown stop it? |
| `wait_returns_early` | as `threads`, 4 blocks | violation: `thread_wait` returns although the target has not exited |
| `server_exit_hangs` | 2 workers, 3 descriptors, buffer of 1; fair | violation: `server_exit` may wait for ever |
| `cache_crash` | as `cache_safety`, no file empty | violation: a request ends the server, because two workers inserted one file |

The three violations are disagreements between the code and a comment or header of
the repository, each quoted in `PROJECT.json` under `findings`. More were
met while modelling and have no run of their own:

* `cv_wait`, `cv_signal` and `lock_release` compare `lock->tid` only, which names the
  creator (line 452) or the last holder for ever: a thread that does not hold the lock passes
  the assertion of `cv_wait` (line 541), although `thread.h:146` asks to "check that the
  calling thread had acquired lock", and a new thread with a dead holder's identifier
  can release its lock.
* `thread_create` reuses an identifier while the exited thread that had it is still in
  `exit_q`, although `thread.c:292` says "only after this thread has been destroyed":
  a fresh thread starts in `thread_stub`, which destroys nobody.
* `request_read_headers` never leaves its loop when a client is killed before its
  empty line (`request.c:64`: `Rio_readlineb` returns 0 and leaves the buffer as it was), and the
  worker is lost. `RequestsEnd` leaves this case out.
* With caching on, a request for an empty file ends the server: `createItem` calls `strdup(NULL)` (`server_thread.c:63`),
  for `request_readfile` accepts the file and reads nothing (`request.c:193`), although `server.c:12` says "Repeatedly
  handles HTTP requests sent to this port number". With caching off the file is served, as `Requests` has it. It is
  in `InsertItem`, and in every run and proof of the cache but `cache_crash`, which is about the other cause.
* Two workers that insert one file (`server_thread.c:292`) also make the cache grow
  beyond its limit: `cache_evict` adds up what it may free along the list (line 201), on which the
  name then stands twice, although line 356 says "limit its size to max_cache_size". `WithinLimit`
  is checked and proved for workers that do not read one file at once.
* `wait_queue_destroy` on a queue with sleepers (above); `cv_wait` goes on unsignalled when
  no other thread is ready (line 545 ignores the refusal of `thread_sleep`, the cause of
  `wait_returns_early`).
* `wc_init` counts blanks and newlines to size its table but splits words at every
  `isspace`: six words between tabs have five slots, and the sixth takes the place of
  another, whose count `wc_output` then does not list. `CountsRight` has the
  condition that the words fit. The copies of words that `wc_init` allocates (lines 81
  and 99) are not freed, although `wc.h` asks for "no memory loss".

* `warmup/common.h:18` asks to "ALWAYS check" system calls; `cpr.c` does not look at what `stat`, `mkdir`,
  `write` and `chmod` return, nor at -1 from `read`. If `mkdir` fails the whole directory is missing or the next `open` fails;
  if `write` does, the copy is short, and the program ends with success in both cases; if `read` does, it never ends.
  `CopyIsFaithful` and `CopyEnds` have these as conditions.
* A link that leads nowhere is copied as whatever the entry before it was (`cpr.c:74`), and then ends the program
  because it cannot be opened, or is skipped.
* `fileset.c:107` multiplies two options and 4096 as `int`: a million for `-m` and for `-n` the default do not
  fit. If the product is not positive, no file is made and the index has a 0 that no client accepts; if it is, the set is of
  another size than was asked for. No document says what options are allowed, so no property is about the size of a set, and
  `GoodSetServes` leaves the empty one out.
* Two servers with two ports in one directory take `./server_exit` from each other: the first can then not be shut down
  by the script. A server that is killed leaves the fifo, and `server_shutdown` then waits in `echo` for a reader;
  the next server removes that fifo, and the script waits for ever. A script killed between opening and writing
  ends the server by the assertion of `server.c:100`.

**Bounds.** Three threads are enough for one that runs, one that is ready and one
that sleeps or has exited unreaped, and for an identifier and a block to be
reused; the proofs cover the rest. The programs of `thread_tests` have three children, so that
one can be in the middle of each test's chain (a neighbour on both sides of the potato, a
predecessor that waits itself, a turn that is neither the first nor the last); two rounds
let a thread come back to a lock or queue that others still use. Nesting of calls is
bounded by `MaxDepth` = 4, one more than `cv_wait`, `lock_release`, `thread_wakeup` need;
deeper frames only repeat what the third does. The texts of `programs` are short, but the long ones
fill the smallest table exactly, with three of five codes equal modulo its size, so that
every probe sequence that wraps round occurs. Its trees have one obstacle each: a directory that may not be written
into with files below, a link, a file that cannot be read or only in part, a target in the source; four descriptors
are few enough to run out. An `int` of the file set ends at 7 and a block at 2 bytes, so that options are refused, fit and overflow,
and a file has two blocks. Two servers are enough for one that is shut down or killed while the next starts. Ring and descriptors are
chosen so that the buffer is full with the listener blocked while a worker serves;
indices wrap. Sizes 1 and 2 with a limit of 3 make an
insertion evict none, one or two files, or be refused, and size 0 end the server in the middle of each of these states; six insertions (`MaxInserts`,
which replaces nothing in the code) leave room to insert a file twice, evict it and
insert again. It takes four names, a limit of 5 and three workers for the damaged list of
`cache_safety` to have nodes on both sides of a file inserted twice. With two tokens in flight every line
and every reply crosses a connection in several pieces, and no line end falls
always at the end of one; a second connection waits while the first is served. Deadlock is checked except in runs that end: the request
queue stops when `server_exit` returns, and in `Requests` every client process ends. Symmetry is used only in runs without
liveness.

**Fairness.** In `Threads`, the package's own code runs to its end (weak
fairness) and the timer is strongly fair: it is one-shot, but the handler re-arms
it before it yields, and a signal that arrives while blocked is delivered when
unblocked, so a process that is in client code again and again is interrupted
again and again. `Interrupts` checks just that (`InterruptsRecur`), from weaker assumptions: the timer
expires, the kernel delivers a signal that is not blocked, the handler's few
statements run, and calls return. In `ThreadTests` a thread that is resumed again and
again takes its next step: an interval of the timer is long enough for one statement. Nothing is assumed of client code, except in `Monitors` that a holder
eventually releases. In `RequestQueue` the kernel runs every thread, serving ends,
and a free mutex goes to *somebody* who asks for it: no fairness between
threads is assumed, as none is promised for the default mutex. Wakeups nobody
caused happen finitely often. In `ServerMain` the kernel runs servers and scripts, and
`server_request` ends, as `ListenerResumes` says of it; nobody has to connect, and `server_exit` may hang (`server_exit_hangs`). `cpr` runs once started.
In `Requests` the server thread and every client
process run; nothing makes a client leave or a file change.

## 4. What is proved

Every theorem is about a specification that a run checks (`programs` checks those of word count, copy, file
set and server side by side), for every value of the constants
that the named assumption of its module allows (`ThreadsAssumption`, `MonitorsAssumption`,
`QueueAssumption`, `CacheAssumption`, `RequestsAssumption`, `WordCountAssumption`, `CopyAssumption`, `FileSetAssumption`, `ServerAssumption`, and of `Interrupts` nothing but what
`Init` and the actions say). They assume no more than the types of constants, that the sets of workers are
finite and capacities, limits and the lengths in a file set positive (the sizes of the files in the cache may be 0), that different things have different names, and,
of the files to be read, that each exists when the server starts, and of the file systems to copy in, that they are trees. No theorem assumes fairness.
In each proof module an invariant stronger than the property is shown inductive, with one lemma or one
named step for each action; what operators on sequences and sums do is proved once, before.

| module | theorems | what the runs check |
|---|---|---|
| `ThreadsProofs` | `AlwaysConsistent`, `NamesOfTheLiving`, `ContextsResumeOnce`, `FirstComeFirstServed` | all safety of `threads` |
| `MonitorsProofs` | `SoundLocks`, `SignalsReachWaiters`, `MesaImplemented` | all safety of `monitors`, the refinement included |
| `InterruptsProofs` | `MaskRight`, `TimerKept` | all safety of `interrupts` |
| `RequestQueueProofs` | `QueueTyped`, `OneAtATime`, `WakeupsArrive`, `Implements` | all safety of `request_queue`, the refinement included |
| `FileCacheProofs` | `BooksAlwaysBalance`, `HeldItemsStay`, `ListAlwaysEnds`; `OrderedAndBounded`, `FifoImplemented` | all of `cache_safety` and `cache_fifo`, the refinement included |
| `RequestsProofs` | `WellFramed`, `Decided` | all safety of `requests` |
| `ProgramsProofs` | `CountsRightTheorem`, `NoTabsCountsRight`, `TableImplementsBag`; `TrueCopy`; `GoodSetsServe`, `CutIndexIsNoticed`; `FifoIsItsOwn` | all safety of `programs`, the refinement included |

**Threads.** The invariant `IInv` is the
conjunction of `TypeOK`, `StatusMatchesQueues`, `NodesOfLiveThreads`, `ReapIsSafe`,
`SavedContexts` and `WantedIsReady`; none of them is inductive alone: that the ready queue agrees with
`status` is needed to know that the switch finds its target; that nodes of live
threads are allocated, to know that freeing `exit_q` frees none of them;
that the flags of saved contexts are right, to know that a
resumed thread does not switch again with a stale choice. On top of it `WaitersInv` adds to
`WaitersAwaitLiveThreads` that a thread that waits for another is in that thread's wait queue, or was
refused and goes on (`WaitersAreQueued`): then the exit that makes an identifier
free has woken everybody who waits for it. `WakeupInOrder` is about one step and follows from `IInv`: whoever
is woken enters the ready queue behind all who slept longer in the same queue.

**Monitors.** A step of `Monitors` is one of `Threads` or leaves its variables alone, so `IInv` carries over;
`MInv` adds `LocksInv`. `MutualExclusion` is not inductive, because what makes a thread take a lock
is that it is free: `TakenLocksHeld` says that a taken lock exists and somebody has it, `CallsMatchLocks` that a
call of `lock_acquire` is for a lock that exists until it returns, and `RefusedGoesOn`
that a `cv_wait` whose sleep was refused finds its lock free. `NeverSpins`, the last part of
`LocksConsistent`, is then about a thread in the loop with the lock taken by another: that one is ready
(`HoldersGoOn`: who has a lock neither sleeps nor waits for a second one), and the ready queue is not empty.
The refinement maps a lock to the thread that has it and a condition variable to the threads that
nobody has signalled; `NoLostSignal` is what makes the waiters that a signal finds in
the queue the ones the monitor knows.

**Interrupts.** That the
signal is blocked exactly in the package is not inductive, because a return restores
what its own thread was told long before and a switch takes on the mask of another
context. The invariant `IInv` of `InterruptsProofs` adds that of the frames of a thread only the outermost will
enable the signal (`Nested`), and that a context that does not run was saved with the
signal blocked, in a call or with no frame at all (`Contexts`). So the last return of a thread finds the
signal to be enabled and no other does, and no context is resumed with it enabled. The same fact about
contexts shows that no handler is left behind before it has set the timer.

**Request queue.** `NoRequestForgotten` counts: while
somebody sleeps, there are at least as many workers on their way as requests. It is kept by
`Put` because a signal moves one sleeper for the one request that is added, and by
`Take` because both sides go down by one; the cardinality arithmetic is why `Worker` is assumed finite. `InHand`
and `Filled` (which label has a descriptor, and that the slots between `out`
and `in` are filled) are what the refinement needs besides; the ring's modulo is
reduced to the case with and without wrap-around (`Ahead`). That a request has one owner (`OneOwner`) is proved on the buffer the
ring implements: no two threads have one descriptor (`Distinct`), none has one that is saved (`NotSaved`),
and none is saved twice (`SavedOnce`).

**File cache.** The first part is about any number of workers that may all insert the same file. Then the
list is damaged for good and only part of its order is left; which part is the content
of `SoundList`. There is a chain of different nodes from the head along `next` to NULL; the tail pointer
may be stale but names no node of the chain other than the last; a `prev` pointer of the chain may be stale but leads
neither to a later node nor past the node before (`Ordered`). `enqueue` keeps that only for a node to
which no `prev` pointer of the chain leads (`Loose`), and `deque`, which takes the first node of the
name, leaves such a node behind, or has followed NULL. So `move_to_tail` closes no cycle although it may cut
the chain: `ListAlwaysEnds`. The rest of `CInv` does not rest on the list at all: `GoodTable` (each item stands in one chain, its
own name's, once), `Totalled`, `InUseCounts`, `HeldStaysCached`, and `OnlySendersHold`, without which a worker could begin a
request and forget the item it holds. They hold because `cache_evict` takes an item out of the table and its size off
the total in the same turn, whatever node it came from, and only an item nobody uses: the induction
over its turns (`EvictByTurns`, `Evicting`) is what the proof consists of for the most part.

The second part of `FileCacheProofs` is about `SpecDistinct`. `DInv` adds that whoever is about to insert a file is alone with it
and the file is not cached (`Separate`), the limit (`WithinLimit`), and `Queued`: the list is exact in both directions, names
each cached file once, and the total is the sum over it. Then `move_to_tail` of the node just added
changes nothing, both loops of `cache_evict` agree on how many of the oldest files go, and no name is looked
up that is not there, so that nothing follows NULL. The refinement reads the abstract
sequence off the list; an insertion that evicts is one step of `FifoCache`, because the number of
turns is the smallest that makes room (`FreesEnough`). An insertion that is refused or ends the process in `createItem` has
changed neither the cache nor the use counts (`LeavesOut`) and is a step `FifoCache` does not see; that the process
ends there only at an empty file is `NullsWereEmpty`, kept beside `DInv`.

**Requests.** `RInv` follows one message through the exchange. `ReplyOk`: until the server thread composes a reply
for a connection its client has read nothing (`Fresh`); afterwards what the client has read, what it has received,
what is on the wire and what the thread has yet to write are consecutive parts of one message, and end
with it if the connection is closed or being written to (`Flow`). If the server has ended, they may end anywhere, or the client has
emptied a connection on which no header was written to the end (`Drained`). That the message is about the right file comes from the other direction:
`RequestOk` says that the first token of the connection, read, in flight or still to be written, names the file the
client wants, so that the thread that has read it knows that name; `ServerOk` says
what the thread knows at each label of the file it loads, and `DiskOk` that files only get shorter, so that a file
that is whole at the end was whole when it was read. The request line and header lines are then found in the message by
their places (`HeaderLine`), wherever the reads cut it.

**Word count.** `WInv` has two parts. `ScanOk` is about `wc_init`: what it has read consists of
whole words and, if `consecutive`, the beginning of one that starts after `startidx`; nothing else in the
text is a word (`Words`), so that every `LookUp` is for the next one. The second part is about `update_table`
and holds as long as the different words have room (`Fits`). `TableOk`: the filled slots hold
different words, each with the number of its occurrences so far (`IsItem`), and each stands in its
probe sequence after slots that are all taken (`Reached`); conversely each word counted has a slot.
`ProbeOk` says that the slots a probe has passed are taken by other words. Neither is inductive without the
other: that a probe stopped by a free slot has not missed its word needs `Reached` of the word, and that
a full round of the table finds a free slot or the word needs that the slots passed are all different
(`size` of them) and hold different words of the text, of which `Fits` leaves one to be found. That `wc_output`
lists each slot once is an induction over the slots; that the words fit if the text has
no tabs is an injection: each word ends before a blank or newline of its own, or at the end of the text.

**Copy.** `TrueCopy` is about every tree, every depth and every order in which `readdir` returns names. `CopyInv` says where,
in the middle of the recursion, each directory and file of the source is (`Working`): copied (`Finished`), open in a call of `copy_dir`
(`BeingCopied`) or `copy_file`, or below a name that `readdir` has yet to return to one of them (`Awaited`). The step that needs care is the
one that takes a name: what was awaited through it must be awaited one level further down (`EnterOk`), which holds because what stands
below a directory stands in one of its children, and not be lost with a file or with an entry passed over (`OpenOk`, `SkipOk`), which
holds because nothing stands below those. That a copy is complete when its mode is set is then the invariant of the one call
(`CallOk`: an empty directory that may be written into, with the mode kept aside; `FileOk`: the blocks read so far). No
step undoes another's work because no two paths have one image (`ImageInjective`), and nothing outside the target is touched
(`Original`). The same facts say that every `open` finds its directory, so that permission and descriptors are all a failure can come from
(`GivesUp`). A target in the source is included; what is under it is not itself to be copied.

**Server.** That a server in its loop listens to the fifo that the name stands for is not inductive: what must
not happen is that another has removed or replaced it. `SInv` adds who may: a server past `listen` is the only one of its port
(`Past`), because it listens until it ends; from `mkfifo` until it removes it the name stands for its
fifo (`Owns`). A server that is killed leaves the name as it is, and the next removes it before it makes its own.
Without `OnePort` the first fact is false, and so is the property.

**File set.** `FileSetInv` says what the generator has at each label: every file is as its line says (`Listed`), except the one
being written, whose sum and length lack `remaining` bytes (`Filling`); the index is the old one (`Kept`) or the beginning
of the new one (`Begun`), wherever a write stopped. `ClientOk` follows the client through it: the lines it has are those up to
the last it read, of which only the last may be garbled, and only in an index that is cut. An index whose number of lines is not
the announced one is rejected, so that a client that runs has all lines but perhaps part of the last.

**Sums and loops.** The provers cannot use the library's induction theorems, which take an operator as a
parameter. What is needed of it is proved without them in `QueueLemmas`: induction for a set of
numbers (`SetInduction`, from the well-founded order on the naturals), and from it that a total formed
by one addition per turn exists and obeys its equations (`SumUpTo`, `SumByTurns`). The list walk of `Forward` and the
turns of `cache_evict` are treated in the same way.

**Only model-checked** are liveness and everything under fairness (TLAPS has no
`ENABLED`): `ReadyRuns`, `WaitEnds`, `LockWaitersWake`, `InterruptsRecur`, `RequestsTaken`, `ListenerResumes`,
`ExitEndsUnlessRace`, `RequestsEnd`, `TestsEnd`, `CopyEnds` and `ShutdownStops`; further the safety properties of the test programs, which are
about ten particular programs with particular numbers of threads.
`ReapIsSafe`, `WantedIsReady` and `WaitersAreQueued` are proved and have no run of their own.

## 5. What is not modelled, and the plan

Not modelled at all: the wording of messages, lines longer than a buffer, memory exhaustion, the
C library's own locks under preemption, the distributions of random numbers, and the timing of the
load generator. The models assume a server with at least one slot in its buffer, and a cache of
at least one byte. A NUL byte in a text, which ends a word early for `strcmp`, is no
character of `WordCount`.

Left out for good: the other warm-up exercises and the
demonstrations print; `threadlab2.c`, `threadprev.c`, `draft.c` and `wcrough.c` are older
versions of modelled code and not built; the starter copy of the web server
lacks what is modelled here, the queue and the cache; how `common.c` draws random sizes is floating point.

In order of importance:

1. `Server`: RequestQueue with the file cache in place of `Serve`, so that exit,
   queue and cache interleave.
2. The linked list of `enqueue`, `deque` and `deleteAll` pointer by pointer,
   refining the sequences of `Threads`.
