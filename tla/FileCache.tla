------------------------------ MODULE FileCache ------------------------------
(***************************************************************************)
(* The file cache of webserver/server_thread.c and its use by the worker   *)
(* threads in do_server_request.  Each critical section of cache_lock is   *)
(* one action; a file is read and sent outside it.                         *)
(*                                                                         *)
(* Items and LRU nodes are allocated together and never freed: item[k] and *)
(* node[k] are the k-th of each, and address 0 is NULL.  table[n] is the   *)
(* part of its hash chain that carries name n, newest first.               *)
(***************************************************************************)
EXTENDS Integers, Sequences, FiniteSets, SequencesExt, Sums

CONSTANTS Worker,        \* the threads that run do_server_request
          Name,          \* file names
          FileSizes,     \* FileSizes[n]: the sizes file n can have when it is read
          MaxCacheSize,  \* max_cache_size, not 0: there is a cache
          MaxInserts     \* bound: cache_insert calls that allocate

ASSUME CacheAssumption ==
  /\ IsFiniteSet(Worker)
  /\ FileSizes \in [Name -> SUBSET Nat]
  /\ MaxCacheSize \in Nat \ {0}
  /\ MaxInserts \in Nat

VARIABLES
  item,    \* item[k]: name, size and inuse of the k-th Item
  table,   \* table[n]: the items named n, as cache_lookup meets them
  total,   \* total_file_size
  lru,     \* the LRU list: its nodes (name, next, prev), head and tail
  pc,      \* pc[w]: "idle", "insert" (file read), "send" or "null" (process gone)
  file,    \* file[w]: name and size of the file w handles
  held     \* held[w]: lookup_entry of w

cache == <<item, table, total, lru>>
vars == <<item, table, total, lru, pc, file, held>>

NoFile == [name |-> "", size |-> 0]

Init ==
  /\ item = <<>>
  /\ table = [n \in Name |-> <<>>]
  /\ total = 0
  /\ lru = [node |-> <<>>, head |-> 0, tail |-> 0]
  /\ pc = [w \in Worker |-> "idle"]
  /\ file = [w \in Worker |-> NoFile]
  /\ held = [w \in Worker |-> 0]

-----------------------------------------------------------------------------
(* The LRU list: struct LRU_queue, enqueue, deque and move_to_tail.         *)
EnqueueDirty(L, k) ==                 \* mutant: next is not reset
  IF L.head = 0
  THEN [L EXCEPT !.head = k, !.tail = k, !.node[k].prev = 0, !.node[k].next = 0]
  ELSE [L EXCEPT !.node[L.tail].next = k, !.node[k].prev = L.tail, !.tail = k]

Enqueue(L, k) ==
  IF L.head = 0
  THEN [L EXCEPT !.head = k, !.tail = k, !.node[k].prev = 0, !.node[k].next = 0]
  ELSE [L EXCEPT !.node[L.tail].next = k, !.node[k].prev = L.tail,
                 !.tail = k, !.node[k].next = 0]

(* The nodes met from the head along next.                                  *)
Forward(L) ==
  LET len == Len(L.node)
      step[i \in 1 .. len] ==
        LET k == IF i = 1 THEN L.head ELSE step[i - 1]
        IN IF i = 1 \/ k = 0 THEN k ELSE L.node[k].next
      live == {i \in 1 .. len : step[i] # 0}
  IN [i \in 1 .. Cardinality(live) |-> step[i]]

(* The first node of the list that is named n, 0 if there is none.          *)
FirstNamed(L, n) ==
  LET list == Forward(L)
      hits == {i \in DOMAIN list : L.node[list[i]].name = n}
  IN IF hits = {} THEN 0 ELSE list[CHOOSE i \in hits : \A j \in hits : i <= j]

(* A NULL pointer of the list or the table was followed: the process is     *)
(* gone.  -1 is no address.                                                 *)
Fault(L) == [L EXCEPT !.head = -1]
Faulted(L) == L.head = -1

(* Or it is gone because w made an item of a file without a buffer.         *)
CopiedNull(w) == pc[w] = "null"
Crashed == Faulted(lru) \/ \E w \in Worker : CopiedNull(w)

(* deque takes the node FirstNamed(L, n) out of the list.  It tells the     *)
(* tail by its name, not by its address.                                    *)
Deque(L, n) ==
  LET k == FirstNamed(L, n)
      after == L.node[k].next
      before == L.node[k].prev
      last == L.node[L.tail].prev
  IN IF k = 0 THEN Fault(L)
     ELSE IF k = L.head
     THEN IF after = 0 THEN [L EXCEPT !.head = 0, !.tail = 0]
          ELSE [L EXCEPT !.head = after, !.node[after].prev = 0]
     ELSE IF n = L.node[L.tail].name
     THEN IF last = 0 THEN Fault(L) ELSE [L EXCEPT !.tail = last, !.node[last].next = 0]
     ELSE IF 0 \in {before, after} THEN Fault(L)
     ELSE [L EXCEPT !.node[after].prev = before, !.node[before].next = after]

MoveOutOnly(L, n) == Deque(L, n)      \* mutant: taken out, not put back
MoveToTail(L, n) ==
  LET left == Deque(L, n)
  IN IF Faulted(left) THEN left ELSE Enqueue(left, FirstNamed(L, n))

-----------------------------------------------------------------------------
AnyUse(k) == TRUE                     \* mutant: inuse is ignored
Unused(k) == item[k].inuse = 0

NothingReclaimed(k) == 0              \* mutant: the total is not adjusted
Reclaimed(k) == item[k].size

Unlinked(L, n) == Deque(L, n)

(* The names on the list, and the item looked up for one of them.           *)
Listed == LET list == Forward(lru) IN [i \in DOMAIN list |-> lru.node[list[i]].name]
Candidate(n) == Head(table[n])

(* cache_evict's first loop: m of its turns find an unused item each, of    *)
(* Promised(names, m) bytes together (one that is listed twice counts       *)
(* twice).                                                                  *)
Evictable(names, m) ==
  \A i \in 1 .. m : table[names[i]] # <<>> /\ Unused(Candidate(names[i]))
Promised(names, m) == SumUpTo([i \in 1 .. m |-> item[Candidate(names[i])].size], m)

CanEvict(size) ==
  LET names == Listed
  IN \E m \in 0 .. Len(names) : Evictable(names, m) /\ Promised(names, m) >= size

(* One of its turns finds no item for a name on the list.                   *)
MeetsNull(size) ==
  LET names == Listed
  IN \E m \in 0 .. Len(names) - 1 :
       /\ Evictable(names, m) /\ Promised(names, m) < size
       /\ table[names[m + 1]] = <<>>

(* One turn of its second loop, at node c.tmp.                              *)
EvictTurn(c) ==
  LET n == c.lru.node[c.tmp].name
      candidate == Head(c.table[n])
      left == Unlinked(c.lru, n)
  IN IF c.table[n] = <<>> THEN [c EXCEPT !.lru = Fault(@)]
     ELSE IF ~Unused(candidate) THEN [c EXCEPT !.tmp = c.lru.node[c.tmp].next]
     ELSE IF Faulted(left) THEN [c EXCEPT !.lru = left]
     ELSE [c EXCEPT !.table[n] = Tail(@), !.total = @ - Reclaimed(candidate),
                    !.evicted = @ + item[candidate].size, !.lru = left,
                    !.tmp = left.node[FirstNamed(c.lru, n)].next]

(* A turn takes an item out of the table or follows the list, so there are  *)
(* at most this many.                                                       *)
MaxTurns == (Len(item) + 1) * Len(item)

Present == [table |-> table, total |-> total, lru |-> lru, tmp |-> lru.head, evicted |-> 0]

Evict(size) ==
  LET turn[i \in 0 .. MaxTurns] ==
        IF i = 0 THEN Present
        ELSE LET c == turn[i - 1]
             IN IF c.tmp = 0 \/ c.evicted >= size \/ Faulted(c.lru) THEN c ELSE EvictTurn(c)
  IN turn[MaxTurns]

-----------------------------------------------------------------------------
(* do_server_request up to its first unlock: a hit, or a miss and then the  *)
(* file is read, whose size is only known now.                              *)
Hit(w, n) ==
  /\ pc[w] = "idle" /\ table[n] # <<>>
  /\ LET k == Head(table[n])
     IN /\ item' = [item EXCEPT ![k].inuse = @ + 1]
        /\ held' = [held EXCEPT ![w] = k]
        /\ file' = [file EXCEPT ![w] = [name |-> n, size |-> item[k].size]]
  /\ pc' = [pc EXCEPT ![w] = "send"]
  /\ UNCHANGED <<table, total, lru>>

Inserting == {w \in Worker : pc[w] = "insert"}

SizeRead(s) == s                      \* request_readfile: st_size

Miss(w, n) ==
  /\ pc[w] = "idle" /\ table[n] = <<>>
  /\ Len(item) + Cardinality(Inserting) < MaxInserts
  /\ \E s \in FileSizes[n] : file' = [file EXCEPT ![w] = [name |-> n, size |-> SizeRead(s)]]
  /\ pc' = [pc EXCEPT ![w] = "insert"]
  /\ UNCHANGED <<cache, held>>

InsertedInUse == 1

(* The eviction list with one more node, for the file named n.              *)
Relinked(L, n) ==
  LET k == Len(item) + 1
      added == [L EXCEPT !.node = Append(@, [name |-> n, next |-> 0, prev |-> 0])]
  IN MoveToTail(Enqueue(added, k), n)

Room == MaxCacheSize - total

(* cache_insert gives up: the file is too large, or so are the files in use. *)
Refused(size) ==
  Room < size /\ (size <= MaxCacheSize => ~CanEvict(size - Room) /\ ~MeetsNull(size - Room))

(* The cache when the room for size bytes has been made, if it must be.     *)
Cleared(size) ==
  IF size <= Room THEN Present
  ELSE IF MeetsNull(size - Room) THEN [Present EXCEPT !.lru = Fault(@)]
  ELSE Evict(size - Room)

(* request_readfile gives an empty file no buffer.                          *)
NoBuffer(w) == file[w].size = 0

(* The rest of cache_insert, after eviction has left c, and the caller's    *)
(* use of the item.  If they, or cache_evict, follow NULL, all is over; so  *)
(* it is when createItem copies the buffer of an empty file.                *)
InsertItem(w, c) ==
  LET n == file[w].name
      k == Len(item) + 1
      list == IF Faulted(c.lru) THEN c.lru ELSE Relinked(c.lru, n)
  IN \/ /\ NoBuffer(w)
        /\ pc' = [pc EXCEPT ![w] = "null"]
        /\ UNCHANGED <<cache, held>>
     \/ /\ ~NoBuffer(w) /\ ~Faulted(list)
        /\ item' = Append(item, [name |-> n, size |-> file[w].size, inuse |-> InsertedInUse])
        /\ table' = [c.table EXCEPT ![n] = <<k>> \o @]
        /\ total' = c.total + file[w].size
        /\ lru' = list
        /\ held' = [held EXCEPT ![w] = k]
        /\ pc' = [pc EXCEPT ![w] = "send"]
     \/ /\ ~NoBuffer(w) /\ Faulted(list)
        /\ lru' = Fault(lru)
        /\ UNCHANGED <<item, table, total, held, pc>>

Insert(w) ==
  /\ pc[w] = "insert"
  /\ IF Refused(file[w].size)
     THEN pc' = [pc EXCEPT ![w] = "send"] /\ UNCHANGED <<cache, held>>
     ELSE InsertItem(w, Cleared(file[w].size))
  /\ UNCHANGED file

(* The file is sent; then the item is given back.                           *)
Finish(w) ==
  /\ pc[w] = "send"
  /\ item' = IF held[w] = 0 THEN item ELSE [item EXCEPT ![held[w]].inuse = @ - 1]
  /\ held' = [held EXCEPT ![w] = 0]
  /\ pc' = [pc EXCEPT ![w] = "idle"]
  /\ file' = [file EXCEPT ![w] = NoFile]
  /\ UNCHANGED <<table, total, lru>>

Ended == Crashed /\ UNCHANGED vars

Next == \/ \E w \in Worker : ~Crashed /\ \/ \E n \in Name : Hit(w, n) \/ Miss(w, n)
                                         \/ Insert(w) \/ Finish(w)
        \/ Ended

Spec == Init /\ [][Next]_vars

(* No two workers read the same file at the same time.                      *)
NextDistinct ==
  \/ \E w \in Worker :
       /\ ~Crashed
       /\ \/ \E n \in Name : \/ Hit(w, n)
                             \/ Miss(w, n) /\ \A v \in Inserting : file[v].name # n
          \/ Insert(w) \/ Finish(w)
  \/ Ended

SpecDistinct == Init /\ [][NextDistinct]_vars

-----------------------------------------------------------------------------
Address == 0 .. Len(item)
InTable == UNION {Range(table[n]) : n \in Name}

CTypeOK ==
  /\ \A k \in DOMAIN item : /\ item[k].name \in Name /\ item[k].size \in FileSizes[item[k].name] \ {0}
                            /\ item[k].inuse \in 0 .. Cardinality(Worker)
  /\ \A n \in Name : Range(table[n]) \subseteq Address \ {0}
  /\ total \in Nat
  /\ Len(lru.node) = Len(item) /\ lru.head \in Address \cup {-1} /\ lru.tail \in Address
  /\ \A k \in DOMAIN lru.node : /\ lru.node[k].name \in Name
                                /\ lru.node[k].next \in Address
                                /\ lru.node[k].prev \in Address
  /\ pc \in [Worker -> {"idle", "insert", "send", "null"}]
  /\ \A w \in Worker : pc[w] # "idle" => file[w].name \in Name /\ file[w].size \in FileSizes[file[w].name]
  /\ held \in [Worker -> Address]

(* total_file_size, which the limit is enforced with, is what the table     *)
(* holds, although it is adjusted apart from the table and from the list,   *)
(* and also when several items carry one name.                              *)
Accounted ==
  total = SumUpTo([k \in DOMAIN item |-> IF k \in InTable THEN item[k].size ELSE 0], Len(item))

(* inuse counts the workers between the two halves of do_server_request     *)
(* that hold the item: it never stays up, and never misses one.             *)
InUseCounts ==
  \A k \in DOMAIN item : item[k].inuse = Cardinality({w \in Worker : held[w] = k})

(* The books of the cache: well typed, and both counters right.             *)
BooksBalance == CTypeOK /\ Accounted /\ InUseCounts

(* An item that a worker uses outside cache_lock is not evicted meanwhile,  *)
(* though cache_evict picks its victims by name.                            *)
HeldStaysCached == \A w \in Worker : held[w] # 0 => held[w] \in InTable

(* The list that cache_evict and deque follow, with cache_lock held, comes  *)
(* to an end, even when two workers inserted the same file and move_to_tail *)
(* linked the wrong node.                                                   *)
ListEnds == ~Crashed => IsInjective(Forward(lru))

(* "Repeatedly handles HTTP requests sent to this port number" (server.c):  *)
(* no request ends the server.  Requests for empty files do; this is asked  *)
(* of the others.                                                           *)
KeepsServing == ~Crashed

(* What ends the server is a request for an empty file, in createItem, and  *)
(* nothing that deque, move_to_tail and cache_evict do: they never follow   *)
(* NULL.                                                                    *)
EndsOnlyOnEmpty ==
  Crashed => ~Faulted(lru) /\ \E w \in Worker : CopiedNull(w) /\ NoBuffer(w)

(* "init server cache and limit its size to max_cache_size" (server_init).  *)
WithinLimit == total <= MaxCacheSize

(* Every cached file is on the eviction list, once, and can be evicted.     *)
ListMatchesTable ==
  /\ IsInjective(Listed)
  /\ Range(Listed) = {n \in Name : table[n] # <<>>}
  /\ \A n \in Name : Len(table[n]) <= 1

(* What cache_lookup and cache_insert promise to workers that do not read   *)
(* one file at once.                                                        *)
OrderedAndLimited == EndsOnlyOnEmpty /\ ListMatchesTable /\ WithinLimit

(* As long as no two workers read one file at once, the table, the list and *)
(* the counters together are a bounded first-in first-out cache (a hit does *)
(* not move a file, whatever the list is called) of files that are not      *)
(* empty.                                                                   *)
Fifo == INSTANCE FifoCache WITH
  Size <- (UNION {FileSizes[n] : n \in Name}) \ {0}, Limit <- MaxCacheSize,
  entries <- [i \in DOMAIN Forward(lru) |->
                LET k == Head(table[lru.node[Forward(lru)[i]].name])
                IN [name |-> item[k].name, size |-> item[k].size]],
  users <- [n \in Name |-> {w \in Worker : held[w] # 0 /\ item[held[w]].name = n}]

ImplementsFifo == Fifo!Spec
=============================================================================
