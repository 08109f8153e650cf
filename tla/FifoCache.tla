----------------------------- MODULE FifoCache -----------------------------
(***************************************************************************)
(* A cache of files that never holds more than Limit bytes and evicts the  *)
(* files it has held longest, as few as will do and none that is in use;   *)
(* when it cannot, it leaves the new file out.                             *)
(***************************************************************************)
EXTENDS Integers, Sequences, SequencesExt, Sums

CONSTANTS Worker, Name, Size, Limit

VARIABLES entries,   \* the cached files, oldest first
          users      \* users[n]: the workers that use the cached file n

Cached == {entries[i].name : i \in DOMAIN entries}
Bytes(q) == SumUpTo([i \in DOMAIN q |-> q[i].size], Len(q))
Busy(w) == \E n \in Name : w \in users[n]

Init == entries = <<>> /\ users = [n \in Name |-> {}]

Use(w, n) ==
  /\ n \in Cached /\ ~Busy(w)
  /\ users' = [users EXCEPT ![n] = @ \cup {w}]
  /\ UNCHANGED entries

(* Leaving out the k oldest makes room for size bytes.                      *)
MakesRoom(k, size) == Bytes(SubSeq(entries, k + 1, Len(entries))) + size <= Limit

Add(w, n, size) ==
  /\ n \notin Cached /\ ~Busy(w)
  /\ \E k \in 0 .. Len(entries) :
       /\ MakesRoom(k, size) /\ \A j \in 0 .. k - 1 : ~MakesRoom(j, size)
       /\ \A i \in 1 .. k : users[entries[i].name] = {}
       /\ entries' = Append(SubSeq(entries, k + 1, Len(entries)), [name |-> n, size |-> size])
  /\ users' = [users EXCEPT ![n] = {w}]

Done(w) ==
  /\ users' = [n \in Name |-> users[n] \ {w}]
  /\ UNCHANGED entries

Next == \E w \in Worker :
          \/ \E n \in Name : Use(w, n) \/ \E size \in Size : Add(w, n, size)
          \/ Done(w)

Spec == Init /\ [][Next]_<<entries, users>>
=============================================================================
