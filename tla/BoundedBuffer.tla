--------------------------- MODULE BoundedBuffer ---------------------------
(***************************************************************************)
(* What server_request promises the listening thread of the web server:    *)
(* "Save the relevant info in a buffer and have one of the worker threads  *)
(* do the work".  Requests are taken in the order in which they were       *)
(* saved, each by one worker, and at most Capacity of them wait.           *)
(***************************************************************************)
EXTENDS Integers, Sequences

CONSTANTS Worker, Conn, Capacity, Idle

VARIABLES buffer,   \* the requests saved and not taken, oldest first
          serving   \* serving[w]: the request worker w works on, or Idle

Init == buffer = <<>> /\ serving = [w \in Worker |-> Idle]

Put(c) ==
  /\ Len(buffer) < Capacity
  /\ buffer' = Append(buffer, c)
  /\ UNCHANGED serving

Take(w) ==
  /\ serving[w] = Idle /\ buffer # <<>>
  /\ serving' = [serving EXCEPT ![w] = Head(buffer)]
  /\ buffer' = Tail(buffer)

Finish(w) ==
  /\ serving[w] # Idle
  /\ serving' = [serving EXCEPT ![w] = Idle]
  /\ UNCHANGED buffer

Next == \/ \E c \in Conn : Put(c)
        \/ \E w \in Worker : Take(w) \/ Finish(w)

Spec == Init /\ [][Next]_<<buffer, serving>>
=============================================================================
