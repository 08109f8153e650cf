--------------------------- MODULE MCRequestQueue ---------------------------
(* RequestQueue with up to three workers, a ring of two or three slots and  *)
(* one descriptor more than can be queued and served at once.               *)
EXTENDS RequestQueue, TLC

CONSTANTS main, w1, w2, w3, a, b, c, d

Workers2 == {w1, w2}
Workers3 == {w1, w2, w3}
Conns3 == {a, b, c}
Conns4 == {a, b, c, d}
Symmetric == Permutations(Worker) \cup Permutations(Conn)
NoWorkers == {}
=============================================================================
