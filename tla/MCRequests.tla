----------------------------- MODULE MCRequests -----------------------------
(* Requests with two clients, the second of which may be killed, a file     *)
(* with a line end among its bytes, and an empty C header.                  *)
EXTENDS Requests, TLC

CONSTANTS steady, hasty, plain, header

Both == {steady, hasty}
OnlyHasty == {hasty}
Names == {plain, header}
HiddenNames == {header}
Unstable == {plain}
Content == plain :> <<1, 10>> @@ header :> <<>>
=============================================================================
