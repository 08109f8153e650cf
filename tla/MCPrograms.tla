----------------------------- MODULE MCPrograms -----------------------------
(* The programs that share nothing with each other: one of them runs.      *)
(*                                                                         *)
(* Word count: short texts over two letters and every kind of space, and   *)
(* texts whose words fill the table: five different words between tabs, in *)
(* any order, then any two of them again.  Three of the codes are equal    *)
(* modulo 5.  Copy: directories that may not be written into, a link that  *)
(* leads nowhere, a file that cannot be read, a target in the tree itself. *)
(* File set: options that are refused, that fit and that do not fit into   *)
(* an int.  Server: two on one port, or on two.                            *)
EXTENDS WordCount, CopyTree, FileSet, ServerMain, TLC

Codes == "a" :> 97 @@ "b" :> 98 @@ "f" :> 102 @@ "k" :> 107 @@ "c" :> 99 @@ "d" :> 100
Letters5 == {"a", "b", "f", "k", "c"}

Tabbed(ws) == [k \in 1 .. 2 * Len(ws) - 1 |-> IF k % 2 = 1 THEN ws[(k + 1) \div 2] ELSE "tab"]

ShortTexts == UNION {[1 .. n -> {"a", "f", "blank", "tab"}] : n \in 1 .. 4}
Orders == {s \in [1 .. 5 -> Letters5] : IsInjective(s)}
FullTexts == {Tabbed(s \o <<x, y>>) : s \in Orders, x \in Letters5, y \in Letters5}
FittingTexts == ShortTexts \cup FullTexts

Source == <<"src">>
Inside(path) == Source \o path
Dir(mode) == Node("dir", mode, <<>>)
Root(mode) == <<>> :> Dir("rwx") @@ Source :> Dir(mode)
Guarded == Root("r-x") @@ Inside(<<"a">>) :> Dir("r-x")
             @@ Inside(<<"b">>) :> Node("file", "rw-", <<>>)
             @@ Inside(<<"a", "b">>) :> Node("file", "r--", <<"x", "y">>)
Linked == Root("rwx") @@ Inside(<<"a">>) :> Node("link", "rwx", <<>>)
            @@ Inside(<<"b">>) :> Node("file", "rw-", <<"x">>)
            @@ Inside(<<"f">>) :> Node("other", "rw-", <<>>)
Damaged == Root("r-x") @@ Inside(<<"a">>) :> Node("file", "---", <<"x">>)
             @@ Inside(<<"b">>) :> Node("file", "rw-", <<"x", "bad">>)
Nested == Root("rwx") @@ Inside(<<"a">>) :> Dir("rwx") @@ Inside(<<"a", "a">>) :> Dir("rwx")
            @@ Inside(<<"b">>) :> Node("file", "rw-", <<"x">>)
FileSystems == {Guarded, Linked, Damaged, Nested}
Targets == {<<"dst">>, Inside(<<"a">>), Inside(<<"c">>), <<"no", "dst">>}

OldIndex == <<Info(0, 1, 1), Info(1, 5, 3)>>

PortChoices == {[s \in Server |-> 1], CHOOSE f \in [Server -> {1, 2}] : IsInjective(f)}

VARIABLE program

allvars == <<program, wvars, cvars, fvars, svars>>

Init ==
  /\ program \in {"wc", "cpr", "fileset", "server"}
  /\ WInit /\ (program # "wc" => word_array = <<"blank">>)
  /\ CInit /\ (program # "cpr" => fs = Nested /\ dst = <<"dst">>)
  /\ FInit
  /\ SInit /\ (program # "server" => port = [s \in Server |-> 1])

Next ==
  /\ UNCHANGED program
  /\ \/ program = "wc" /\ WNext /\ UNCHANGED <<cvars, fvars, svars>>
     \/ program = "cpr" /\ CNext /\ UNCHANGED <<wvars, fvars, svars>>
     \/ program = "fileset" /\ FNext /\ UNCHANGED <<wvars, cvars, svars>>
     \/ program = "server" /\ SNext /\ UNCHANGED <<wvars, cvars, fvars>>

Spec == Init /\ [][Next]_allvars /\ WF_cvars(CStep) /\ SFairness
=============================================================================
