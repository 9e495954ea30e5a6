----------------------------- MODULE MCOutgoing -----------------------------
(* Outgoing with a few addresses. *)
EXTENDS Outgoing

MCAddresses == {"old", "edge", "static"}
OldFirst == <<"old">>
EdgeOnly == <<"edge">>
Static == <<"static">>
Nothing == <<>>

Setting(in, auto, faults, changes) ==
    [incoming |-> in, autoconnect |-> auto, faults |-> faults, changes |-> changes]

\* Everything at once, then the more trouble the less there is to cross it.
MCSettings ==
    {Setting(TRUE, TRUE, 1, 1), Setting(TRUE, FALSE, 2, 1), Setting(FALSE, TRUE, 2, 2),
     Setting(FALSE, FALSE, 3, 3)}
Passive == {Setting(TRUE, FALSE, 3, 0)}
=============================================================================
