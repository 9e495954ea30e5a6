--------------------------- MODULE MCKeyExchange ---------------------------
(* KeyExchange under small budgets of faults and renegotiations. *)
EXTENDS KeyExchange

Condition(talkers, requests, faults, rekeys) ==
    [talkers |-> talkers, requests |-> requests, faults |-> faults, rekeys |-> rekeys]

\* Requests that cross, with a renegotiation or a fault; late answers; and a
\* renegotiation that meets a fault.
Mixed ==
    {Condition({"a", "b"}, 0, 0, 1),
     Condition({"a", "b"}, 0, 1, 0),
     Condition({"a"}, 1, 0, 0),
     Condition({"a"}, 0, 1, 1)}

Renegotiation == {Condition({"a"}, 0, 1, 1)}
=============================================================================
