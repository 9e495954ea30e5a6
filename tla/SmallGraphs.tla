---------------------------- MODULE SmallGraphs ----------------------------
(***************************************************************************)
(* Graphs on N nodes in which each pair of nodes is joined by both of its  *)
(* edges, with equal weight and options as ack_h makes them, by the one    *)
(* that starts at the lower node, as when the other was not announced yet, *)
(* or by none.                                                             *)
(***************************************************************************)
EXTENDS Integers

CONSTANT N  \* number of nodes

MCNodes == 1 .. N

Ordered == {p \in MCNodes \X MCNodes : p[1] < p[2]}

\* What may join two nodes: how many of the edges exist, weight and option.
None == <<0, 0, FALSE>>
Half == <<1, 1, FALSE>>
Direct(weight) == <<2, weight, FALSE>>
Indirect(weight) == <<2, weight, TRUE>>

Up(p) == IF p[1] < p[2] THEN p ELSE <<p[2], p[1]>>

GraphsOf(links) ==
    {[edges |-> {p \in MCNodes \X MCNodes :
                    p[1] # p[2] /\ join[Up(p)][1] >= (IF p[1] < p[2] THEN 1 ELSE 2)},
      weight |-> [p \in MCNodes \X MCNodes |->
                    IF p[1] = p[2] THEN 0 ELSE join[Up(p)][2]],
      indirect |-> {p \in MCNodes \X MCNodes : p[1] # p[2] /\ join[Up(p)][3]}]
        : join \in [Ordered -> links]}

\* All graphs with one kind of complication at a time.
MCGraphs ==
    GraphsOf({None, Half, Direct(1), Direct(2)})
        \cup GraphsOf({None, Direct(1), Direct(2), Indirect(1)})

WithIndirect == GraphsOf({None, Direct(1), Direct(2), Indirect(1)})
=============================================================================
