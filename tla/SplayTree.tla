----------------------------- MODULE SplayTree -----------------------------
(***************************************************************************)
(* splay_tree.c, the container behind every table of the daemon (nodes,    *)
(* edges, subnets, timers, descriptors, configuration): a splay tree whose *)
(* nodes are also a doubly linked list in order, and the splay_each loop,  *)
(* whose body may change the tree it runs over.                            *)
(*                                                                         *)
(* A node is its key; NoNode is null.  The code treats left and right      *)
(* by mirrored branches; here a side is a parameter, "l" for left,         *)
(* prev and head, "r" for right, next and tail.                            *)
(***************************************************************************)
EXTENDS Integers, Sequences, SequencesExt, FiniteSetsExt

CONSTANTS Keys,       \* the keys, consecutive naturals from 1
          MaxChanges  \* insertions and deletions inside one loop

VARIABLES splay,      \* the tree, pointer by pointer
          members,    \* the keys that were inserted and not deleted
          answer,     \* what the last search was for and what it returned
          loop        \* the splay_each that is running

splayVars == <<splay, members, answer, loop>>

NoNode == 0
Sides == {"l", "r"}
Opp(d) == IF d = "l" THEN "r" ELSE "l"
Heads == [l |-> -1, r |-> -2]    \* the nodes `right` and `left` of splay_top_down
AllNodes == Keys \cup {-1, -2}

NoKids == [l |-> NoNode, r |-> NoNode]
EmptyTree ==
  [kid |-> [n \in AllNodes |-> NoKids], par |-> [n \in AllNodes |-> NoNode],
   link |-> [n \in AllNodes |-> NoKids], end |-> NoKids, root |-> NoNode, count |-> 0]

Idle == [on |-> FALSE, node |-> NoNode, next |-> NoNode, visited |-> <<>>, start |-> {}, gone |-> {}, left |-> 0]
NoAnswer == [op |-> "none", key |-> NoNode, node |-> NoNode]

\* p->side = n; if(n) n->parent = p;
SetKid(t, p, d, n) ==
  [t EXCEPT !.kid[p][d] = n, !.par = IF n = NoNode THEN @ ELSE [@ EXCEPT ![n] = p]]

Freed(t, n) == [t EXCEPT !.par[n] = NoNode]

\* The side of a node on which a key lies; "=" is a match.
Compare(key, node) == IF key < node THEN "l" ELSE IF key > node THEN "r" ELSE "="

(***************************************************************************)
(* splay_top_down.  Nodes passed on the way are hung below the two spare   *)
(* nodes; bottom[d] is where the next one that lies to the other side of d *)
(* goes.                                                                   *)
(***************************************************************************)

RECURSIVE Descend(_, _, _, _)
Descend(t, key, root, bottom) ==
  LET d == Compare(key, root)
      o == Opp(d)
      child == t.kid[root][d]
      c == Compare(key, child)
  IN  IF d = "=" \/ (d # "=" /\ child = NoNode) THEN [t |-> t, root |-> root, bottom |-> bottom, c |-> d]
      ELSE IF c = d /\ t.kid[child][d] # NoNode
      THEN \* zig-zig: rotate, and hang the child
           LET grand == t.kid[child][d]
               t1 == SetKid(t, bottom[d], d, child)
               t2 == SetKid(t1, root, d, t.kid[child][o])
               t3 == SetKid(t2, child, o, root)
               t4 == SetKid(t3, child, d, NoNode)
           IN  Descend(Freed(t4, grand), key, grand, [bottom EXCEPT ![d] = child])
      ELSE IF c = o /\ t.kid[child][o] # NoNode
      THEN \* zig-zag: hang the child on one side and the root on the other
           LET grand == t.kid[child][o]
               t1 == SetKid(SetKid(t, bottom[o], o, child), child, o, NoNode)
               t2 == SetKid(SetKid(t1, bottom[d], d, root), root, d, NoNode)
           IN  Descend(Freed(t2, grand), key, grand, [bottom EXCEPT ![o] = child, ![d] = root])
      ELSE \* zig
           [t |-> Freed(SetKid(SetKid(t, bottom[d], d, root), root, d, NoNode), child), root |-> child,
            bottom |-> [bottom EXCEPT ![d] = root], c |-> c]

\* What was hung on one side becomes the subtree of the new root on the other.
Merge(s, d) ==
  LET hung == s.t.kid[Heads[d]][d]
      below == s.t.kid[s.root][Opp(d)]
      t1 == IF below = NoNode THEN s.t ELSE SetKid(s.t, s.bottom[d], d, below)
  IN  IF hung = NoNode THEN s.t ELSE SetKid(t1, s.root, Opp(d), hung)

splay_top_down(t, key) ==
  IF t.root = NoNode THEN [t |-> t, node |-> NoNode, c |-> "="]
  ELSE LET s == Descend([t EXCEPT !.kid[-1] = NoKids, !.kid[-2] = NoKids], key, t.root, Heads)
           t1 == Merge([s EXCEPT !.t = Merge(s, "r")], "l")
       IN  [t |-> [t1 EXCEPT !.root = s.root, !.kid[-1] = NoKids, !.kid[-2] = NoKids], node |-> s.root, c |-> s.c]

(***************************************************************************)
(* splay_bottom_up                                                         *)
(***************************************************************************)

SideOf(t, p, n) == IF t.kid[p]["l"] = n THEN "l" ELSE "r"

\* Moving n above its parent p, with what they have between them.
Over(t, p, n) ==
  LET d == SideOf(t, p, n) IN SetKid(SetKid(t, p, d, t.kid[n][Opp(d)]), n, Opp(d), p)

RECURSIVE splay_bottom_up(_, _)
splay_bottom_up(t, n) ==
  LET p == t.par[n]
      g == t.par[p]
      gg == t.par[g]
      \* zig-zig turns the parent over the grandparent first, zig-zag the node
      turned == IF SideOf(t, p, n) = SideOf(t, g, p) THEN Over(Over(t, g, p), p, n)
                ELSE LET t1 == Over(t, p, n) IN Over(SetKid(t1, g, SideOf(t, g, p), n), g, n)
  IN  IF p = NoNode THEN [t EXCEPT !.root = n]
      ELSE IF g = NoNode THEN splay_bottom_up(Freed(Over(t, p, n), n), n)
      ELSE splay_bottom_up(IF gg = NoNode THEN Freed(turned, n) ELSE SetKid(turned, gg, SideOf(t, gg, g), n), n)

(***************************************************************************)
(* Insertion and deletion                                                  *)
(***************************************************************************)

splay_insert_top(t, n) ==
  [t EXCEPT !.kid[n] = NoKids, !.par[n] = NoNode, !.link[n] = NoKids, !.end = [l |-> n, r |-> n],
            !.root = n, !.count = @ + 1]

\* splay_insert_before and splay_insert_after a node that is in the tree.
splay_insert_at(t, at, n, d) ==
  LET o == Opp(d)
      far == t.link[at][d]
      t1 == [t EXCEPT !.link = [@ EXCEPT ![n] = [x \in Sides |-> IF x = o THEN at ELSE far],
                                         ![at][d] = n]]
      t2 == IF far = NoNode THEN [t1 EXCEPT !.end[d] = n] ELSE [t1 EXCEPT !.link[far][o] = n]
      t3 == splay_bottom_up(t2, at)
      t4 == SetKid(SetKid(SetKid(t3, n, o, at), n, d, t3.kid[at][d]), at, d, NoNode)
  IN  [Freed(t4, n) EXCEPT !.root = n, !.count = @ + 1]

splay_insert(t, n) ==
  LET s == splay_top_down(t, n)
  IN  IF t.root = NoNode THEN splay_insert_top(t, n)
      ELSE IF s.c = "=" THEN s.t ELSE splay_insert_at(s.t, s.node, n, s.c)

splay_unlink_node(t, n) ==
  LET prev == t.link[n]["l"]
      next == t.link[n]["r"]
      t1 == IF prev = NoNode THEN [t EXCEPT !.end["l"] = next] ELSE [t EXCEPT !.link[prev]["r"] = next]
      t2 == splay_bottom_up(IF next = NoNode THEN [t1 EXCEPT !.end["r"] = prev]
                            ELSE [t1 EXCEPT !.link[next]["l"] = prev], n)
      t3 == IF prev # NoNode
            THEN SetKid([Freed(t2, t2.kid[n]["l"]) EXCEPT !.root = t2.kid[n]["l"]], prev, "r", t2.kid[n]["r"])
            ELSE IF next # NoNode
            THEN [Freed(t2, t2.kid[n]["r"]) EXCEPT !.root = t2.kid[n]["r"]]
            ELSE [t2 EXCEPT !.root = NoNode]
  IN  [t3 EXCEPT !.count = @ - 1]

\* A node that has been freed keeps nothing.
Forget(t, n) == [t EXCEPT !.kid[n] = NoKids, !.par[n] = NoNode, !.link[n] = NoKids]

splay_delete(t, key) ==
  LET s == splay_top_down(t, key)
  IN  IF s.node = NoNode \/ s.c # "=" THEN s.t ELSE Forget(splay_unlink_node(s.t, s.node), s.node)

(***************************************************************************)
(* Operations                                                              *)
(***************************************************************************)

SplayInit == splay = EmptyTree /\ members = {} /\ answer = NoAnswer /\ loop = Idle

\* Inside a loop the changes are counted.
MayChange == loop.on => loop.node # NoNode /\ loop.left > 0

SplayAdd(key) ==
  /\ MayChange
  /\ splay' = splay_insert(splay, key)
  /\ members' = members \cup {key}
  /\ loop' = IF loop.on THEN [loop EXCEPT !.left = @ - 1] ELSE loop
  /\ answer' = NoAnswer

\* The body of a loop deletes no other node than the one it was given.
SplayRemove(key) ==
  /\ MayChange
  /\ loop.on => key = loop.node
  /\ splay' = splay_delete(splay, key)
  /\ members' = members \ {key}
  /\ loop' = IF loop.on THEN [loop EXCEPT !.left = @ - 1, !.gone = @ \cup {key}] ELSE loop
  /\ answer' = NoAnswer

splay_empty_tree ==
  /\ ~ loop.on
  /\ splay' = EmptyTree
  /\ members' = {}
  /\ answer' = NoAnswer
  /\ UNCHANGED loop

\* splay_search, splay_search_closest_smaller and splay_search_closest_greater.
Search(op, key) ==
  \E s \in {splay_top_down(splay, key)} :
    /\ splay' = s.t
    /\ answer' = [op |-> op, key |-> key,
                  node |-> CASE op = "equal" -> IF s.c = "=" THEN s.node ELSE NoNode
                             [] op = "smaller" -> IF s.c = "l" THEN s.t.link[s.node]["l"] ELSE s.node
                             [] op = "greater" -> IF s.c = "r" THEN s.t.link[s.node]["r"] ELSE s.node]
    /\ UNCHANGED <<members, loop>>

\* for splay_each(...): the next node is noted before the body runs.
LoopStarts ==
  /\ ~ loop.on
  /\ loop' = [on |-> TRUE, node |-> splay.end["l"],
              next |-> IF splay.end["l"] = NoNode THEN NoNode ELSE splay.link[splay.end["l"]]["r"],
              visited |-> IF splay.end["l"] = NoNode THEN <<>> ELSE <<splay.end["l"]>>,
              start |-> members, gone |-> {}, left |-> MaxChanges]
  /\ answer' = NoAnswer
  /\ UNCHANGED <<splay, members>>

LoopSteps_Reads ==
  /\ loop.on /\ loop.node # NoNode
  /\ LET n == splay.link[loop.node]["r"] IN
       loop' = [loop EXCEPT !.node = n, !.visited = IF n = NoNode THEN @ ELSE Append(@, n),
                            !.next = IF n = NoNode THEN NoNode ELSE splay.link[n]["r"]]
  /\ answer' = NoAnswer
  /\ UNCHANGED <<splay, members>>

LoopSteps ==
  /\ loop.on /\ loop.node # NoNode
  /\ LET n == loop.next IN
       loop' = [loop EXCEPT !.node = n, !.visited = IF n = NoNode THEN @ ELSE Append(@, n),
                            !.next = IF n = NoNode THEN NoNode ELSE splay.link[n]["r"]]
  /\ answer' = NoAnswer
  /\ UNCHANGED <<splay, members>>

LoopEnds ==
  /\ loop.on /\ loop.node = NoNode
  /\ loop' = Idle
  /\ UNCHANGED <<splay, members, answer>>

SplayNext ==
  \/ \E key \in Keys : SplayAdd(key) \/ SplayRemove(key)
  \/ splay_empty_tree
  \/ \E op \in {"equal", "smaller", "greater"}, key \in Keys : Search(op, key)
  \/ LoopStarts \/ LoopSteps \/ LoopEnds

(***************************************************************************)
(* Properties                                                              *)
(***************************************************************************)

\* Every pointer of the tree has its counterpart: a child knows its parent, a
\* parent its child, the root has no parent, and nothing points to a key that
\* is not in the tree.
SplayTypeOK ==
  /\ splay.root = NoNode <=> members = {}
  /\ splay.root # NoNode => splay.par[splay.root] = NoNode
  /\ \A n \in members, d \in Sides : splay.kid[n][d] # NoNode => splay.kid[n][d] \in members /\ splay.par[splay.kid[n][d]] = n
  /\ \A n \in members \ {splay.root} : \E d \in Sides : splay.par[n] \in members /\ splay.kid[splay.par[n]][d] = n

RECURSIVE InOrder(_)
InOrder(n) == IF n = NoNode THEN <<>> ELSE InOrder(splay.kid[n]["l"]) \o <<n>> \o InOrder(splay.kid[n]["r"])

RECURSIVE Walk(_, _)
Walk(n, d) == IF n = NoNode THEN <<>> ELSE <<n>> \o Walk(splay.link[n][d], d)

\* After any sequence of insertions, deletions and searches the tree holds
\* exactly the keys it should, in order, and so does the list, read forwards
\* and backwards; the count is right.
TreeIsSet ==
  LET sorted == SetToSortSeq(members, LAMBDA a, b : a < b)
  IN  /\ InOrder(splay.root) = sorted
      /\ Walk(splay.end["l"], "r") = sorted
      /\ Walk(splay.end["r"], "l") = Reverse(sorted)
      /\ splay.count = Cardinality(members)

\* A search returns the key, or for the closest ones the largest not above or
\* the smallest not below it, or nothing when there is none.
SearchRight ==
  LET found == CASE answer.op = "equal" -> members \cap {answer.key}
                 [] answer.op = "smaller" -> {k \in members : k <= answer.key}
                 [] OTHER -> {k \in members : k >= answer.key}
  IN  answer.op # "none" =>
        answer.node = IF found = {} THEN NoNode ELSE IF answer.op = "smaller" THEN Max(found) ELSE Min(found)

\* A loop whose body inserts nodes and deletes the one it was given visits, in
\* order and once, every key that was there when it began, and never one that
\* has been freed.
EachVisited ==
  loop.on =>
    /\ \A i, j \in DOMAIN loop.visited : i < j => loop.visited[i] < loop.visited[j]
    /\ loop.next # NoNode => loop.next \in members
    /\ loop.node = NoNode => loop.start \subseteq ToSet(loop.visited)

\* The container is an ordered set: for those that search in it, and for loops that change it.
SplaySound ==
    /\ SplayTypeOK /\ TreeIsSet
    /\ SearchRight /\ EachVisited
=============================================================================
