---------------------------- MODULE PastRequests ----------------------------
(***************************************************************************)
(* How requests that are flooded to everyone stop: each daemon remembers   *)
(* those it has seen (seen_request) and forwards others (forward_request); *)
(* a timer forgets those older than the ping interval.  Adding a request   *)
(* sets the timer anew, so nothing is forgotten while requests keep        *)
(* coming.  The one who originates a request does not remember it, and     *)
(* handles it when it comes back.                                          *)
(***************************************************************************)
EXTENDS Integers, FiniteSets

CONSTANTS
    Members,    \* daemons
    Bonds,      \* meta connections: a symmetric relation on Members
    Requests,   \* requests that are flooded
    MaxAge,     \* pinginterval
    AgeEvery,   \* the timer's 10 seconds
    HopTimes,   \* HopTimes[q]: seconds that q may take over a connection
    Origins,    \* Origins[q]: where and when q may originate
    LastSecond  \* bound on the time

ASSUME FloodAssumption ==
    /\ IsFiniteSet(Members) /\ MaxAge \in Nat /\ AgeEvery \in Nat \ {0} 
    /\ HopTimes \in [Requests -> SUBSET Nat]
    /\ Bonds \subseteq Members \X Members /\ \A l \in Bonds : <<l[2], l[1]>> \in Bonds
    \* everyone is connected: no part of the daemons is without a connection to the rest
    /\ \A S \in SUBSET Members : S # {} /\ (\A l \in Bonds : l[1] \in S => l[2] \in S) => S = Members

VARIABLES
    clock,   \* the time
    past,    \* past[n]: past_request_tree, a function from requests to firstseen
    ageing,  \* ageing[n]: when past_request_timeout expires, 0 if it is not set
    passing, \* requests under way, [req, from, to, at]
    begun,   \* requests that have originated
    handled, \* handled[n][q]: how often n has handled q
    slowest  \* slowest[q]: the longest that a copy of q took over a connection (history)

pastVars == <<clock, past, ageing, passing, begun, handled, slowest>>

PastInit ==
    /\ clock = 1 /\ past = [n \in Members |-> <<>>] /\ ageing = [n \in Members |-> 0]
    /\ passing = {} /\ begun = {} /\ handled = [n \in Members |-> [q \in Requests |-> 0]]
    /\ slowest = [q \in Requests |-> 0]

Neighbours(n) == {m \in Members : <<n, m>> \in Bonds}

\* A request goes out to some members, and takes a time to each.
SendTo(n, q, to, rest) ==
    \E d \in HopTimes[q] :
        /\ passing' = rest \union {[req |-> q, from |-> n, to |-> m, at |-> clock + d] : m \in to}
        /\ slowest' = [slowest EXCEPT ![q] = IF d > @ THEN d ELSE @]

-----------------------------------------------------------------------------
Originate(n, q) ==
    /\ q \notin begun /\ <<n, clock>> \in Origins[q]
    /\ begun' = begun \union {q}
    /\ SendTo(n, q, Neighbours(n), passing)
    /\ UNCHANGED <<clock, past, ageing, handled>>

forward_request(m) == SendTo(m.to, m.req, Neighbours(m.to) \ {m.from}, passing \ {m})

\* seen_request, and the handlers that forward what they had not seen
Remember(n, q) ==
    /\ past' = [past EXCEPT ![n] = [p \in DOMAIN @ \union {q} |-> IF p = q THEN clock ELSE @[p]]]
    /\ ageing' = [ageing EXCEPT ![n] = clock + AgeEvery]

Receive(m) ==
    /\ m \in passing /\ m.at = clock
    /\ \/ /\ m.req \in DOMAIN past[m.to]
          /\ passing' = passing \ {m}
          /\ UNCHANGED <<past, ageing, handled, slowest>>
       \/ /\ m.req \notin DOMAIN past[m.to]
          /\ Remember(m.to, m.req)
          /\ handled' = [handled EXCEPT ![m.to][m.req] = @ + 1]
          /\ forward_request(m)
    /\ UNCHANGED <<clock, begun>>

\* age_past_requests
Old(n, q) == past[n][q] + MaxAge <= clock

NextAgeing_Once(left) == 0

NextAgeing(left) == IF left = {} THEN 0 ELSE clock + AgeEvery

age_past_requests(n) ==
    /\ ageing[n] = clock
    /\ past' = [past EXCEPT ![n] = [p \in {q \in DOMAIN @ : ~Old(n, q)} |-> @[p]]]
    /\ ageing' = [ageing EXCEPT ![n] = NextAgeing(DOMAIN past'[n])]
    /\ UNCHANGED <<clock, passing, begun, handled, slowest>>

TickOn ==
    /\ clock < LastSecond /\ clock' = clock + 1
    /\ \A m \in passing : m.at > clock
    /\ \A n \in Members : ageing[n] # clock
    /\ UNCHANGED <<past, ageing, passing, begun, handled, slowest>>

PastNext ==
    \/ \E n \in Members : age_past_requests(n) \/ \E q \in Requests : Originate(n, q)
    \/ \E m \in passing : Receive(m)
    \/ TickOn

PastSpec == PastInit /\ [][PastNext]_pastVars

-----------------------------------------------------------------------------
PastTypeOK ==
    /\ \A n \in Members : ageing[n] = 0 \/ ageing[n] \in clock .. clock + AgeEvery
    /\ \A m \in passing : <<m.from, m.to>> \in Bonds /\ m.at \in clock .. clock + slowest[m.req] /\ m.req \in begun

\* A daemon handles a request twice only if copies of it are slow: when it was remembered for shorter
\* than the slowest copy can take to go by all daemons.  In a cycle of fast connections a flood does
\* not start again, although what was seen is forgotten after a while; a copy delayed for longer than
\* the ping interval is taken for a new request, and flooded again.
HandledOnce ==
    \A n \in Members, q \in Requests : handled[n][q] > 1 => Cardinality(Members) * slowest[q] >= MaxAge

\* Everyone hears of a request: when nothing is under way, each daemon has handled it, but for its
\* originator where the connections form no cycle.
EveryoneHeard ==
    passing = {} => \A q \in begun : Cardinality({n \in Members : handled[n][q] = 0}) <= 1

\* Only a steady stream of new requests keeps what is old from being forgotten: since a remembered
\* request reached its age, no interval of the timer went by without a new one.  While there is such
\* a stream nothing is forgotten, and the tree grows.
ForgottenInTime ==
    \A n \in Members : \A q \in DOMAIN past[n] : \A t \in past[n][q] + MaxAge .. clock - AgeEvery - 1 :
        \E p \in DOMAIN past[n] : past[n][p] \in t + 1 .. t + AgeEvery

\* past_request_tree remembers long enough for everyone to handle a fast request once, and forgets
\* when it is given the time.
PastSound ==
    /\ PastTypeOK
    /\ HandledOnce /\ EveryoneHeard
    /\ ForgottenInTime
=============================================================================
