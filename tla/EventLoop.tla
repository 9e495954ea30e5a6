------------------------------ MODULE EventLoop ------------------------------
(***************************************************************************)
(* The event loop: timers that are due are run first, then the kernel is   *)
(* asked which descriptors are ready, then the callbacks of those are run  *)
(* one by one.  A callback may close any descriptor, its own included,     *)
(* open others, and change what it wants to know of.  There are three      *)
(* implementations: epoll (Linux), kqueue (BSD) and select.                *)
(***************************************************************************)
EXTENDS Integers, Sequences, FiniteSets, Functions

CONSTANTS
    Loops,   \* \subseteq {"epoll", "kqueue", "select"}
    Fds,     \* descriptors, numbers
    Timers,  \* timers, numbers
    Waits,   \* what timers are set to, from now
    LastNow, \* bound on the time
    MaxOpens \* bound: descriptors opened by callbacks

ASSUME LoopAssumption == IsFiniteSet(Fds) /\ Timers \subseteq Nat /\ Waits \subseteq Nat /\ LastNow \in Nat

VARIABLES
    flavour,  \* the implementation
    io,       \* io[f]: flags wanted, and whether it is registered
    ready,    \* <<f, dir>> that the kernel would report
    phase,    \* timers, poll, dispatch
    batch,    \* what poll reported and is still to be looked at
    changed,  \* io_tree.generation is not what it was when the dispatch began
    removed,  \* descriptors closed since poll
    timer,    \* timer[t]: when it expires, 0 if it is not set
    now,      \* the time, as of the last timeout_execute
    ran,      \* timers that ran in this round
    opens,    \* descriptors opened so far
    wrong     \* callbacks that should not have been

loopVars == <<flavour, io, ready, phase, batch, changed, removed, timer, now, ran, opens, wrong>>

Dirs == {"r", "w"}

LoopInit ==
    /\ flavour \in Loops
    /\ \E want \in [Fds -> SUBSET Dirs] : io = [f \in Fds |-> [on |-> want[f] # {}, flags |-> want[f]]]
    /\ ready = {} /\ phase = "timers" /\ batch = <<>> /\ changed = FALSE /\ removed = {}
    /\ timer \in [Timers -> {0, 1}] /\ now = 2
    /\ (\A t \in Timers : timer[t] = 0) \/ (\A f \in Fds : ~io[f].on)   \* timers and descriptors do not touch
    /\ ran = {} /\ opens = 0 /\ wrong = {}

-----------------------------------------------------------------------------
\* timeout_execute: the first timer in order of time, then of address
First == CHOOSE t \in Timers : timer[t] # 0 /\ \A u \in Timers : timer[u] # 0 => timer[t] < timer[u] \/ (timer[t] = timer[u] /\ t <= u)

Due == \E t \in Timers : timer[t] # 0 /\ timer[t] < now

\* What the callback of a timer does: set itself again, or another, delete itself, or another.
Retimed ==
    {timer} \union {[timer EXCEPT ![p[1]] = p[2]] : p \in Timers \X ({0} \union {now + w : w \in Waits})}

\* Afterwards timer t, if it has not been set again, is deleted.
After(t, set) == [set EXCEPT ![t] = IF @ < now THEN 0 ELSE @]

timeout_execute ==
    /\ phase = "timers" /\ Due
    /\ \E t \in {First} :
        /\ \E set \in Retimed : timer' = After(t, set)
        /\ ran' = ran \union {t}
        /\ wrong' = wrong \union (IF t \in ran THEN {"timer twice"} ELSE {})
    /\ UNCHANGED <<flavour, io, ready, phase, batch, changed, removed, now, opens>>

TimersDone ==
    /\ phase = "timers" /\ ~Due
    /\ phase' = "poll"
    /\ UNCHANGED <<flavour, io, ready, batch, changed, removed, timer, now, ran, opens, wrong>>

\* Between callbacks the kernel finds more to report.
Arrive(f, dir) ==
    /\ phase = "poll" /\ io[f].on /\ <<f, dir>> \notin ready
    /\ ready' = ready \union {<<f, dir>>}
    /\ UNCHANGED <<flavour, io, phase, batch, changed, removed, timer, now, ran, opens, wrong>>

-----------------------------------------------------------------------------
\* What the kernel reports: per descriptor (epoll, and select in order of descriptors) or per
\* descriptor and direction (kqueue); epoll and kqueue report in any order.
Reported == {x \in ready : x[2] \in io[x[1]].flags}
Orders(S) == Injection(1 .. Cardinality(S), S)
Batches ==
    IF flavour = "kqueue" THEN Orders({[fd |-> x[1], dirs |-> {x[2]}] : x \in Reported})
    ELSE LET each == {[fd |-> f, dirs |-> {d \in Dirs : <<f, d>> \in Reported}] : f \in {x[1] : x \in Reported}}
         IN  {s \in Orders(each) : flavour = "epoll" \/ \A i, j \in DOMAIN s : i < j => s[i].fd < s[j].fd}

Poll ==
    /\ phase = "poll" /\ now < LastNow
    /\ batch' \in Batches
    /\ phase' = IF batch' = <<>> THEN "timers" ELSE "dispatch"
    /\ changed' = FALSE /\ removed' = {} /\ ran' = {} /\ now' = now + 1
    /\ UNCHANGED <<flavour, io, ready, timer, opens, wrong>>

\* io_set: epoll and kqueue count a change when nothing is wanted any more.
io_set(f, flags) == flavour # "select" /\ flags # io[f].flags /\ flags = {}

\* io_del; select counts every change of its tree
io_del(f) == IF flavour = "select" THEN TRUE ELSE io_set(f, {})

\* What a callback does to descriptors, besides reading or writing
LeaveAll == UNCHANGED <<io, changed, removed, opens>>
Unregister(f) ==
    /\ io[f].on
    /\ io' = [io EXCEPT ![f] = [on |-> FALSE, flags |-> {}]]
    /\ changed' = (changed \/ io_del(f)) /\ removed' = removed \union {f}
    /\ UNCHANGED opens
io_add(f) ==
    /\ ~io[f].on /\ opens < MaxOpens /\ opens' = opens + 1
    /\ io' = [io EXCEPT ![f] = [on |-> TRUE, flags |-> {"r"}]]
    /\ changed' = (changed \/ flavour = "select")
    /\ UNCHANGED removed
Want(f, flags) ==
    /\ io[f].on /\ flags # io[f].flags
    /\ io' = [io EXCEPT ![f].flags = flags]
    /\ changed' = (changed \/ io_set(f, flags))
    /\ UNCHANGED <<removed, opens>>

\* The direction to be called for, of those reported: epoll and select take writing first, epoll then
\* reading too; epoll looks at what is wanted now.
Called_NoLook(e) == IF "w" \in e.dirs THEN "w" ELSE "r"

Called(e) ==
    IF flavour = "epoll"
        THEN IF "w" \in e.dirs \intersect io[e.fd].flags THEN "w"
             ELSE IF "r" \in e.dirs \intersect io[e.fd].flags THEN "r" ELSE "none"
        ELSE IF "w" \in e.dirs THEN "w" ELSE "r"

\* A callback for the first of the batch.  The descriptor may be ready no longer, after reading or
\* writing.  Whoever changed the set of descriptors ends the dispatch.
Dispatch ==
    /\ phase = "dispatch" /\ batch # <<>> /\ Called(Head(batch)) # "none"
    /\ LET e == Head(batch)
           d == Called(e)
       IN  /\ \/ LeaveAll
              \/ \E f \in Fds : Unregister(f) \/ io_add(f) \/ \E flags \in SUBSET Dirs : Want(f, flags)
           /\ ready' \in {{x \in r : io'[x[1]].on /\ x[1] \notin removed' \ removed} : r \in {ready, ready \ {<<e.fd, d>>}}}
           /\ wrong' = wrong \union (IF e.fd \in removed THEN {"dangling"} ELSE {})
                             \union (IF d \notin io[e.fd].flags THEN {"unwanted"} ELSE {})
           /\ batch' = IF changed' THEN <<>>
                       ELSE IF flavour = "epoll" /\ d = "w" /\ "r" \in e.dirs THEN <<[e EXCEPT !.dirs = {"r"}]>> \o Tail(batch)
                       ELSE Tail(batch)
    /\ phase' = IF batch' = <<>> THEN "timers" ELSE "dispatch"
    /\ UNCHANGED <<flavour, timer, now, ran>>

Pass ==
    /\ phase = "dispatch" /\ batch # <<>> /\ Called(Head(batch)) = "none"
    /\ batch' = Tail(batch) /\ phase' = IF batch' = <<>> THEN "timers" ELSE "dispatch"
    /\ UNCHANGED <<flavour, io, ready, changed, removed, timer, now, ran, opens, wrong>>

LoopNext ==
    \/ timeout_execute \/ TimersDone \/ Poll \/ Dispatch \/ Pass
    \/ \E f \in Fds, d \in Dirs : Arrive(f, d)
------------------------------------------------------------------------------
LoopTypeOK ==
    /\ \A f \in Fds : ~io[f].on => io[f].flags = {} /\ \A d \in Dirs : <<f, d>> \notin ready
    /\ timer \in [Timers -> Nat] /\ now \in Nat
    /\ (phase = "dispatch") = (batch # <<>>)

\* No callback of a descriptor that was closed since the kernel reported it is ever run, whichever
\* callback of the same batch closed it.
NoDangling == "dangling" \notin wrong

\* With epoll no callback is run for a direction that an earlier callback of the batch gave up.
OnlyWanted == flavour = "epoll" => "unwanted" \notin wrong

\* Each timer runs at most once in a round, even if its callback sets it to expire now, so that the
\* timers always come to an end; and none that was due is left.
TimersOnce == "timer twice" \notin wrong /\ (phase = "poll" => ~Due)

\* Whatever callbacks close, open or set, only callbacks run that should, and all timers that are due.
LoopSound ==
    /\ LoopTypeOK
    /\ NoDangling /\ OnlyWanted /\ TimersOnce
==============================================================================
