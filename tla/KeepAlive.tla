------------------------------ MODULE KeepAlive ------------------------------
(***************************************************************************)
(* The watch over meta connections: timeout_handler runs every second,     *)
(* closes connections that do not get authenticated in time, sends PING    *)
(* over active ones that have been quiet, closes those whose PONG does not *)
(* come, and closes all after the machine has been asleep.                 *)
(*                                                                         *)
(* All of this runs on one event loop: first the timers that are due, by   *)
(* the time that was taken before the first of them, then what has         *)
(* arrived.  A handler that takes long (a script, or the sleep in          *)
(* periodic_handler) holds up both.  Time is in seconds.                   *)
(***************************************************************************)
EXTENDS Integers, FiniteSets

CONSTANTS
    PingInterval, PingTimeout,  \* pinginterval, pingtimeout
    Asleep,                     \* 2 * udp_discovery_timeout
    MaxLate,                    \* how long the loop may leave unread what has arrived
    Delays,                     \* how long a peer that is well takes from a PING to its PONG
    Links,                      \* connections
    MaxNow                      \* bound on the time

ASSUME TimesAssumption ==
    /\ PingInterval \in Nat /\ PingTimeout \in 1 .. PingInterval /\ Asleep \in Nat /\ MaxLate \in Nat
    /\ Delays # {} /\ Delays \subseteq Nat /\ MaxNow \in Nat

VARIABLES
    moment,   \* the time
    loopNow,  \* now: the time as the loop has it
    turn,     \* what the loop is at: "timers", or "io"
    heard,    \* everything that arrived before has been read
    busy,     \* the longest that something was left unread so far (history)
    lastRun,  \* last_periodic_run_time
    due,      \* when timeout_handler is to run
    link,     \* link[l]: state, last_ping_time, pinged, pong (when the PONG arrives, 0: none)
    well      \* well[l]: since when the peer has been dead (0: it is alive)

loopTime == <<moment, loopNow, turn, heard, busy>>
aliveVars == <<loopTime, lastRun, due, link, well>>

Start == 1
AliveInit ==
    /\ moment = Start /\ loopNow = Start /\ turn = "io" /\ heard = Start /\ busy = 0
    /\ lastRun = Start /\ due = Start + 1
    /\ link = [l \in Links |-> [state |-> "none", last |-> 0, pinged |-> FALSE, pong |-> 0]]
    /\ well = [l \in Links |-> 0]

-----------------------------------------------------------------------------
\* A connection comes in or goes out; a control connection; a connection is activated (ack_h).
Open(l, state) ==
    /\ turn = "io" /\ link[l].state = "none" /\ state \in {"authenticating", "control"}
    /\ link' = [link EXCEPT ![l] = [state |-> state, last |-> loopNow, pinged |-> FALSE, pong |-> 0]]
    /\ UNCHANGED <<loopTime, lastRun, due, well>>

Activate(l) ==
    /\ turn = "io" /\ link[l].state = "authenticating" /\ well[l] = 0
    /\ link' = [link EXCEPT ![l].state = "active"]
    /\ UNCHANGED <<loopTime, lastRun, due, well>>

\* The other end stops to answer; what has arrived has arrived.
Die(l) ==
    /\ link[l].state \in {"authenticating", "active"} /\ well[l] = 0
    /\ well' = [well EXCEPT ![l] = moment]
    /\ link' = [link EXCEPT ![l].pong = IF @ <= moment THEN @ ELSE 0]
    /\ UNCHANGED <<loopTime, lastRun, due>>

Unread(l) == link[l].pong # 0 /\ link[l].pong <= moment

pong_h(l) ==
    /\ turn = "io" /\ link[l].state = "active" /\ Unread(l)
    /\ link' = [link EXCEPT ![l].pinged = FALSE, ![l].pong = 0]
    /\ UNCHANGED <<loopTime, lastRun, due, well>>

-----------------------------------------------------------------------------
\* timeout_handler, for connection l
Verdict_Eager(l, asleep) ==
    IF link[l].state \in {"none", "control"} THEN "keep"
    ELSE IF asleep THEN "asleep"
    ELSE IF link[l].pinged THEN "no pong"
    ELSE IF link[l].last + PingTimeout > loopNow THEN "keep"
    ELSE IF link[l].state = "authenticating" THEN "authentication"
    ELSE IF link[l].last + PingInterval <= loopNow THEN "ping"
    ELSE "keep"

Verdict(l, asleep) ==
    IF link[l].state \in {"none", "control"} THEN "keep"
    ELSE IF asleep THEN "asleep"
    ELSE IF link[l].last + PingTimeout > loopNow THEN "keep"
    ELSE IF link[l].state = "authenticating" THEN "authentication"
    ELSE IF link[l].pinged THEN "no pong"
    ELSE IF link[l].last + PingInterval <= loopNow THEN "ping"
    ELSE "keep"

\* send_ping, terminate_connection
Watch ==
    LET asleep == loopNow - lastRun > Asleep
    IN  /\ \E delay \in [Links -> Delays] :
            /\ link' = [l \in Links |->
                 CASE Verdict(l, asleep) = "keep" -> link[l]
                   [] Verdict(l, asleep) = "ping" ->
                        [link[l] EXCEPT !.pinged = TRUE, !.last = loopNow, !.pong = IF well[l] = 0 THEN moment + delay[l] ELSE 0]
                   [] OTHER -> [state |-> "none", last |-> 0, pinged |-> FALSE, pong |-> 0]]
            /\ \A l \in Links : Verdict(l, asleep) # "ping" \/ well[l] # 0 => delay[l] = CHOOSE d \in Delays : TRUE
        /\ well' = [l \in Links |-> IF Verdict(l, asleep) \in {"keep", "ping"} THEN well[l] ELSE 0]
        /\ lastRun' = loopNow /\ due' = loopNow + 1

\* timeout_execute; then epoll_wait
timeout_handler ==
    /\ turn = "timers" /\ turn' = "io"
    /\ IF loopNow >= due THEN Watch ELSE UNCHANGED <<lastRun, due, link, well>>
    /\ UNCHANGED <<moment, loopNow, heard, busy>>

\* The end of a round.  Something may be left to read: it came while the handlers ran, or one of them
\* closed a connection, which ends the round.
EndRound ==
    /\ turn = "io" /\ turn' = "timers" /\ loopNow' = moment
    /\ heard' = IF \E l \in Links : Unread(l) THEN heard ELSE moment
    /\ UNCHANGED <<moment, busy, lastRun, due, link, well>>

\* Nothing to do for a second: no timer is due, and nothing has arrived.
Wait ==
    /\ turn = "io" /\ moment < due /\ moment < MaxNow /\ \A l \in Links : ~Unread(l)
    /\ moment' = moment + 1 /\ heard' = moment
    /\ UNCHANGED <<loopNow, turn, busy, lastRun, due, link, well>>

\* A handler takes a second.
Work ==
    /\ moment < heard + MaxLate /\ moment < MaxNow
    /\ moment' = moment + 1
    /\ busy' = IF moment' - heard > busy THEN moment' - heard ELSE busy
    /\ UNCHANGED <<loopNow, turn, heard, lastRun, due, link, well>>

\* The machine sleeps: nothing runs, and nothing arrives.
Sleep ==
    /\ moment + Asleep + 1 <= MaxNow
    /\ moment' = moment + Asleep + 1
    /\ link' = [l \in Links |-> [link[l] EXCEPT !.pong = IF @ <= moment \/ @ >= moment' THEN @ ELSE moment']]
    /\ UNCHANGED <<loopNow, turn, heard, busy, lastRun, due, well>>

AliveNext ==
    \/ \E l \in Links : Open(l, "authenticating") \/ Open(l, "control") \/ Activate(l) \/ Die(l) \/ pong_h(l)
    \/ timeout_handler \/ EndRound \/ Wait \/ Work \/ Sleep

AliveSpec == AliveInit /\ [][AliveNext]_aliveVars
-----------------------------------------------------------------------------
AliveTypeOK ==
    /\ heard <= moment /\ loopNow <= moment /\ busy <= MaxLate
    /\ \A l \in Links :
          /\ link[l].last <= loopNow /\ (link[l].pong # 0 => link[l].pinged)
          /\ link[l].pinged => link[l].state = "active"

\* A peer that answers is taken for dead only if the loop is to blame: its PONG came after the loop last
\* read everything there was, and the time that the loop left things unread, before it sent the PING
\* and again before it would have read the PONG, makes up what the answer left of the ping timeout.
\* So with the default of five seconds a peer that takes two is safe while no handler takes longer
\* than one; a script that takes five has peers closed that did answer.  After more than twice the
\* UDP discovery timeout without a run, all are closed on purpose.
AnsweringStays ==
    [][\A l \in Links : well[l] = 0 /\ link[l].state = "active" /\ link'[l].state # "active" =>
          \/ loopNow - lastRun > Asleep
          \/ heard <= link[l].pong /\ \E d \in Delays : 2 * busy + d >= PingTimeout]_aliveVars

\* A peer that died is noticed within an interval and a timeout, and the time that handlers take; one
\* that does not authenticate within the timeout and such a time; the time asleep does not count.
NoticedInTime ==
    \A l \in Links : well[l] # 0 /\ moment - lastRun <= Asleep =>
        moment - well[l] <= (IF link[l].state = "authenticating" THEN PingTimeout ELSE PingInterval + PingTimeout)
                             + 3 * MaxLate

\* Control connections are never closed for being quiet, also not after the machine was asleep.
ControlStays ==
    [][\A l \in Links : link[l].state = "control" => link'[l].state = "control"]_aliveVars

\* timeout_handler closes those connections that are dead, in time, and others only when the loop was late.
AliveSound ==
    /\ [](AliveTypeOK /\ NoticedInTime)
    /\ AnsweringStays /\ ControlStays
==============================================================================
