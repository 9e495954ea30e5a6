------------------------------- MODULE Tarpit -------------------------------
(***************************************************************************)
(* Incoming meta connections: the limit on how many are accepted in quick  *)
(* succession (check_tarpit of net_socket.c) and the tarpit that keeps the *)
(* sockets of refused and misbehaving peers open for a while (net.c).      *)
(*                                                                         *)
(* check_tarpit also means to count connections from one host, but copies  *)
(* the pointer to the address instead of the address; what it compares     *)
(* with next time has the low half of a stack pointer for an address       *)
(* family, which is never an Internet family, so that branch is not taken. *)
(***************************************************************************)
EXTENDS Naturals, Sequences, FiniteSets

CONSTANTS MaxBurst,  \* max_connection_burst
          Pits,      \* how many sockets the tarpit holds
          LastTime,  \* when the clock stops
          MaxFds     \* connections that are attempted

ASSUME TarpitAssumption == MaxBurst \in Nat \ {0} /\ Pits \in Nat \ {0}

VARIABLES second,                 \* now.tv_sec
          connection_burst,
          connection_burst_time,
          pits, next_pit,         \* the tarpit
          fds,                    \* what became of each socket, by its number
          trapped,                \* the sockets given to the tarpit, in order
          admitted,               \* when connections from outside were accepted
          attempts,               \* when connections from outside came
          refused                 \* those of them that were refused, by their number

history == <<admitted, attempts, refused>>
pitVars == <<second, connection_burst, connection_burst_time, pits, next_pit, fds, trapped, history>>

Empty == 0

PitInit ==
  /\ second = 0
  /\ connection_burst = 0 /\ connection_burst_time = 0
  /\ pits = [i \in 0..(Pits - 1) |-> Empty] /\ next_pit = 0
  /\ fds = <<>> /\ trapped = <<>>
  /\ admitted = <<>> /\ attempts = <<>> /\ refused = {}

\* tarpit(fd): the oldest socket in it is closed to make room.
Closing(states) == IF pits[next_pit] = Empty THEN states ELSE [states EXCEPT ![pits[next_pit]] = "closed"]

tarpit(fd, states) ==
  /\ fds' = Closing(states)
  /\ pits' = [pits EXCEPT ![next_pit] = fd]
  /\ next_pit' = IF next_pit + 1 >= Pits THEN 0 ELSE next_pit + 1
  /\ trapped' = Append(trapped, fd)

\* The burst drains by one each second.
Drained_Refills == IF second > connection_burst_time THEN 0 ELSE connection_burst

Drained ==
  IF second - connection_burst_time > connection_burst THEN 0
  ELSE connection_burst - (second - connection_burst_time)

\* handle_new_meta_connection, for a peer on this machine or another one.
handle_new_meta_connection(local) ==
  /\ Len(fds) < MaxFds
  /\ LET fd == Len(fds) + 1
         full == ~ local /\ Drained + 1 >= MaxBurst
     IN  /\ IF local THEN UNCHANGED <<connection_burst, connection_burst_time>>
            ELSE /\ connection_burst' = IF full THEN MaxBurst ELSE Drained + 1
                 /\ connection_burst_time' = second
         /\ IF full THEN tarpit(fd, Append(fds, "pit"))
            ELSE fds' = Append(fds, "open") /\ UNCHANGED <<pits, next_pit, trapped>>
         /\ admitted' = IF local \/ full THEN admitted ELSE Append(admitted, second)
         /\ attempts' = IF local THEN attempts ELSE Append(attempts, second)
         /\ refused' = IF full THEN refused \union {Len(attempts) + 1} ELSE refused
  /\ UNCHANGED second

\* free_connection: the socket of a peer that sent nonsense or never finished
\* its authentication goes to the tarpit, any other is closed.
free_connection(fd, bad) ==
  /\ fds[fd] = "open"
  /\ IF bad THEN tarpit(fd, [fds EXCEPT ![fd] = "pit"])
     ELSE fds' = [fds EXCEPT ![fd] = "closed"] /\ UNCHANGED <<pits, next_pit, trapped>>
  /\ UNCHANGED <<second, connection_burst, connection_burst_time, history>>

PitTick ==
  /\ second < LastTime
  /\ second' = second + 1
  /\ UNCHANGED <<connection_burst, connection_burst_time, pits, next_pit, fds, trapped, history>>

PitNext ==
  \/ \E local \in BOOLEAN : handle_new_meta_connection(local)
  \/ \E fd \in DOMAIN fds, bad \in BOOLEAN : free_connection(fd, bad)
  \/ PitTick

TarpitSpec == PitInit /\ [][PitNext]_pitVars

(***************************************************************************)
(* Properties                                                              *)
(***************************************************************************)

\* The counters, and a tarpit whose index is always inside it.
PitTypeOK ==
  /\ connection_burst \in 0..MaxBurst /\ connection_burst_time \in 0..second
  /\ next_pit \in 0..(Pits - 1)
  /\ DOMAIN pits = 0..(Pits - 1)
  /\ \A i \in DOMAIN fds : fds[i] \in {"open", "pit", "closed"}

\* Over any stretch of time no more connections from outside are accepted than
\* one fewer than MaxConnectionBurst, plus one for every second of it.  (The
\* manual says that MaxConnectionBurst of them are.)
BurstLimited ==
  \A i, j \in DOMAIN admitted :
    i <= j => j - i + 1 <= (MaxBurst - 1) + (admitted[j] - admitted[i])

\* A connection is refused only in a burst: since some earlier one, at least
\* MaxConnectionBurst came, besides one for every second.  Those that were
\* refused count, so after a burst a peer that tries once a second is refused
\* every time.  (The manual says that one per second is accepted then.)
RefusedInBurst ==
  \A j \in refused : \E i \in 1 .. j : j - i + 1 >= MaxBurst + (attempts[j] - attempts[i])

\* The tarpit keeps open exactly the last sockets it was given and has closed
\* each earlier one: none leaks, and none that is a live connection, or that
\* was put in later, is closed in its place.
PitsAreLatest ==
  \A i \in DOMAIN trapped : fds[trapped[i]] = IF i + Pits > Len(trapped) THEN "pit" ELSE "closed"

\* Connections come in no faster than the burst allows, others are accepted, and the sockets held back
\* do not leak.
TarpitSound ==
    /\ PitTypeOK
    /\ BurstLimited /\ RefusedInBurst /\ PitsAreLatest
=============================================================================
