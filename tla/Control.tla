------------------------------- MODULE Control -------------------------------
(***************************************************************************)
(* Control connections: tinc commands send requests over a connection they *)
(* keep, and read answers from it line by line; the daemon answers each    *)
(* request in turn.  Some connections subscribe to log messages or to      *)
(* captured packets instead, which the daemon sends as they come about.    *)
(* The request to stop is in Lifecycle.                                    *)
(***************************************************************************)
EXTENDS Integers, Sequences, FiniteSets

CONSTANTS
    Tools,       \* connections of tinc commands
    MaxRequests, \* bound: MaxRequests[t] commands of t
    MaxEvents,   \* bound: log messages and packets
    MaxRows,     \* most rows a dump has
    Levels,      \* debug levels of messages
    DEBUG_META,  \* the level at which requests, and lines that are sent, are logged
    Verbosities  \* what "tinc log" and "tinc debug" are given; -1: none

ASSUME ControlAssumption == MaxRows \in Nat /\ Verbosities \subseteq Int /\ DEBUG_META \in Nat

VARIABLES
    ctl,         \* ctl[t]: connected, subscribed to the log (at a level) and to packets
    pipe,        \* pipe[t]: [in, out]: lines to and from the daemon
    tool,        \* tool[t]: the command being executed and the dumps or answers it still expects
    buffer,      \* buffer[t]: what a tinc shell had received, but not read, when it lost its last connection
    debug_level,
    logcontrol, pcap,  \* whether there may be subscribers
    asked, happened, \* counters
    owed         \* owed[t]: records that t should have been sent

ctlVars == <<ctl, pipe, tool, buffer, debug_level, logcontrol, pcap, asked, happened, owed>>

Nobody == [on |-> FALSE, log |-> FALSE, level |-> -1, pcap |-> FALSE]
Free == [cmd |-> "none", wants |-> <<>>, got |-> <<>>]

ControlInit ==
    /\ ctl = [t \in Tools |-> Nobody] /\ pipe = [t \in Tools |-> [in |-> <<>>, out |-> <<>>]]
    /\ tool = [t \in Tools |-> Free] /\ buffer = [t \in Tools |-> <<>>] /\ debug_level = 0 /\ logcontrol = FALSE /\ pcap = FALSE
    /\ asked = [t \in Tools |-> 0] /\ happened = 0 /\ owed = [t \in Tools |-> 0]

-----------------------------------------------------------------------------
\* Lines of an answer: rows of a dump and the line that ends it; a result; a record and its data
Row(r) == [kind |-> "row", req |-> r]
End(r) == [kind |-> "end", req |-> r]
Result(r, v) == [kind |-> "result", req |-> r, value |-> v]
Record(r) == <<[kind |-> "header", req |-> r], [kind |-> "data", req |-> r]>>
EINVAL == 22
Dumps == {"nodes", "edges", "subnets", "connections", "traffic"}

\* real_logger: to everyone subscribed at this level; logcontrol is computed anew.  Sending a record is
\* logged as well, which suppress keeps from being sent.
Wants(c, level, debug) == c.log /\ level <= (IF c.level # -1 THEN c.level ELSE debug)

Armed_Level(level, debug) == \E t \in Tools : Wants(ctl[t], level, debug)

Armed(level, debug) == \E t \in Tools : ctl[t].log

Logged(level) == [t \in Tools |-> IF logcontrol /\ Wants(ctl[t], level, debug_level) THEN pipe[t].out \o Record("log") ELSE pipe[t].out]
Due(level) == [t \in Tools |-> owed[t] + IF Wants(ctl[t], level, debug_level) THEN 1 ELSE 0]
StillArmed(level) == logcontrol /\ Armed(level, debug_level)

logger(level) ==
    /\ happened < MaxEvents /\ happened' = happened + 1
    /\ pipe' = [t \in Tools |-> [pipe[t] EXCEPT !.out = Logged(level)[t]]]
    /\ owed' = Due(level) /\ logcontrol' = StillArmed(level)
    /\ UNCHANGED <<ctl, tool, buffer, debug_level, pcap, asked>>

\* send_pcap: the lines of the records are logged themselves.
Captured(t) == [pipe[t] EXCEPT !.out = IF ctl[t].pcap THEN @ \o Record("pcap") ELSE Logged(DEBUG_META)[t]]

send_pcap ==
    /\ happened < MaxEvents /\ happened' = happened + 1
    /\ IF pcap /\ \E t \in Tools : ctl[t].pcap
       THEN /\ pipe' = [t \in Tools |-> Captured(t)] /\ logcontrol' = StillArmed(DEBUG_META)
            /\ owed' = [t \in Tools |-> IF ctl[t].pcap THEN owed[t] + 1 ELSE Due(DEBUG_META)[t]]
       ELSE UNCHANGED <<pipe, logcontrol>> /\ owed' = [t \in Tools |-> owed[t] + IF ctl[t].pcap THEN 1 ELSE 0]
    /\ pcap' = (pcap /\ \E t \in Tools : ctl[t].pcap)
    /\ UNCHANGED <<ctl, tool, buffer, debug_level, asked>>

\* control_h: the answers to request q, with as many rows as there are now, or connections to close;
\* EINVAL from a reload whose configuration cannot be read
Answers(q, rows) ==
    IF q.req \in Dumps THEN [i \in 1 .. rows |-> Row(q.req)] \o <<End(q.req)>>
    ELSE IF q.req \in {"purge", "retry"} THEN <<Result(q.req, 0)>>
    ELSE IF q.req = "reload" THEN <<Result(q.req, IF rows = 0 THEN EINVAL ELSE 0)>>
    ELSE IF q.req = "disconnect" THEN <<Result(q.req, IF rows = 0 THEN -2 ELSE 0)>>
    ELSE IF q.req = "debug" THEN <<Result("debug", debug_level)>>
    ELSE IF q.req = "connect" THEN <<End("invalid")>>
    ELSE <<>>

NewLevel(q) == IF q.req = "debug" /\ q.arg >= 0 THEN q.arg ELSE debug_level

\* The messages about a request, all of them logged before it has an effect, count as one.
Noted(q) == IF q.req \in {"reload", "garbled"} THEN 0 ELSE DEBUG_META

control_h(t) ==
    /\ ctl[t].on /\ pipe[t].in # <<>> /\ Head(pipe[t].in).req # "garbled"
    /\ LET q == Head(pipe[t].in)
       IN  /\ \E rows \in 0 .. MaxRows :
                 pipe' = [s \in Tools |-> IF s = t THEN [in |-> Tail(pipe[s].in), out |-> Logged(Noted(q))[s] \o Answers(q, rows)]
                                          ELSE [pipe[s] EXCEPT !.out = Logged(Noted(q))[s]]]
           /\ owed' = Due(Noted(q))
           /\ debug_level' = NewLevel(q)
           /\ ctl' = IF q.req = "log" THEN [ctl EXCEPT ![t].log = TRUE, ![t].level = q.arg]
                     ELSE IF q.req = "pcap" THEN [ctl EXCEPT ![t].pcap = TRUE] ELSE ctl
           /\ logcontrol' = (StillArmed(Noted(q)) \/ q.req = "log")
           /\ pcap' = (pcap \/ q.req = "pcap")
    /\ UNCHANGED <<tool, buffer, asked, happened>>

\* A request that cannot be read, from another program, ends the connection.
Refuse(t) ==
    /\ ctl[t].on /\ pipe[t].in # <<>> /\ Head(pipe[t].in).req = "garbled"
    /\ pipe' = [s \in Tools |-> IF s = t THEN [in |-> <<>>, out |-> <<>>] ELSE [pipe[s] EXCEPT !.out = Logged(0)[s]]]
    /\ owed' = [Due(0) EXCEPT ![t] = 0] /\ logcontrol' = StillArmed(0)
    /\ ctl' = [ctl EXCEPT ![t] = Nobody] /\ tool' = [tool EXCEPT ![t] = Free]
    /\ UNCHANGED <<buffer, debug_level, pcap, asked, happened>>

-----------------------------------------------------------------------------
\* The requests a command sends, and what it then reads: each want is a request, and whether it is a dump
Sends(cmd, arg) ==
    IF cmd \in {"graph", "digraph"} THEN <<[req |-> "nodes", arg |-> -1], [req |-> "edges", arg |-> -1]>>
    ELSE <<[req |-> cmd, arg |-> arg]>>

\* connect_tincd: the first line read has to be a greeting.  In a shell it can be one of an older connection
\* or, behind a part of such a line, the greeting itself, whose second line then may be left over.
Part == [kind |-> "part", req |-> "none"]
Greeting2 == [kind |-> "greeting", req |-> "none"]
LeftOver(lines) == IF Head(lines) = Part THEN {<<>>, <<Greeting2>>} ELSE {Tail(lines)}

connect_tincd(t) ==
    /\ ~ctl[t].on /\ asked[t] < MaxRequests[t]
    /\ IF buffer[t] = <<>> THEN ctl' = [ctl EXCEPT ![t].on = TRUE] /\ UNCHANGED buffer
       ELSE (\E rest \in LeftOver(buffer[t]) : buffer' = [buffer EXCEPT ![t] = rest]) /\ UNCHANGED ctl
    /\ UNCHANGED <<pipe, tool, debug_level, logcontrol, pcap, asked, happened, owed>>

RunTool(t, cmd, arg) ==
    /\ ctl[t].on /\ tool[t].cmd = "none" /\ asked[t] < MaxRequests[t]
    /\ asked' = [asked EXCEPT ![t] = @ + 1]
    /\ tool' = [tool EXCEPT ![t] = [cmd |-> cmd, wants |-> Sends(cmd, arg), got |-> <<>>]]
    /\ pipe' = [pipe EXCEPT ![t].in = @ \o Sends(cmd, arg)]
    /\ UNCHANGED <<ctl, buffer, debug_level, logcontrol, pcap, happened, owed>>

\* recvline in a command: a dump reads rows up to the line that ends it, and a graph reads both dumps;
\* another command reads one line; log and pcap read a header and its data, for ever.
Reads(t, line) ==
    IF line.kind \in {"row", "header", "data"} THEN tool[t].wants ELSE Tail(tool[t].wants)

recvline(t) ==
    /\ tool[t].cmd # "none" /\ pipe[t].out # <<>>
    /\ LET line == Head(pipe[t].out)
           left == Reads(t, line)
       IN  tool' = [tool EXCEPT ![t] = IF left = <<>> THEN Free ELSE [@ EXCEPT !.wants = left, !.got = <<line>>]]
    /\ pipe' = [pipe EXCEPT ![t].out = Tail(@)]
    /\ UNCHANGED <<ctl, buffer, debug_level, logcontrol, pcap, asked, happened, owed>>

\* The connection ends, in any state: with the tool, or with the command a shell executes, which keeps
\* what it had received.
Gone(t) ==
    /\ ctl[t].on
    /\ ctl' = [ctl EXCEPT ![t] = Nobody] /\ tool' = [tool EXCEPT ![t] = Free]
    /\ pipe' = [pipe EXCEPT ![t] = [in |-> <<>>, out |-> <<>>]] /\ owed' = [owed EXCEPT ![t] = 0]
    /\ UNCHANGED <<debug_level, logcontrol, pcap, asked, happened>>

Leave(t) == Gone(t) /\ UNCHANGED buffer

Received(lines) ==
    {SubSeq(lines, 1, n) : n \in 1 .. Len(lines)} \union {Append(SubSeq(lines, 1, n), Part) : n \in 0 .. Len(lines) - 1}

CutOff(t) ==
    /\ Gone(t)
    /\ \E lines \in Received(pipe[t].out) : buffer' = [buffer EXCEPT ![t] = lines]

Handle(t) == control_h(t) \/ Refuse(t)

ControlNext ==
    \/ \E l \in Levels : logger(l)
    \/ send_pcap
    \/ \E t \in Tools :
        \/ connect_tincd(t) \/ Handle(t) \/ recvline(t) \/ Leave(t) \/ CutOff(t)
        \/ \E cmd \in {"graph", "traffic", "purge", "disconnect", "connect", "reload", "garbled", "pcap"} : RunTool(t, cmd, -1)
        \/ \E cmd \in {"debug", "log"}, v \in Verbosities : RunTool(t, cmd, v)

ControlSpec == ControlInit /\ [][ControlNext]_ctlVars

\* The daemon handles what it is sent, a tool reads what it is sent.
ControlFairness == \A t \in Tools : WF_ctlVars(Handle(t)) /\ WF_ctlVars(recvline(t))
------------------------------------------------------------------------------
Sent(t) == Cardinality({i \in DOMAIN pipe[t].out : pipe[t].out[i].kind = "header"})

ControlTypeOK ==
    /\ \A t \in Tools : ctl[t].level \in Verbosities \union {-1} /\ (ctl[t].log \/ ctl[t].pcap => ctl[t].on)
    /\ debug_level \in Verbosities \union {0} /\ debug_level >= 0
    /\ \A t \in Tools : ~ctl[t].on => pipe[t] = [in |-> <<>>, out |-> <<>>]

\* Whatever a command reads is an answer to the request it has in mind: two tools, or two commands in
\* succession over the same connection, never see each other's answers, a subscriber sees only records,
\* and a tinc shell that connects again never takes for an answer what it kept of an older connection.
OwnAnswers ==
    \A t \in Tools : tool[t].cmd # "none" /\ buffer[t] \o pipe[t].out # <<>> =>
        LET line == Head(buffer[t] \o pipe[t].out)
        IN  \/ line.req = Head(tool[t].wants).req
            \/ tool[t].cmd = "connect" /\ line.req = "invalid"

\* The global flags that spare looking for subscribers are set as long as there is one, though every
\* message and every packet computes them anew.
FlagsCover == \A t \in Tools : (ctl[t].log => logcontrol) /\ (ctl[t].pcap => pcap)

\* Every subscriber is sent every packet and every message of its level but for those about records
\* themselves, each once: one that has read nothing yet finds all of them.
AllRecords == \A t \in Tools : tool[t].got = <<>> => Sent(t) = owed[t]

\* Every command that is not a subscription comes to its end.
CommandEnds == \A t \in Tools : tool[t].cmd \notin {"none", "log", "pcap"} ~> tool[t].cmd \in {"none", "log", "pcap"}

\* Commands get the answers to their own requests and subscribers all records, whoever else comes and
\* goes.
ControlSound ==
    /\ ControlTypeOK /\ FlagsCover
    /\ OwnAnswers /\ AllRecords
==============================================================================
