------------------------------ MODULE Invitation ------------------------------
(***************************************************************************)
(* Invitations: "tinc invite" writes a file for a new node and prints a    *)
(* URL with a cookie and the hash of the invitation key; "tinc join"       *)
(* connects to the daemon, shows the cookie, is sent the file, makes a     *)
(* configuration out of it and sends back its new public key, which the    *)
(* daemon stores.  Connections break at any point.                         *)
(***************************************************************************)
EXTENDS Integers, Sequences, FiniteSets, FiniteSetsExt

CONSTANTS
    Me,        \* the inviting node
    Invitees,  \* names one may invite
    Joiners,   \* machines on which "tinc join" is run
    Given,     \* those where it is given a netname or a directory
    Forced,    \* those where it is given --force
    Contents,  \* Contents[name]: files that an invitation of name may hold, after invitation-created
    Week,      \* what "tinc invite" takes for the life of an invitation
    Lifetimes, \* values of InvitationExpire
    MaxInvites, LastNow, MaxLost, MaxAborts \* bounds

Cookies == 1 .. MaxInvites

\* The name an invitation is for: its first line
NameOf(data) == IF data # <<>> /\ data[1].var = "Name" THEN data[1].val ELSE "none"

\* Invitees holds the name of every file that can be accepted.
ASSUME InvitationAssumption ==
    /\ MaxInvites \in Nat /\ LastNow \in Nat \ {0} /\ Lifetimes \subseteq Int
    /\ \A n \in Invitees : \A d \in Contents[n] : NameOf(d) \in Invitees \union {"none", Me}

VARIABLES
    life,      \* InvitationExpire
    inv,       \* inv[c]: the file of cookie c: what state it is in, the data, when it was made, the key
    invkey,    \* the invitation key on disk (a number, 0: none) and the one the daemon has read
    issued,    \* URLs handed out: cookie and key
    hosts,     \* hosts[n]: the key in the server's hosts/n, None: no such file
    clock,
    join,      \* join[j]: where the join is, its URL, the configurations written on j, its key
    link,      \* link[j]: the daemon's side of the connection: invitation_used and the name
    sentTo,    \* sentTo[c]: to whom the contents were sent, and when
    faults     \* connections broken and daemons crashed

invVars == <<life, inv, invkey, issued, hosts, clock, join, link, sentTo, faults>>

NoFile == [st |-> "none", data |-> <<>>, made |-> 0, key |-> 0]
None == <<>>
NoJoin == [at |-> "idle", cookie |-> 0, data |-> <<>>, files |-> <<>>, pub |-> None]
NoLink == [used |-> FALSE, name |-> "none"]

InvInit ==
    /\ life \in Lifetimes /\ inv = [c \in Cookies |-> NoFile] /\ invkey = [disk |-> 0, read |-> 0, last |-> 0]
    /\ issued = {} /\ hosts = [n \in Invitees |-> None] /\ clock = 1
    /\ join = [j \in Joiners |-> NoJoin] /\ link = [j \in Joiners |-> NoLink]
    /\ sentTo = [c \in Cookies |-> {}] /\ faults = [lost |-> 0, crashes |-> 0]

-----------------------------------------------------------------------------
\* A join ends, and another may be tried: only what was written is left.
Ended(files) == [NoJoin EXCEPT !.files = files]
Fail(j) == join' = [join EXCEPT ![j] = Ended(join[j].files)] /\ link' = [link EXCEPT ![j] = NoLink]

\* cmd_invite: a name that is not known yet.  Old invitations are removed; without any left, so is the
\* key; with a new key the daemon is told to reload.
Outstanding(c) == inv[c].st = "fresh" /\ inv[c].made > clock - Week

\* Neither a host file nor, if a daemon runs, a node of that name; nodes are known from their files.
Unknown(name) == hosts[name] = None

cmd_invite(name) ==
    /\ Unknown(name)
    /\ LET kept == [c \in Cookies |-> IF inv[c].st = "fresh" /\ ~Outstanding(c) THEN NoFile ELSE inv[c]]
           none == \A c \in Cookies : ~Outstanding(c)
           key == IF none \/ invkey.disk = 0 THEN invkey.last + 1 ELSE invkey.disk
           c == Cardinality(issued) + 1
       IN  /\ c \in Cookies
           /\ invkey' = [invkey EXCEPT !.disk = key, !.last = IF key > @ THEN key ELSE @]
           /\ \E data \in Contents[name] : inv' = [kept EXCEPT ![c] = [st |-> "fresh", data |-> data, made |-> clock, key |-> key]]
           /\ issued' = issued \union {[cookie |-> c, key |-> key]}
    /\ UNCHANGED <<life, hosts, clock, join, link, sentTo, faults>>

RereadKey ==
    /\ invkey.read # invkey.disk /\ invkey' = [invkey EXCEPT !.read = invkey.disk]
    /\ UNCHANGED <<life, inv, issued, hosts, clock, join, link, sentTo, faults>>

\* cmd_join: with a netname or a directory given, unless there is a configuration already; otherwise a
\* second configuration gets a name of its own.  The daemon proves to have the key of the URL.
Greeted(url) == url.key = invkey.read

cmd_join(j, url) ==
    /\ join[j].at = "idle" /\ (j \in Given => join[j].files = <<>>) /\ Greeted(url)
    /\ join' = [join EXCEPT ![j].at = "cookie", ![j].cookie = url.cookie]
    /\ UNCHANGED <<life, inv, invkey, issued, hosts, clock, link, sentTo, faults>>

\* receive_invitation_sptps: the file is renamed, so that no one else can find it; if it is not too old,
\* and starts with the name of another node, its contents are sent, and the file is removed.
Valid(f) == f.made + life >= clock /\ NameOf(f.data) \notin {"none", Me}

Found_Kept(c) == inv[c].st \in {"fresh", "used"}

Found(c) == inv[c].st = "fresh"

receive_invitation_sptps(j) ==
    LET c == join[j].cookie
        f == inv[c]
    IN  /\ join[j].at = "cookie"
        /\ IF ~(Found(c) /\ f.key = invkey.read)   \* the name of the file depends on the key
              THEN Fail(j) /\ UNCHANGED <<inv, sentTo>>
           ELSE IF ~Valid(f)
              THEN Fail(j) /\ inv' = [inv EXCEPT ![c].st = "used"] /\ UNCHANGED sentTo
           ELSE /\ join' = [join EXCEPT ![j].at = "data", ![j].data = f.data]
                /\ inv' = [inv EXCEPT ![c].st = "used"]
                /\ link' = [link EXCEPT ![j] = [used |-> TRUE, name |-> NameOf(f.data)]]
                /\ sentTo' = [sentTo EXCEPT ![c] = @ \union {[to |-> j, age |-> clock - f.made]}]
        /\ UNCHANGED <<life, invkey, issued, hosts, clock, faults>>

\* The daemon is killed between renaming the file and sending it.
CrashInBetween(j) ==
    /\ join[j].at = "cookie" /\ Found(join[j].cookie) /\ faults.crashes < MaxAborts
    /\ inv' = [inv EXCEPT ![join[j].cookie].st = "used"]
    /\ join' = [i \in Joiners |-> IF join[i].at = "joined" THEN join[i] ELSE Ended(join[i].files)]
    /\ link' = [i \in Joiners |-> NoLink] /\ faults' = [faults EXCEPT !.crashes = @ + 1]
    /\ invkey' = [invkey EXCEPT !.read = invkey.disk]
    /\ UNCHANGED <<life, issued, hosts, clock, sentTo>>

-----------------------------------------------------------------------------
\* finalize_join.  The first chunk, up to a Name that is not ours, is filtered; the others go as they
\* are to the host files they name, up to one with a bad name.
Known == {"Conf", "Host", "Unsafe"}    \* a safe variable of tinc.conf, of a host file, one that is not safe
Kept(l, force) == l.var \in Known /\ (l.var = "Unsafe" => force)

BadHead(data, name, i) == data[i].val \in {"bad name", name}

Made(data, force) ==
    LET name == NameOf(data)
        heads == {i \in DOMAIN data : data[i].var = "Name" /\ data[i].val # name}
        first == IF heads = {} THEN Len(data) + 1 ELSE Min(heads)
        starts == {i \in first .. Len(data) : data[i].var = "Name"}
        good == {i \in starts : \A k \in starts : k <= i => ~BadHead(data, name, k)}
        chunk(i) == SubSeq(data, i + 1, IF \E k \in starts : k > i THEN Min({k \in starts : k > i}) - 1 ELSE Len(data))
        mine == {l \in {data[i] : i \in 1 .. first - 1} : Kept(l, force)}
    IN  [own |-> name, conf |-> {l \in mine : l.var # "Host"}, host |-> {l \in mine : l.var = "Host"},
         others |-> {[name |-> data[i].val, lines |-> chunk(i)] : i \in good}, ok |-> good = starts]

\* invitation_receive, record 1: everything has come.  The configuration is written, then a new key sent.
finalize_join(j) ==
    /\ join[j].at = "data"
    /\ \E made \in {Made(join[j].data, j \in Forced)} :
         LET files == Append(join[j].files, made)
         IN  IF made.ok THEN /\ join' = [join EXCEPT ![j].at = "key", ![j].files = files, ![j].pub = <<j, Len(files)>>]
                             /\ UNCHANGED link
             ELSE join' = [join EXCEPT ![j] = Ended(files)] /\ link' = [link EXCEPT ![j] = NoLink]
    /\ UNCHANGED <<life, inv, invkey, issued, hosts, clock, sentTo, faults>>

\* Another program than tinc join may send anything for a key, lines of a host file as well.
ManyLines == <<"lines">>
SendLines(j) ==
    /\ join[j].at = "data" /\ join' = [join EXCEPT ![j].at = "key", ![j].pub = ManyLines]
    /\ UNCHANGED <<life, inv, invkey, issued, hosts, clock, link, sentTo, faults>>

\* finalize_invitation: only a single line, and never over a host file that exists
Writable(n, pub) == pub # ManyLines /\ hosts[n] = None

finalize_invitation(j) ==
    /\ join[j].at = "key" /\ link[j].used
    /\ IF Writable(link[j].name, join[j].pub)
          THEN /\ hosts' = [hosts EXCEPT ![link[j].name] = join[j].pub]
               /\ join' = [join EXCEPT ![j].at = "ack"] /\ UNCHANGED link
          ELSE Fail(j) /\ UNCHANGED hosts
    /\ UNCHANGED <<life, inv, invkey, issued, clock, sentTo, faults>>

Accepted(j) ==
    /\ join[j].at = "ack" /\ join' = [join EXCEPT ![j].at = "joined"]
    /\ UNCHANGED <<life, inv, invkey, issued, hosts, clock, link, sentTo, faults>>

Lose(j) ==
    /\ join[j].at \in {"cookie", "data", "key", "ack"} /\ faults.lost < MaxLost
    /\ faults' = [faults EXCEPT !.lost = @ + 1]
    /\ Fail(j)
    /\ UNCHANGED <<life, inv, invkey, issued, hosts, clock, sentTo>>

\* The user joins once more.
JoinAgain(j) ==
    /\ join[j].at = "joined" /\ Fail(j)
    /\ UNCHANGED <<life, inv, invkey, issued, hosts, clock, sentTo, faults>>

TimePasses ==
    /\ clock < LastNow /\ clock' = clock + 1
    /\ UNCHANGED <<life, inv, invkey, issued, hosts, join, link, sentTo, faults>>

InvNext ==
    \/ \E n \in Invitees : cmd_invite(n)
    \/ RereadKey \/ TimePasses
    \/ \E j \in Joiners :
        \/ \E url \in issued : cmd_join(j, url)
        \/ receive_invitation_sptps(j) \/ CrashInBetween(j) \/ finalize_join(j) \/ SendLines(j)
        \/ finalize_invitation(j) \/ Accepted(j) \/ Lose(j) \/ JoinAgain(j)

InvSpec == InvInit /\ [][InvNext]_invVars
------------------------------------------------------------------------------
InvTypeOK ==
    /\ \A c \in Cookies : inv[c].st \in {"none", "fresh", "used"} /\ inv[c].made \in 0 .. LastNow /\ inv[c].key \in 0 .. invkey.last
    /\ invkey.read \in 0 .. invkey.last /\ invkey.disk \in 0 .. invkey.last /\ Cardinality(issued) <= MaxInvites
    /\ \A j \in Joiners : join[j].at \in {"idle", "cookie", "data", "key", "ack", "joined"}
    /\ \A j \in Joiners : join[j].at \in {"key", "ack"} => link[j].used

\* An invitation is good for one node only: two that show the same cookie at the same time, or one after
\* the other, do not both get the file, and a crash of the daemon does not bring it back.
UsedOnce == \A c \in Cookies : Cardinality(sentTo[c]) <= 1

\* No one is sent an invitation older than InvitationExpire.
NotTooOld == \A c \in Cookies : \A s \in sentTo[c] : s.age <= life

\* A node that believes that it joined is the one whose key the server has, under the name that its own
\* configuration says, which was written to the end.
JoinedIsKnown ==
    \A j \in Joiners : join[j].at = "joined" /\ join[j].pub # ManyLines =>
        LET made == join[j].files[Len(join[j].files)]
        IN  made.ok /\ hosts[made.own] = join[j].pub

\* A host file once written keeps its key, even when two invitations for the same name are used.
HostFilesStay == [][\A n \in Invitees : hosts[n] # None => hosts'[n] = hosts[n]]_invVars

\* Whatever the file holds, nothing unsafe of it gets into tinc.conf or the new node's own host file, but
\* with --force, and no later chunk replaces the latter; and whatever is sent for a key, only a key gets
\* into the server's host file.
JoinFilesSafe ==
    /\ \A j \in Joiners : \A i \in DOMAIN join[j].files :
        LET made == join[j].files[i]
        IN  /\ \A l \in made.conf \union made.host : l.var \in {"Conf", "Host"} \/ j \in Forced
            /\ \A o \in made.others : o.name # made.own
    /\ \A n \in Invitees : hosts[n] # ManyLines

\* An invitation makes one node a member, in time, and puts nothing on either side's disk that was not
\* asked for.
InvitationSound ==
    /\ [](InvTypeOK /\ UsedOnce /\ NotTooOld /\ JoinedIsKnown /\ JoinFilesSafe)
    /\ HostFilesStay
==============================================================================
