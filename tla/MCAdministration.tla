-------------------------- MODULE MCAdministration --------------------------
(***************************************************************************)
(* What surrounds the daemon, checked part by part: starting and stopping  *)
(* (Lifecycle), control connections (Control), invitations (Invitation),   *)
(* configuration files (ConfigFiles) and key files (KeyFiles).  A          *)
(* behaviour is one of one part; the others stay where they start.         *)
(***************************************************************************)
EXTENDS Lifecycle, Control, Invitation, ConfigFiles, KeyFiles

CONSTANT Parts
VARIABLE part   \* the part that takes steps

-----------------------------------------------------------------------------
(* Control *)
MCVerbosities == {-1, 1}
MCMaxRequests == <<2, 1>>

(* Invitation: a file with a chunk for the inviting node, and a variable   *)
(* that is not safe; and one that was edited by hand, with the new node's  *)
(* own name again before a third node.                                     *)
V(var, val) == [var |-> var, val |-> val]
MCContents ==
    [n \in Invitees |->
        {<<V("Name", n), V("Conf", "ConnectTo"), V("Unsafe", "x"), V("Name", Me), V("Host", "Address")>>,
         <<V("Name", n), V("Conf", "ConnectTo"), V("Unsafe", "x"), V("Host", "Subnet"), V("Name", Me), V("Host", "Address"),
           V("Unsafe", "y"), V("Name", n), V("Host", "b"), V("Name", "other"), V("Host", "z")>>}]

(* ConfigFiles: M is a server variable that occurs once (Mode), P one that *)
(* both kinds of file may have (Port), S one of host files that may occur  *)
(* often (Subnet), O an obsolete one, and U one that is not known.         *)
L(kind) == [kind |-> kind, var |-> "", val |-> ""]
Bare(v) == [kind |-> "bare", var |-> v, val |-> ""]
Start(m, e, o) == [main |-> m, extra |-> e, own |-> o, peer |-> <<Set("S", "a")>>]
NoLines == Start(<<>>, <<>>, <<>>)
Doubled == Start(<<Note, Set("M", "a"), Set("P", "b"), Set("M", "b")>>, <<Set("M", "b")>>, <<Set("P", "a")>>)
MCStarts ==
  {NoLines, Doubled,
   Start(<<L("begin"), L("base64"), L("end"), Set("P", "a")>>, <<>>,
         <<Set("S", "a"), Set("S", "b"), Set("S", "a")>>),
   Start(<<L("begin"), L("base64")>>, <<>>, <<Set("S", "b"), Bare("S"), Set("P", "a")>>)}
C(act, var, val, node, force) == [act |-> act, var |-> var, val |-> val, node |-> node, force |-> force]
MCCommands ==
  {C("set", "M", "a", "", FALSE), C("add", "M", "b", "", FALSE), C("del", "M", "b", "", FALSE), C("del", "P", "", "", FALSE),
   C("set", "S", "a", "", FALSE), C("add", "S", "a", "", FALSE), C("del", "S", "a", "", FALSE), C("set", "S", "b", "peer", FALSE),
   C("set", "M", "a", "peer", FALSE), C("set", "M", "a", "peer", TRUE), C("add", "O", "a", "", FALSE),
   C("add", "U", "a", "", FALSE), C("add", "U", "a", "", TRUE)}
MCLearnt == {Set("S", "b")}
MCCmdLines == {<<>>, <<[whose |-> "server", var |-> "P", val |-> "b"], [whose |-> "server", var |-> "M", val |-> "a"]>>}

(* KeyFiles *)
MCHosts == {<<>>,
            <<Key("rsa", 1, "pem"), Key("ed", 1, "line")>>,
            <<Key("ed", 2, "pem"), Key("rsa", 1, "pem"), Key("rsa", 2, "pem")>>,
            <<Key("rsa", 1, "line"), Key("ed", 1, "pem"), Key("ed", 2, "line")>>}
MCPrivates == {<<>>, <<1>>, <<2, 1>>, <<3>>}

-----------------------------------------------------------------------------
(* One part at a time. *)
administrationVars == <<part, lifeVars, ctlVars, invVars, configVars, keyVars>>

AdministrationInit ==
    /\ part \in Parts
    /\ LifeInit /\ ControlInit
    /\ IF part = "invitation" THEN InvInit ELSE InvInit /\ life = 2
    /\ IF part = "config" THEN ConfigInit /\ (options = <<>> \/ Held = Doubled) ELSE ConfigInit /\ Held = NoLines /\ options = <<>>
    /\ IF part = "keys" THEN KeyInit ELSE KeyInit /\ there /\ keyfile = [f \in KeyFileNames |-> <<>>]

\* A signal, or a crash and a failure, in one behaviour; of a lost connection and a crash, one
FewMishaps ==
    /\ left'.signals = MaxSignals \/ (left'.crashes = MaxCrashes /\ left'.failures = MaxFailures)
    /\ faults'.lost + faults'.crashes < 2

AdministrationNext ==
    /\ UNCHANGED part
    /\ IF part = "life" THEN LifeNext ELSE UNCHANGED lifeVars
    /\ IF part = "control" THEN ControlNext ELSE UNCHANGED ctlVars
    /\ IF part = "invitation" THEN InvNext ELSE UNCHANGED invVars
    /\ IF part = "config" THEN ConfigNext ELSE UNCHANGED configVars
    /\ IF part = "keys" THEN KeyNext ELSE UNCHANGED keyVars
    /\ FewMishaps

\* Where they start, nothing of Lifecycle and Control that is fair is enabled.
AdministrationSpec ==
    AdministrationInit /\ [][AdministrationNext]_administrationVars /\ LifeFairness /\ ControlFairness

\* Every tinc command comes to an end, with the daemon it starts or stops and with the one it asks.
CommandsEnd ==
    ClientReturns /\ CommandEnds
=============================================================================
