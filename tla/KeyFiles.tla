------------------------------ MODULE KeyFiles ------------------------------
(***************************************************************************)
(* The key pairs of a node on disk: a file with the private key of each    *)
(* kind, and the node's host file with the public ones.  keys.c reads them *)
(* and disables old ones; tincctl.c makes new pairs (generate-keys, init); *)
(* fsck.c compares the two halves and offers to write the public one anew. *)
(*                                                                         *)
(* A file is the sequence of the keys in it, each with the number of its   *)
(* pair, its form ("pem" for an armoured block, "line" for a               *)
(* `Ed25519PublicKey =` or `PublicKey =` statement) and whether it is still *)
(* in use or has been commented out.  A command is the list of steps it    *)
(* still has to take on the files; it can die between two of them.         *)
(***************************************************************************)
EXTENDS Naturals, Sequences, SequencesExt, FiniteSets

CONSTANTS Hosts,        \* what the host file may hold at the start
          Privates,     \* the same for the private key files
          Short,        \* the pairs whose RSA keys have another length than the others
          Broken,       \* the pairs whose private RSA key does not work
          MaxRuns,      \* commands that are run
          MaxMishaps    \* steps that fail

VARIABLES keyfile,      \* the files
          there,        \* there is a host file
          run,          \* the command being run
          pairs,        \* pairs generated so far
          luck          \* [commands, failures]: what may still happen

keyVars == <<keyfile, there, run, pairs, luck>>

Kinds == {"rsa", "ed"}
KeyFileNames == Kinds \cup {"host"}
NoKey == 0
Done == [name |-> "none", todo |-> <<>>, ok |-> TRUE, clean |-> TRUE, asked |-> {}]

Key(kind, pair, form) == [kind |-> kind, pair |-> pair, form |-> form, on |-> TRUE]

(***************************************************************************)
(* keys.c                                                                  *)
(***************************************************************************)

\* The key a reader comes upon first, or none.
FirstOf(keys, kind, form) ==
  LET used == {i \in DOMAIN keys : keys[i].kind = kind /\ keys[i].form = form /\ keys[i].on}
  IN  IF used = {} THEN NoKey ELSE keys[CHOOSE i \in used : \A j \in used : i <= j].pair

read_ecdsa_private_key(files) == FirstOf(files["ed"], "ed", "pem")
read_rsa_private_key(files) == FirstOf(files["rsa"], "rsa", "pem")
PrivateKey(files, kind) ==
  IF kind = "ed" THEN read_ecdsa_private_key(files) ELSE read_rsa_private_key(files)

\* In the host file a statement comes first, then a block.
StatedFirst(keys, kind) ==
  IF FirstOf(keys, kind, "line") # NoKey THEN FirstOf(keys, kind, "line") ELSE FirstOf(keys, kind, "pem")

read_ecdsa_public_key(files) == StatedFirst(files["host"], "ed")
read_rsa_public_key(files) == StatedFirst(files["host"], "rsa")
PublicKey(files, kind) ==
  IF kind = "ed" THEN read_ecdsa_public_key(files) ELSE read_rsa_public_key(files)

\* disable_old_keys comments out every block of a kind and, for Ed25519, every
\* statement; a copy of the file is renamed over it.
disable_old_keys_Blocks(keys, kind) ==
  [i \in DOMAIN keys |-> [keys[i] EXCEPT !.on = @ /\ ~ (keys[i].kind = kind /\ keys[i].form = "pem")]]

disable_old_keys(keys, kind) ==
  [i \in DOMAIN keys |->
     [keys[i] EXCEPT !.on = @ /\ ~ (keys[i].kind = kind /\ (keys[i].form = "pem" \/ kind = "ed"))]]

(***************************************************************************)
(* The steps of a command                                                  *)
(***************************************************************************)

DisableStep(file, kind) == [op |-> "disable", file |-> file, kind |-> kind, pair |-> NoKey, form |-> "pem"]
AppendStep(file, kind, pair, form) == [op |-> "append", file |-> file, kind |-> kind, pair |-> pair, form |-> form]

\* ask_and_open disables the old keys of a file and opens it for appending.
ask_and_open(file, kind, pair, form) ==
  <<DisableStep(file, kind), AppendStep(file, kind, pair, form)>>

\* First the private key, then the public one.
rsa_keygen(pair) ==
  ask_and_open("rsa", "rsa", pair, "pem") \o ask_and_open("host", "rsa", pair, "pem")

ed25519_keygen(pair) ==
  ask_and_open("ed", "ed", pair, "pem") \o ask_and_open("host", "ed", pair, "line")

\* ask_fix_rsa_public_key and ask_fix_ec_public_key.
ask_fix(kind, pair) == <<DisableStep("host", kind), AppendStep("host", kind, pair, "pem")>>

\* test_rsa_keypair does not get so far as to compare keys of different
\* lengths, or with a private key that does not work: it fails.
RsaHopeless(files) ==
  /\ PrivateKey(files, "rsa") # NoKey /\ PublicKey(files, "rsa") # NoKey
  /\ \/ (PrivateKey(files, "rsa") \in Short) # (PublicKey(files, "rsa") \in Short)
     \/ PrivateKey(files, "rsa") \in Broken

\* check_rsa_pubkey: without a public key the fix is offered even when there is
\* no private key to write it from.
RsaWrong(files) ==
  \/ PublicKey(files, "rsa") = NoKey
  \/ /\ PrivateKey(files, "rsa") # NoKey /\ ~ RsaHopeless(files)
     /\ PrivateKey(files, "rsa") # PublicKey(files, "rsa")

\* check_ec_pubkey and test_ec_keypair.
EdWrong(files) ==
  /\ PrivateKey(files, "ed") # NoKey
  /\ PrivateKey(files, "ed") # PublicKey(files, "ed")

(***************************************************************************)
(* Commands                                                                *)
(***************************************************************************)

Begins(name, todo, ok, kinds) ==
  /\ run.todo = <<>>
  /\ luck.commands > 0
  /\ luck' = [luck EXCEPT !.commands = @ - 1]
  /\ run' = [name |-> name, todo |-> todo, ok |-> ok, clean |-> TRUE, asked |-> kinds]

\* generate-keys, generate-rsa-keys and generate-ed25519-keys.
cmd_generate_keys(kinds) ==
  /\ Begins("generate", (IF "rsa" \in kinds THEN rsa_keygen(pairs + 1) ELSE <<>>)
                        \o (IF "ed" \in kinds THEN ed25519_keygen(pairs + 1) ELSE <<>>), TRUE, kinds)
  /\ pairs' = pairs + 1
  /\ UNCHANGED <<keyfile, there>>

\* init, in a directory where no keys are yet.
cmd_init ==
  /\ \A f \in KeyFileNames : keyfile[f] = <<>>
  /\ cmd_generate_keys(Kinds)

\* fsck reads all four keys before it changes anything; the user agrees to the
\* fixes for some kinds.  It gives up when there is no host file, or no private
\* key at all.
fsck(agreed) ==
  /\ LET goes == there /\ \E k \in Kinds : PrivateKey(keyfile, k) # NoKey
     IN  Begins("fsck",
                IF ~ goes THEN <<>>
                ELSE (IF RsaWrong(keyfile) /\ "rsa" \in agreed
                      THEN ask_fix("rsa", PrivateKey(keyfile, "rsa")) ELSE <<>>)
                     \o (IF EdWrong(keyfile) /\ "ed" \in agreed
                         THEN ask_fix("ed", PrivateKey(keyfile, "ed")) ELSE <<>>),
                goes /\ ~ RsaHopeless(keyfile), agreed)
  /\ UNCHANGED <<keyfile, there, pairs>>

Applied(step) ==
  [keyfile EXCEPT ![step.file] = IF step.op = "disable" THEN disable_old_keys(@, step.kind)
                                 ELSE Append(@, Key(step.kind, step.pair, step.form))]

\* A step that succeeds.  There is nothing to write for a key that is not known.
Step ==
  /\ run.todo # <<>>
  /\ Head(run.todo).op = "append" => Head(run.todo).pair # NoKey
  /\ keyfile' = Applied(Head(run.todo))
  /\ there' = (there \/ (Head(run.todo).op = "append" /\ Head(run.todo).file = "host"))
  /\ run' = [run EXCEPT !.todo = Tail(@)]
  /\ UNCHANGED <<pairs, luck>>

\* What a failure leaves to do: a key generator goes on after keys it could not
\* disable, and otherwise gives up; fsck gives up on the kind.
Remaining(todo, name) ==
  IF name = "fsck" THEN SelectSeq(todo, LAMBDA s : s.kind # Head(todo).kind)
  ELSE IF Head(todo).op = "disable" THEN Tail(todo) ELSE <<>>

StepFails ==
  /\ run.todo # <<>>
  /\ IF Head(run.todo).op = "append" /\ Head(run.todo).pair = NoKey THEN UNCHANGED luck
     ELSE luck.failures > 0 /\ luck' = [luck EXCEPT !.failures = @ - 1]
  /\ run' = [run EXCEPT !.todo = Remaining(@, run.name), !.clean = FALSE,
                        !.ok = run.name = "generate" /\ Head(run.todo).op = "disable" /\ @]
  /\ UNCHANGED <<keyfile, there, pairs>>

\* What was to be written is lost when the file is closed, which no command notices.
WriteLost ==
  /\ run.todo # <<>> /\ Head(run.todo).op = "append" /\ Head(run.todo).pair # NoKey
  /\ luck.failures > 0 /\ luck' = [luck EXCEPT !.failures = @ - 1]
  /\ there' = (there \/ Head(run.todo).file = "host")
  /\ run' = [run EXCEPT !.todo = Tail(@), !.clean = FALSE]
  /\ UNCHANGED <<keyfile, pairs>>

\* The command dies between two steps.
Dies ==
  /\ run.todo # <<>>
  /\ luck.failures > 0
  /\ luck' = [luck EXCEPT !.failures = @ - 1]
  /\ run' = Done
  /\ UNCHANGED <<keyfile, there, pairs>>

KeyInit ==
  /\ \E h \in Hosts, r \in Privates, e \in Privates :
       keyfile = [f \in KeyFileNames |->
                    IF f = "host" THEN h
                    ELSE [i \in DOMAIN (IF f = "rsa" THEN r ELSE e) |->
                            Key(f, (IF f = "rsa" THEN r ELSE e)[i], "pem")]]
  /\ there \in BOOLEAN /\ (keyfile["host"] # <<>> => there)
  /\ run = Done
  /\ pairs = 3
  /\ luck = [commands |-> MaxRuns, failures |-> MaxMishaps]

KeyNext ==
  \/ \E kinds \in (SUBSET Kinds) \ {{}} : cmd_generate_keys(kinds)
  \/ cmd_init
  \/ \E agreed \in SUBSET Kinds : fsck(agreed)
  \/ Step
  \/ StepFails
  \/ WriteLost
  \/ Dies

(***************************************************************************)
(* Properties                                                              *)
(***************************************************************************)

\* A file of private keys holds blocks of its own kind only; every key belongs
\* to a pair that was made.
KeyTypeOK ==
  /\ \A i \in DOMAIN keyfile["host"] : keyfile["host"][i].pair \in 1..pairs
  /\ \A f \in Kinds : \A i \in DOMAIN keyfile[f] :
       keyfile[f][i].kind = f /\ keyfile[f][i].form = "pem" /\ keyfile[f][i].pair \in 1..pairs
  /\ run.name \in {"none", "generate", "fsck"} /\ run.ok \in BOOLEAN
  /\ run.todo # <<>> => run.name # "none"

\* disable_old_keys leaves `PublicKey =` alone, so what is written after it is not read.
Stated(kind) == kind = "rsa" /\ FirstOf(keyfile["host"], "rsa", "line") # NoKey

\* After a key generator that met no error the node signs with the new pair and
\* shows its public half, whatever earlier commands, finished, failed or cut
\* short, left in the files; but for an RSA key in a host file with a
\* `PublicKey =` of an older pair, which goes on to be shown.
NewPairInUse ==
  run.todo = <<>> /\ run.name = "generate" /\ run.clean
  => \A k \in run.asked : PrivateKey(keyfile, k) = pairs
                          /\ (Stated(k) \/ PublicKey(keyfile, k) = pairs)

\* After an fsck that says all is well, and that lost nothing when it closed a
\* file, the public key of each kind whose fix the user did not decline is that
\* of the private key: what an interrupted or failed command left behind is
\* repaired.  A wrong `PublicKey =` is not: fsck offers the fix, writes a block
\* that is never read, and says that all is well.
FsckRepairs ==
  run.todo = <<>> /\ run.name = "fsck" /\ run.ok /\ run.clean
  => \A k \in run.asked : \/ PrivateKey(keyfile, k) = NoKey
                          \/ Stated(k)
                          \/ PublicKey(keyfile, k) = PrivateKey(keyfile, k)

\* No command ever loses a key: old ones are commented out and stay where they
\* are, in every file, at every step.
KeysKept ==
  [][\A f \in KeyFileNames :
       /\ Len(keyfile'[f]) >= Len(keyfile[f])
       /\ \A i \in DOMAIN keyfile[f] :
            keyfile'[f][i] \in {keyfile[f][i], [keyfile[f][i] EXCEPT !.on = FALSE]}]_keyVars

\* Through commands that fail or die half-way no key is lost, and one that ends well leaves matching
\* halves in use, unless the host file has a `PublicKey =`.
KeyFilesSound ==
    /\ [](KeyTypeOK /\ NewPairInUse /\ FsckRepairs)
    /\ KeysKept
=============================================================================
