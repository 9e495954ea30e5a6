---------------------------- MODULE ConfigFiles ----------------------------
(***************************************************************************)
(* The configuration of one node: the files (conf.c reads and appends to   *)
(* them), the options given to tincd on its command line, the tree of      *)
(* variables the running daemon works from, and the `tinc config` command  *)
(* (tincctl.c), which copies a file line by line to <file>.config.tmp,     *)
(* edits it on the way, renames the copy over the original and asks the    *)
(* daemon to read it again.  Several such commands may run at once, and    *)
(* then share the copy of a file: a name stands for a file on disk, which  *)
(* a command that has opened it keeps when the name goes over to another.  *)
(*                                                                         *)
(* A file is a sequence of lines.  A line is kept as its kind ("set" for   *)
(* `variable = value`, "bare" for a variable without a value, "note" for a *)
(* comment or an empty line, "begin" and "end" for the armour of a key and *)
(* "base64" for what is inside it), its variable and its value.  Files:    *)
(* "main" is tinc.conf, "extra" a file in conf.d, "own" the node's host    *)
(* file and "peer" the host file of another node.  A line is read, edited  *)
(* and written in one step, and where two commands write the same copy the *)
(* lines of one replace lines of the other.                                *)
(***************************************************************************)
EXTENDS Naturals, Sequences, SequencesExt, FiniteSetsExt

CONSTANTS ServerVars,   \* the variables that may stand in tinc.conf
          HostVars,     \* the variables that may stand in a host file
          MultiVars,    \* the ones that may occur more than once
          ObsoleteVars, \* the ones that should not be used any more
          Values,       \* the values they are given
          Starts,       \* what the files may hold at the start
          CmdLines,     \* the lists of options tincd may be started with
          Commands,     \* the `tinc config` commands that may be given
          Runs,         \* those that may run at once, by number
          Learnt,       \* the lines the daemon may add to a host file
          MaxEdits,     \* edits and attempts at one
          MaxAppends    \* lines the daemon adds by itself

VARIABLES disk,         \* the files on disk, by number
          conf, temp,   \* which of them is the file, and which <file>.config.tmp (0: none)
          edit,         \* edit[k]: the command that run k is at
          options,      \* cmdline_conf of the running daemon
          config_tree,  \* its tree of variables
          reload,       \* a REQ_RELOAD is on its way to it
          untold,       \* a file changed since it last read them, and no REQ_RELOAD was sent for that
          budget        \* what may still happen

daemonVars == <<options, config_tree>>
configVars == <<disk, conf, temp, edit, daemonVars, reload, untold, budget>>

KnownVars == ServerVars \cup HostVars
Files == {"main", "extra", "own", "peer"}
NoEdit == [pc |-> "none"]

Held == [f \in Files |-> disk[conf[f]]]   \* what the files hold

Set(v, x) == [kind |-> "set", var |-> v, val |-> x]
Note == [kind |-> "note", var |-> "", val |-> ""]

(***************************************************************************)
(* Reading: read_config_file and the tree                                  *)
(***************************************************************************)

\* Inside the armour of a key nothing is read until its "-----END".
Ignored(lines, i) ==
  \E b \in 1..(i - 1) : /\ lines[b].kind = "begin"
                        /\ \A k \in (b + 1)..(i - 1) : lines[k].kind # "end"

Parsed(lines, i) ==
  /\ lines[i].kind \notin {"note", "begin"}
  /\ ~ Ignored(lines, i)

\* parse_config_line fails on a variable without a value, which a line of a key
\* without its "-----BEGIN" is as well, and that ends the reading of the file;
\* what came before it stays in the tree.
Reach(lines) ==
  LET bad == {i \in 1..Len(lines) : Parsed(lines, i) /\ lines[i].kind \in {"bare", "base64"}}
  IN  IF bad = {} THEN Len(lines) + 1 ELSE Min(bad)

Readable(lines) == Reach(lines) > Len(lines)

read_config_file(name, lines) ==
  {[var |-> lines[i].var, val |-> lines[i].val, file |-> name, line |-> i]
     : i \in {k \in 1..(Reach(lines) - 1) : Parsed(lines, k)}}

\* The options on the command line: those for the server, or those given as
\* NAME.KEY for one node.  They stand in no file.
read_config_options(opts, whose) ==
  {[var |-> opts[i].var, val |-> opts[i].val, file |-> "", line |-> i]
     : i \in {k \in DOMAIN opts : opts[k].whose = whose}}

\* config_compare for two entries of one variable: the command line, then the
\* line number, whatever the file, then the name of the file (conf.d/..,
\* hosts/.., tinc.conf).
Rank == [f \in Files \cup {""} |-> IF f = "" THEN 0 ELSE IF f = "extra" THEN 1
                                  ELSE IF f = "main" THEN 3 ELSE 2]

Before(a, b) ==
  \/ a.file = "" /\ b.file # ""
  \/ /\ (a.file = "") = (b.file = "")
     /\ \/ a.line < b.line
        \/ a.line = b.line /\ Rank[a.file] < Rank[b.file]

lookup_config(tree, v) ==
  LET mine == {e \in tree : e.var = v}
  IN  IF mine = {} THEN "" ELSE (CHOOSE e \in mine : \A o \in mine \ {e} : Before(e, o)).val

\* tinc.conf, then conf.d/*.conf if it could be read to its end.
ServerTree(files, opts) ==
  read_config_options(opts, "server") \cup read_config_file("main", files["main"])
  \cup (IF Readable(files["main"]) THEN read_config_file("extra", files["extra"]) ELSE {})

ServerReads(files) == Readable(files["main"]) /\ Readable(files["extra"])

\* What main and setup_myself read when the daemon starts: the server's
\* configuration, then read_host_config of the node itself.
StartTree(files, opts) ==
  ServerTree(files, opts)
  \cup read_config_options(opts, "own") \cup read_config_file("own", files["own"])

\* What reload_configuration reads, into a tree it has emptied: the server's
\* configuration, its options once more, and the node's host file.  After a
\* failure it returns with what has been read so far.
ReloadTree(files, opts) ==
  ServerTree(files, opts)
  \cup (IF ServerReads(files) THEN read_config_file("own", files["own"]) ELSE {})

(***************************************************************************)
(* Editing: cmd_config                                                     *)
(***************************************************************************)

\* The file a variable goes to: the one of the node named in NODE.VARIABLE,
\* the node's own for a variable tinc.conf may not have, else tinc.conf.
Target(c) ==
  IF c.node # "" THEN c.node ELSE IF c.var \in HostVars \ ServerVars THEN "own" ELSE "main"

\* Without --force nothing unknown or obsolete is set, and nothing but the
\* variables of hosts in a host file.
Refused(c) ==
  /\ c.act # "del" /\ ~ c.force
  /\ c.var \notin KnownVars \/ c.var \in ObsoleteVars \/ (c.node # "" /\ c.var \notin HostVars)

\* "add" becomes "set" for a variable that may occur only once.
Meant(c) == IF c.act = "add" /\ c.var \in KnownVars \ MultiVars THEN "set" ELSE c.act

On(k, f) == edit[k] # NoEdit /\ edit[k].pc # "tell" /\ edit[k].file = f

\* The command opens the file and its copy, which it makes or truncates.
cmd_config(k, c) ==
  /\ edit[k] = NoEdit /\ (\A o \in Runs : o < k => edit[o] # NoEdit)
  /\ budget.edits > 0 /\ ~ Refused(c)
  /\ LET f == Target(c)
         to == IF temp[f] = 0 THEN Len(disk) + 1 ELSE temp[f]
     IN  /\ disk' = IF temp[f] = 0 THEN Append(disk, <<>>) ELSE [disk EXCEPT ![to] = <<>>]
         /\ temp' = [temp EXCEPT ![f] = to]
         /\ edit' = [i \in Runs |->
              IF i = k THEN [pc |-> "copy", act |-> Meant(c), var |-> c.var, val |-> c.val, file |-> f,
                             from |-> conf[f], to |-> to, at |-> 1, wrote |-> 0, hit |-> FALSE,
                             alone |-> \A o \in Runs : ~ On(o, f), seen |-> <<>>]
              ELSE IF On(i, f) THEN [edit[i] EXCEPT !.alone = FALSE] ELSE edit[i]]
  /\ budget' = [budget EXCEPT !.edits = @ - 1]
  /\ UNCHANGED <<conf, daemonVars, reload, untold>>

\* What the loop writes for one line, and whether it is one of those asked for.
Hits_Value(e, line) ==
  /\ line.kind \in {"set", "bare"}
  /\ line.var = e.var
  /\ e.val \in {"", line.val}

Hits(e, line) ==
  /\ line.kind \in {"set", "bare"}
  /\ line.var = e.var
  /\ e.act = "set" \/ e.val \in {"", line.val}

Written(e, line) ==
  IF ~ Hits(e, line) \/ e.act = "add" THEN <<line>>
  ELSE IF e.act = "set" /\ ~ e.hit THEN <<Set(e.var, e.val)>> ELSE <<>>

\* Lines are written where the command has got to, after a hole if someone else truncated the copy.  If
\* someone else has renamed it, it is the file that is written to.
Put(file, pos, lines) ==
  [i \in 1 .. Max({Len(file), IF lines = <<>> THEN 0 ELSE pos + Len(lines)}) |->
     IF i \in pos + 1 .. pos + Len(lines) THEN lines[i - pos] ELSE IF i <= Len(file) THEN file[i] ELSE Note]

Write(k, lines) ==
  /\ disk' = [disk EXCEPT ![edit[k].to] = Put(@, edit[k].wrote, lines)]
  /\ untold' = (untold \/ edit[k].to = conf[edit[k].file])

Copy(k) ==
  /\ edit[k].pc = "copy"
  /\ edit[k].at <= Len(disk[edit[k].from])
  /\ LET line == disk[edit[k].from][edit[k].at]
         lines == Written(edit[k], line)
     IN  /\ Write(k, lines)
         /\ edit' = [edit EXCEPT ![k].at = @ + 1, ![k].wrote = @ + Len(lines), ![k].hit = @ \/ Hits(edit[k], line)]
  /\ UNCHANGED <<conf, temp, daemonVars, reload, budget>>

\* At the end of the file a variable not met is added; a "del" that removed
\* nothing takes the copy away and fails.
EndOfFile(k) ==
  /\ edit[k].pc = "copy"
  /\ edit[k].at > Len(disk[edit[k].from])
  /\ IF edit[k].act = "del" /\ ~ edit[k].hit
     THEN /\ temp' = [temp EXCEPT ![edit[k].file] = 0]
          /\ edit' = [edit EXCEPT ![k] = NoEdit]
          /\ UNCHANGED <<disk, untold>>
     ELSE /\ Write(k, IF edit[k].act = "del" \/ edit[k].hit THEN <<>> ELSE <<Set(edit[k].var, edit[k].val)>>)
          /\ edit' = [edit EXCEPT ![k].pc = "rename", ![k].seen = disk[edit[k].from]]
          /\ UNCHANGED temp
  /\ UNCHANGED <<conf, daemonVars, reload, budget>>

\* The copy replaces the file, unless someone else has renamed or removed it.
Rename(k) ==
  /\ edit[k].pc = "rename"
  /\ LET f == edit[k].file
     IN  IF temp[f] = 0 THEN edit' = [edit EXCEPT ![k] = NoEdit] /\ UNCHANGED <<conf, temp>>
         ELSE /\ conf' = [conf EXCEPT ![f] = temp[f]] /\ temp' = [temp EXCEPT ![f] = 0]
              /\ edit' = [edit EXCEPT ![k].pc = "tell"]
  /\ UNCHANGED <<disk, daemonVars, reload, untold, budget>>

\* The daemon is told to read its files again, if it can be reached; if not, nothing is said.
Tell(k, reached) ==
  /\ edit[k].pc = "tell"
  /\ edit' = [edit EXCEPT ![k] = NoEdit]
  /\ reload' = (reload \/ reached) /\ untold' = (untold \/ ~ reached)
  /\ UNCHANGED <<disk, conf, temp, daemonVars, budget>>

\* A write that fails, or the end of the command at any point: the copy is
\* left where it is.
Abort(k) ==
  /\ edit[k] # NoEdit
  /\ edit' = [edit EXCEPT ![k] = NoEdit]
  /\ untold' = (untold \/ edit[k].pc = "tell")
  /\ UNCHANGED <<disk, conf, temp, daemonVars, reload, budget>>

(***************************************************************************)
(* The daemon                                                              *)
(***************************************************************************)

\* append_config_file, which adds a key learnt from another node to its file
\* after an empty line and a comment.
append_config_file(line) ==
  /\ budget.appends > 0
  /\ disk' = [disk EXCEPT ![conf["peer"]] = @ \o <<Note, Note, line>>]
  /\ budget' = [budget EXCEPT !.appends = @ - 1]
  /\ UNCHANGED <<conf, temp, edit, daemonVars, reload, untold>>

reload_configuration ==
  /\ reload
  /\ reload' = FALSE /\ untold' = FALSE
  /\ config_tree' = ReloadTree(Held, options)
  /\ UNCHANGED <<disk, conf, temp, edit, options, budget>>

Numbers == <<"main", "extra", "own", "peer">>
ConfigInit ==
  /\ \E start \in Starts : disk = [i \in 1 .. 4 |-> start[Numbers[i]]]
  /\ conf = [f \in Files |-> CHOOSE i \in 1 .. 4 : Numbers[i] = f]
  /\ temp = [f \in Files |-> 0]
  /\ options \in CmdLines
  /\ ServerReads(Held)
  /\ config_tree = StartTree(Held, options)
  /\ edit = [k \in Runs |-> NoEdit]
  /\ reload = FALSE /\ untold = FALSE
  /\ budget = [edits |-> MaxEdits, appends |-> MaxAppends]

ConfigNext ==
  \/ \E k \in Runs :
       \/ \E c \in Commands : cmd_config(k, c)
       \/ Copy(k) \/ EndOfFile(k) \/ Rename(k) \/ Abort(k)
       \/ \E reached \in BOOLEAN : Tell(k, reached)
  \/ \E line \in Learnt : append_config_file(line)
  \/ reload_configuration

(***************************************************************************)
(* Properties                                                              *)
(***************************************************************************)

Lines == [kind : {"set", "bare", "note", "begin", "end", "base64"}, var : STRING, val : Values \cup {""}]

\* The state of the configuration: files of lines, a copy that is never the file
\* itself, a tree of variables whose entries come from a line or an option.
ConfigTypeOK ==
  /\ \A i \in DOMAIN disk : disk[i] \in Seq(Lines)
  /\ \A f \in Files : conf[f] \in DOMAIN disk /\ temp[f] \in 0 .. Len(disk) /\ temp[f] # conf[f]
  /\ \A k \in Runs : edit[k] # NoEdit /\ edit[k].alone /\ edit[k].pc # "tell" => temp[edit[k].file] = edit[k].to
  /\ \A e \in config_tree : e.val \in Values \cup {""}

\* What an edit must make of a file, said without its loop: the other lines
\* stay as they are and in their order; "set" leaves one line of the variable,
\* where the first was, "del" none that was asked for, "add" one with the value.
Others(lines, v) == SelectSeq(lines, LAMBDA l : l.kind \notin {"set", "bare"} \/ l.var # v)
Mine(lines, v) == SelectSeq(lines, LAMBDA l : l.kind \in {"set", "bare"} /\ l.var = v)

Asked(e, old, new) ==
  /\ Others(new, e.var) = Others(old, e.var)
  /\ CASE e.act = "set" ->
            /\ Mine(new, e.var) = <<Set(e.var, e.val)>>
            /\ \A i \in DOMAIN old : old[i].var = e.var /\ (\A k \in 1..(i - 1) : old[k].var # e.var)
                                     => new[i] = Set(e.var, e.val)
       [] e.act = "add" ->
            Mine(new, e.var) = IF \E i \in DOMAIN old : old[i].var = e.var /\ old[i].val = e.val
                               THEN Mine(old, e.var) ELSE Append(Mine(old, e.var), Set(e.var, e.val))
       [] OTHER ->
            Mine(new, e.var) = SelectSeq(Mine(old, e.var), LAMBDA l : e.val # "" /\ l.val # e.val)

\* A command that no other interferes with makes of the file exactly what was
\* asked for, and not before its rename: never half a copy, whatever an earlier
\* command died of, and never the lines of an abandoned copy.  Lines that the
\* daemon adds after the file was read to its end are lost, and no others.
EditExact ==
  [][\A f \in Files : Held'[f] # Held[f] =>
       \/ \E k \in Runs : edit[k] # NoEdit /\ edit[k].file = f /\ ~ edit[k].alone
       \/ \E k \in Runs : /\ edit[k] # NoEdit /\ edit[k].file = f /\ edit[k].pc = "rename"
                          /\ Asked(edit[k], edit[k].seen, Held'[f])
                          /\ IsPrefix(edit[k].seen, Held[f])
       \/ edit' = edit /\ IsPrefix(Held[f], Held'[f])]_configVars

\* What `tinc set` wrote is what the daemon then works with: once the edit is
\* in the file and the daemon has read it, looking the variable up gives the
\* value, unless the command line, a file in conf.d or the host file has it as
\* well, or tinc.conf has a line that cannot be read or a key without its end.
SetIsSeen ==
  [][\A k \in Runs :
       edit[k].pc = "rename" /\ edit'[k].pc = "tell"
       /\ edit[k].act = "set" /\ edit[k].file = "main" /\ edit[k].alone
     => \E tree \in {ReloadTree(Held', options)} :
          \/ lookup_config(tree, edit[k].var) = edit[k].val
          \/ \E e \in tree : e.var = edit[k].var /\ e.file \in {"", "extra", "own"}
          \/ ~ Readable(Held'["main"])
          \/ Ignored(Held'["main"], Len(Held'["main"]) + 1)]_configVars

\* An option on tincd's command line for the server is never overruled by a
\* line of a file, before or after a reload.
OptionsWin ==
  \A v \in KnownVars :
    (\E i \in DOMAIN options : options[i].whose = "server" /\ options[i].var = v)
    => \E i \in DOMAIN options : options[i].var = v /\ options[i].val = lookup_config(config_tree, v)

\* The daemon works from the files as they are, unless it is about to be told
\* of a change, or a command died before it could tell it or could not reach
\* it, which no one is told; then the next reload catches up.
InSync ==
  ~ reload /\ ~ untold /\ (\A k \in Runs : edit[k].pc # "tell") =>
      \A f \in {"main", "extra", "own"} :
        {e \in config_tree : e.file = f} = {e \in ReloadTree(Held, options) : e.file = f}

\* Edits under a running daemon change what was asked for, and the daemon works from the files as
\* they are once it was told, after the options of its command line.
ConfigSound ==
    /\ [](ConfigTypeOK /\ OptionsWin /\ InSync)
    /\ EditExact /\ SetIsSeen
=============================================================================
