----------------------------- MODULE Workspace -----------------------------
(***************************************************************************)
(* The commands that decide which identity anp-cli works as: `init`,       *)
(* `id use`, `config set` and `whoami`, run by several processes on one    *)
(* workspace.  Two files record the choice:                                *)
(*                                                                         *)
(*   config.yaml            internal/config, under config.yaml.lock        *)
(*   identities/index.json  internal/identity, under a lock of its own     *)
(*                                                                         *)
(* The index is used through the operations of IdentityRegistry, one step  *)
(* each, which IdentityStore implements.  No command holds both locks.     *)
(***************************************************************************)
CONSTANTS
  Proc,       \* anp-cli processes; each runs one command at a time
  Command,    \* the commands they run: a subset of {"init", "use", "set", "whoami"}
  Name,       \* identity names made of the characters sanitizeName keeps
  OtherName,  \* names given on the command line that sanitizeName rewrites
  Rewritten,  \* Rewritten[a]: the Name sanitizeName makes of a \in OtherName
  Gen,        \* generated identities: one DID and its key material
  Field,      \* the settings of config.yaml other than `identity`
  Value,      \* their values
  Handle, Email, Phone, \* see IdentityRegistry; no command here sets them
  Malformed,  \* a config.yaml that does not parse
  InitialConfig, \* the states config.yaml may be in when the first command runs
  Existing,   \* the identities earlier commands have created
  None,       \* the empty string, a missing file, no value
  Blocking,   \* TRUE: flock(2) waits; FALSE: LockFileEx fails immediately
  MayFail     \* whether processes die and file operations fail

Arg == Name \cup OtherName
Settings == [Field -> Value \cup {None}]
File == [set : Settings, identity : Arg \cup {None}]

ASSUME WorkspaceAssumption ==
  /\ Command \subseteq {"init", "use", "set", "whoami"}
  /\ Rewritten \in [OtherName -> Name]
  /\ None \notin Proc \cup Arg \cup Value
  /\ None \notin [did : Gen, handle : Handle \cup {None},
                  email : Email \cup {None}, phone : Phone \cup {None}]
  /\ {None, Malformed} \cap File = {} /\ None # Malformed
  /\ InitialConfig \subseteq {None, Malformed}
  /\ Existing \subseteq Name
  /\ Blocking \in BOOLEAN
  /\ MayFail \in BOOLEAN

VARIABLES
  entry, current, \* the identity index: see IdentityRegistry
  config,   \* config.yaml: a File, Malformed or None
  tmp,      \* config.yaml.tmp
  lock,     \* the holder of config.yaml.lock, or None
  pc,       \* pc[p]: what process p does next
  cmd,      \* cmd[p]: the command p executes, with its arguments
  seen,     \* seen[p]: config.yaml as p's Resolve read it
  draft     \* draft[p]: the File p is about to write

registry == <<entry, current>>
vars == <<entry, current, config, tmp, lock, pc, cmd, seen, draft>>

Registry == INSTANCE IdentityRegistry
-----------------------------------------------------------------------------
NoSettings == [f \in Field |-> None]
EmptyFile == [set |-> NoSettings, identity |-> None]

Cmd == [set : Settings, op : Command \cup {"none"}, arg : Arg \cup {None}]
NoCmd == [set |-> NoSettings, op |-> "none", arg |-> None]

Sanitized(a) == IF a \in Name THEN a ELSE Rewritten[a]

Exists(a) == a \in Name /\ entry[a] # None

\* The `identity` a configuration names; an unreadable one names none.
Configured(c) == IF c \in File THEN c.identity ELSE None

\* What UpdateFile's fn makes of a file: `id use`, or `config set`.
Applied(file, c) ==
  IF c.op = "use"
  THEN [file EXCEPT !.identity = c.arg]
  ELSE [file EXCEPT !.set = [f \in Field |-> IF c.set[f] = None THEN @[f] ELSE c.set[f]]]
-----------------------------------------------------------------------------
Init ==
  /\ \E g \in Gen :
       entry = [n \in Name |-> IF n \notin Existing THEN None
                              ELSE [did |-> g, handle |-> None,
                                    email |-> None, phone |-> None]]
  /\ IF Existing = {} THEN current = None ELSE current \in Existing
  /\ config \in InitialConfig
  /\ tmp = None
  /\ lock = None
  /\ pc = [p \in Proc |-> "idle"]
  /\ cmd = [p \in Proc |-> NoCmd]
  /\ seen = [p \in Proc |-> None]
  /\ draft = [p \in Proc |-> EmptyFile]

Goto(p, from, to) ==
  /\ pc[p] = from
  /\ pc' = [pc EXCEPT ![p] = to]

\* Every command begins with Resolve, which reads config.yaml without the lock.
Start(p, c, to) ==
  /\ c.op \in Command
  /\ Goto(p, "idle", to)
  /\ cmd' = [cmd EXCEPT ![p] = c]
  /\ seen' = [seen EXCEPT ![p] = config]
  /\ UNCHANGED <<registry, config, tmp, lock, draft>>

StartInit(p) ==
  \E a \in Arg, s \in Settings :
    Start(p, [set |-> s, op |-> "init", arg |-> a], "save")

StartUse(p) ==
  \E a \in Arg : Start(p, [set |-> NoSettings, op |-> "use", arg |-> a], "select")

StartSet(p) ==
  \E s \in Settings \ {NoSettings} :
    Start(p, [set |-> s, op |-> "set", arg |-> None], "lock")

\* The argument is that of the global flag --identity.
StartWhoami(p) ==
  \E a \in Arg \cup {None} :
    Start(p, [set |-> NoSettings, op |-> "whoami", arg |-> a], "load")
-----------------------------------------------------------------------------
\* Service.Init and Save: config.yaml is written only if Resolve saw none.
Save(p) ==
  LET n == Sanitized(cmd[p].arg) IN
  /\ \/ /\ Goto(p, "save", IF seen[p] \in File THEN "ok" ELSE "lock")
        /\ \E g \in Gen : Registry!Create(n, g)
     \/ /\ Goto(p, "save", "failed")
        /\ entry[n] # None \/ MayFail
        /\ UNCHANGED registry
  /\ UNCHANGED <<config, tmp, lock, cmd, seen, draft>>

\* A mutant: the name is not looked up before config.yaml names it.
SelectAnything(p) ==
  /\ IF Exists(cmd[p].arg) THEN Registry!Select(cmd[p].arg) ELSE UNCHANGED registry
  /\ Goto(p, "select", "lock")
  /\ UNCHANGED <<config, tmp, lock, cmd, seen, draft>>

\* Store.SetCurrent.
Select(p) ==
  /\ \/ /\ Exists(cmd[p].arg)
        /\ Registry!Select(cmd[p].arg)
        /\ Goto(p, "select", "lock")
     \/ /\ ~Exists(cmd[p].arg) \/ MayFail
        /\ Goto(p, "select", "failed")
        /\ UNCHANGED registry
  /\ UNCHANGED <<config, tmp, lock, cmd, seen, draft>>

\* activeIdentity: --identity, else the configured name, else the index's.
Load(p) ==
  LET a == IF cmd[p].arg # None THEN cmd[p].arg
           ELSE IF Configured(seen[p]) # None THEN Configured(seen[p])
           ELSE current
  IN /\ Goto(p, "load", IF Exists(a) THEN "ok" ELSE "failed")
     /\ UNCHANGED <<registry, config, tmp, lock, cmd, seen, draft>>
-----------------------------------------------------------------------------
\* WriteFile (`init`) writes a File of its own; UpdateFile reads it first.
Enter(p) ==
  /\ Goto(p, "lock", IF cmd[p].op = "init" THEN "write" ELSE "read")
  /\ lock' = p
  /\ draft' = IF cmd[p].op = "init"
              THEN [draft EXCEPT ![p] = [set |-> cmd[p].set, identity |-> cmd[p].arg]]
              ELSE draft
  /\ UNCHANGED <<registry, config, tmp, cmd, seen>>

AcquireUnlocked(p) == Enter(p) \* a mutant: no lock is taken
Acquire(p) == lock = None /\ Enter(p)

\* Windows: the lock is held elsewhere and the command fails at once.
Refused(p) ==
  /\ ~Blocking
  /\ lock # None
  /\ Goto(p, "lock", "failed")
  /\ UNCHANGED <<registry, config, tmp, lock, cmd, seen, draft>>

\* UpdateFile applies fn to a file, a missing one counting as empty, unless
\* it does not parse.
ReadOf(p, file, unparsed) ==
  /\ Goto(p, "read", IF file = Malformed THEN unparsed ELSE "write")
  /\ draft' = [draft EXCEPT ![p] =
                 Applied(IF file \in File THEN file ELSE EmptyFile, cmd[p])]
  /\ UNCHANGED <<registry, config, tmp, lock, cmd, seen>>

ReadRetries(p) == ReadOf(p, config, "read")    \* a mutant: try again, locked
ReadStale(p) == ReadOf(p, seen[p], "abort")    \* a mutant: the file Resolve read

\* The file is read again, under the lock.
Read(p) == ReadOf(p, config, "abort")

WriteTmp(p) ==
  /\ Goto(p, "write", "rename")
  /\ tmp' = draft[p]
  /\ UNCHANGED <<registry, config, lock, cmd, seen, draft>>

Rename(p) ==
  /\ Goto(p, "rename", "commit")
  /\ config' = tmp
  /\ tmp' = None
  /\ UNCHANGED <<registry, lock, cmd, seen, draft>>

\* The deferred fslock.Release.
Release(p) ==
  /\ Goto(p, "commit", "ok") \/ Goto(p, "abort", "failed")
  /\ lock' = None
  /\ UNCHANGED <<registry, config, tmp, cmd, seen, draft>>

FailWrite(p) ==
  /\ MayFail
  /\ \E from \in {"read", "write", "rename"} : Goto(p, from, "abort")
  /\ UNCHANGED <<registry, config, tmp, lock, cmd, seen, draft>>

Forget(p) ==
  /\ cmd' = [cmd EXCEPT ![p] = NoCmd]
  /\ seen' = [seen EXCEPT ![p] = None]
  /\ draft' = [draft EXCEPT ![p] = EmptyFile]

\* The process prints its envelope and exits.
Exit(p) ==
  /\ Goto(p, "ok", "idle") \/ Goto(p, "failed", "idle")
  /\ Forget(p)
  /\ UNCHANGED <<registry, config, tmp, lock>>

Crash(p) ==
  /\ MayFail
  /\ pc[p] # "idle"
  /\ pc' = [pc EXCEPT ![p] = "idle"]
  /\ lock' = IF lock = p THEN None ELSE lock
  /\ Forget(p)
  /\ UNCHANGED <<registry, config, tmp>>

Run(p) == \/ StartInit(p) \/ StartUse(p) \/ StartSet(p) \/ StartWhoami(p)
          \/ Save(p) \/ Select(p) \/ Load(p)
          \/ Acquire(p) \/ Refused(p) \/ Read(p) \/ WriteTmp(p) \/ Rename(p)
          \/ Release(p) \/ FailWrite(p) \/ Exit(p) \/ Crash(p)

Next == \E p \in Proc : Run(p)

Spec == Init /\ [][Next]_vars

\* A running process goes on; flock(2) hands the lock to a waiter in the end.
Fairness ==
  \A p \in Proc :
    /\ WF_vars(Save(p) \/ Select(p) \/ Load(p) \/ Read(p) \/ WriteTmp(p)
               \/ Rename(p) \/ Release(p) \/ Exit(p))
    /\ SF_vars(Acquire(p))
FairSpec == Spec /\ Fairness
-----------------------------------------------------------------------------
(* Properties. *)

Place == {"idle", "save", "select", "load", "lock", "read", "write", "rename", "commit",
          "abort", "ok", "failed"}

\* The steps of each command.
Steps(op) ==
  CASE op = "none" -> {"idle"}
    [] op = "init" -> {"save", "lock", "write", "rename", "commit", "abort", "ok", "failed"}
    [] op = "use" -> {"select", "lock", "read", "write", "rename", "commit", "abort",
                      "ok", "failed"}
    [] op = "set" -> {"lock", "read", "write", "rename", "commit", "abort", "ok", "failed"}
    [] op = "whoami" -> {"load", "ok", "failed"}

TypeOK ==
  /\ entry \in [Name -> Registry!Identity \cup {None}]
  /\ current \in Name \cup {None}
  /\ config \in File \cup {None, Malformed}
  /\ tmp \in File \cup {None}
  /\ lock \in Proc \cup {None}
  /\ cmd \in [Proc -> Cmd]
  /\ pc \in [Proc -> Place]
  /\ \A p \in Proc : /\ pc[p] \in Steps(cmd[p].op)
                     /\ cmd[p].op \in {"init", "use"} => cmd[p].arg # None
  /\ seen \in [Proc -> File \cup {None, Malformed}]
  /\ draft \in [Proc -> File]

(* UpdateFile "serializes the read-modify-write cycle end to end": when    *)
(* `id use` or `config set` replaces config.yaml, the new file is the one  *)
(* it replaces with just that command's change, whatever ran since the     *)
(* command started (config.go 194-215).                                    *)
UpdatesApply ==
  [][config' # config =>
       \E p \in Proc :
         /\ pc[p] = "rename"
         /\ cmd[p].op # "init" =>
              /\ config # Malformed
              /\ config' = Applied(IF config = None THEN EmptyFile ELSE config, cmd[p])]_vars

(* The identity config.yaml names is there when a command comes to load it,*)
(* although it is recorded in two files under two locks: `whoami` without  *)
(* --identity reports "not initialized" only when config.yaml names none   *)
(* (root.go 270-292, id.go 88-98, app.go 139-151).                         *)
WhoamiFinds ==
  \A p \in Proc :
    cmd[p].op = "whoami" /\ cmd[p].arg = None /\ pc[p] = "failed" =>
      Configured(seen[p]) = None

(* "concurrent `config set` / `id use` processes cannot clobber each       *)
(* other": a setting, once there, may be replaced but never disappears     *)
(* (config.go 183-184).                                                    *)
SettingOf(c, f) == IF c \in File THEN c.set[f] ELSE None
SettingsKept ==
  [][\A f \in Field : SettingOf(config, f) # None => SettingOf(config', f) # None]_vars

(* Every command ends: one that gives up, on a parse error say, releases   *)
(* config.yaml.lock all the same, so the others get it (config.go 197-214).*)
CommandsEnd == \A p \in Proc : pc[p] # "idle" ~> pc[p] = "idle"

(* What the process inside the lock knows: it is alone, config.yaml is     *)
(* still as it read it, and what it is about to write is its own change.   *)
HolderAlone ==
  \A p \in Proc : pc[p] \in {"read", "write", "rename", "commit", "abort"} <=> lock = p
HolderFresh ==
  \A p \in Proc :
    /\ pc[p] \in {"write", "rename"} /\ cmd[p].op # "init" =>
         /\ config # Malformed
         /\ draft[p] = Applied(IF config = None THEN EmptyFile ELSE config, cmd[p])
    /\ pc[p] = "rename" => tmp = draft[p]
\* Every name on its way into config.yaml is that of an identity.
ConfigNamed == Configured(config) # None => Exists(Configured(config))
ProcNamed(p) ==
  /\ Configured(seen[p]) # None => Exists(Configured(seen[p]))
  /\ cmd[p].op \in {"init", "use"} /\ pc[p] \in {"lock", "read", "write", "rename"} =>
       Exists(cmd[p].arg)
  /\ cmd[p].op = "init" /\ pc[p] \in {"write", "rename"} => draft[p].identity = cmd[p].arg
NamesExist == ConfigNamed /\ \A p \in Proc : ProcNamed(p)
IInv == TypeOK /\ HolderAlone /\ HolderFresh /\ NamesExist
=============================================================================
