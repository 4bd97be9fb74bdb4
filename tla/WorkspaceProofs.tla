-------------------------- MODULE WorkspaceProofs --------------------------
(***************************************************************************)
(* Proofs about Workspace: `id use` and `config set` replace config.yaml   *)
(* by what is there with their own change, nothing is lost among them,     *)
(* and what config.yaml names exists.                                      *)
(*                                                                         *)
(* A process is inside config.yaml.lock exactly between Acquire and        *)
(* Release (HolderAlone), and what it has read is what is there            *)
(* (HolderFresh). That a name exists follows it from the command line      *)
(* through the store to the file (NamesExist).                             *)
(***************************************************************************)
EXTENDS Workspace, TLAPS

(* What the process inside config.yaml.lock knows, for any names: the part *)
(* of IInv that does not say that the names exist.                         *)
LockInv == TypeOK /\ HolderAlone /\ HolderFresh

Inside == {"read", "write", "rename", "commit", "abort"}

(* Where each command can be.                                            *)
LEMMA StepsOf ==
  /\ Steps("none") = {"idle"}
  /\ Steps("init") = {"save", "lock", "write", "rename", "commit", "abort", "ok", "failed"}
  /\ Steps("use") = {"select", "lock", "read", "write", "rename", "commit", "abort",
                     "ok", "failed"}
  /\ Steps("set") = {"lock", "read", "write", "rename", "commit", "abort", "ok", "failed"}
  /\ Steps("whoami") = {"load", "ok", "failed"}
BY DEF Steps

\* The commands there are, whichever of them are run.
LEMMA Ops ==
  ASSUME NEW c \in Cmd
  PROVE  c.op \in {"none", "init", "use", "set", "whoami"}
BY WorkspaceAssumption DEF Cmd

(* A step of a process, one disjunct for each action.                    *)
LEMMA RunCases ==
  ASSUME NEW p \in Proc, Run(p)
  PROVE  \/ \E c \in Cmd, to \in {"save", "select", "lock", "load"} :
              /\ Start(p, c, to) /\ to \in Steps(c.op)
              /\ c.op \in {"init", "use"} => c.arg # None /\ to # "lock"
         \/ Save(p) \/ Select(p) \/ Load(p) \/ Acquire(p) \/ Refused(p) \/ Read(p)
         \/ WriteTmp(p) \/ Rename(p) \/ Release(p) \/ FailWrite(p) \/ Exit(p) \/ Crash(p)
<1> NoSettings \in Settings
  BY DEF NoSettings, Settings
<1>1. CASE StartInit(p)
  <2>1. PICK a \in Arg, s \in Settings : Start(p, [set |-> s, op |-> "init", arg |-> a], "save")
    BY <1>1 DEF StartInit
  <2>2. [set |-> s, op |-> "init", arg |-> a] \in Cmd
    BY <2>1 DEF Start, Cmd
  <2> QED
    BY <2>1, <2>2, StepsOf, WorkspaceAssumption
<1>2. CASE StartUse(p)
  <2>1. PICK a \in Arg : Start(p, [set |-> NoSettings, op |-> "use", arg |-> a], "select")
    BY <1>2 DEF StartUse
  <2>2. [set |-> NoSettings, op |-> "use", arg |-> a] \in Cmd
    BY <2>1 DEF Start, Cmd
  <2> QED
    BY <2>1, <2>2, StepsOf, WorkspaceAssumption
<1>3. CASE StartSet(p)
  <2>1. PICK s \in Settings : Start(p, [set |-> s, op |-> "set", arg |-> None], "lock")
    BY <1>3 DEF StartSet
  <2>2. [set |-> s, op |-> "set", arg |-> None] \in Cmd
    BY <2>1 DEF Start, Cmd
  <2> QED
    BY <2>1, <2>2, StepsOf, WorkspaceAssumption
<1>4. CASE StartWhoami(p)
  <2>1. PICK a \in Arg \cup {None} :
          Start(p, [set |-> NoSettings, op |-> "whoami", arg |-> a], "load")
    BY <1>4 DEF StartWhoami
  <2>2. [set |-> NoSettings, op |-> "whoami", arg |-> a] \in Cmd
    BY <2>1 DEF Start, Cmd
  <2> QED
    BY <2>1, <2>2, StepsOf, WorkspaceAssumption
<1> QED
  BY <1>1, <1>2, <1>3, <1>4 DEF Run

(* A command's change to a config.yaml is a config.yaml (config.go       *)
(* 194-215).                                                             *)
LEMMA AppliedType ==
  ASSUME NEW f \in File, NEW c \in Cmd
  PROVE  Applied(f, c) \in File
<1>1. CASE c.op = "use"
  BY <1>1 DEF Applied, File, Cmd
<1>2. CASE c.op # "use"
  <2> DEFINE s == [x \in Field |-> IF c.set[x] = None THEN f.set[x] ELSE c.set[x]]
  <2>1. s \in Settings
    BY DEF File, Cmd, Settings
  <2>2. Applied(f, c) = [f EXCEPT !.set = s]
    BY <1>2 DEF Applied
  <2> QED
    BY <2>1, <2>2 DEF File
<1> QED
  BY <1>1, <1>2

(* The steps of the other processes leave a process's memory alone. *)
LEMMA OthersKeep ==
  ASSUME TypeOK, NEW p \in Proc, Run(p), NEW q \in Proc, q # p
  PROVE  pc'[q] = pc[q] /\ cmd'[q] = cmd[q] /\ seen'[q] = seen[q] /\ draft'[q] = draft[q]
<1> USE DEF TypeOK, Goto
<1>1. ASSUME NEW c, NEW to, Start(p, c, to)
      PROVE  pc'[q] = pc[q] /\ cmd'[q] = cmd[q] /\ seen'[q] = seen[q] /\ draft'[q] = draft[q]
  BY <1>1 DEF Start
<1>2. CASE Save(p) \/ Select(p) \/ Load(p)
  BY <1>2 DEF Save, Select, Load
<1>3. CASE Acquire(p) \/ Refused(p) \/ Read(p) \/ WriteTmp(p) \/ Rename(p) \/ Release(p)
  BY <1>3 DEF Acquire, Enter, Refused, Read, ReadOf, WriteTmp, Rename, Release
<1>4. CASE FailWrite(p) \/ Exit(p) \/ Crash(p)
  BY <1>4 DEF FailWrite, Exit, Crash, Forget
<1> QED
  BY <1>1, <1>2, <1>3, <1>4, RunCases

(* The invariant holds at first.                                         *)
LEMMA InitLock == Init => LockInv
<1> SUFFICES ASSUME Init PROVE LockInv
  OBVIOUS
<1>1. NoSettings \in Settings
  BY DEF NoSettings, Settings
<1>2. EmptyFile \in File /\ NoCmd \in Cmd
  BY <1>1 DEF EmptyFile, File, NoCmd, Cmd
<1>3. PICK g \in Gen :
        entry = [n \in Name |-> IF n \notin Existing THEN None
                               ELSE [did |-> g, handle |-> None,
                                     email |-> None, phone |-> None]]
  BY DEF Init
<1>4. [did |-> g, handle |-> None, email |-> None, phone |-> None] \in Registry!Identity
  BY DEF Registry!Identity
<1>5. /\ entry \in [Name -> Registry!Identity \cup {None}]
      /\ current \in Name \cup {None}
      /\ config \in File \cup {None, Malformed}
  BY <1>3, <1>4, WorkspaceAssumption DEF Init
<1>6. TypeOK
  BY <1>2, <1>5, StepsOf DEF Init, TypeOK, Place, NoCmd
<1>7. HolderAlone /\ HolderFresh
  BY WorkspaceAssumption DEF Init, HolderAlone, HolderFresh
<1> QED
  BY <1>6, <1>7 DEF LockInv

(* Every step keeps the types.                                           *)
LEMMA TypeStep ==
  ASSUME LockInv, NEW p \in Proc, Run(p)
  PROVE  TypeOK'
<1> USE DEF Goto
<1>0. TypeOK /\ HolderAlone /\ HolderFresh
  BY DEF LockInv
<1>e. NoSettings \in Settings /\ EmptyFile \in File /\ NoCmd \in Cmd
  BY DEF NoSettings, Settings, EmptyFile, File, NoCmd, Cmd
<1>i. cmd[p] \in Cmd /\ cmd[p].op \in {"none", "init", "use", "set", "whoami"}
      /\ pc[p] \in Steps(cmd[p].op)
  BY <1>0, Ops DEF TypeOK
<1>a. Arg \subseteq Name \cup OtherName
  BY DEF Arg
<1>1. ASSUME NEW c \in Cmd, NEW to \in {"save", "select", "lock", "load"},
             Start(p, c, to), to \in Steps(c.op), c.op \in {"init", "use"} => c.arg # None
      PROVE  TypeOK'
  <2>1. /\ cmd' \in [Proc -> Cmd] /\ pc' \in [Proc -> Place]
        /\ seen' \in [Proc -> File \cup {None, Malformed}]
    BY <1>0, <1>1 DEF Start, TypeOK, Place
  <2>2. \A q \in Proc : /\ pc'[q] \in Steps(cmd'[q].op)
                        /\ cmd'[q].op \in {"init", "use"} => cmd'[q].arg # None
    BY <1>0, <1>1 DEF Start, TypeOK
  <2> QED
    BY <1>0, <1>1, <2>1, <2>2 DEF Start, TypeOK, registry
<1>2. CASE Save(p)
  <2>1. cmd[p].op = "init" /\ Sanitized(cmd[p].arg) \in Name
    <3>1. cmd[p].op = "init"
      BY <1>2, <1>i, StepsOf DEF Save
    <3>2. cmd[p].arg \in Arg
      BY <1>0, <1>i, <3>1 DEF TypeOK, Cmd
    <3> QED
      BY <3>1, <3>2, WorkspaceAssumption DEF Sanitized, Arg
  <2>2. entry' \in [Name -> Registry!Identity \cup {None}] /\ current' \in Name \cup {None}
    <3> DEFINE n == Sanitized(cmd[p].arg)
    <3>1. ASSUME NEW g \in Gen, Registry!Create(n, g)
          PROVE  entry' \in [Name -> Registry!Identity \cup {None}] /\ current' \in Name \cup {None}
      <4>1. [did |-> g, handle |-> None, email |-> None, phone |-> None] \in Registry!Identity
        BY DEF Registry!Identity
      <4> QED
        BY <1>0, <2>1, <3>1, <4>1 DEF Registry!Create, TypeOK
    <3>2. CASE UNCHANGED registry
      BY <1>0, <3>2 DEF TypeOK, registry
    <3> QED
      BY <1>2, <3>1, <3>2 DEF Save
  <2>3. \A to \in {"ok", "lock", "failed"} : to \in Steps("init") /\ to \in Place
    BY StepsOf DEF Place
  <2> QED
    BY <1>0, <1>2, <2>1, <2>2, <2>3 DEF Save, TypeOK
<1>3. CASE Select(p)
  <2>1. cmd[p].op = "use"
    BY <1>3, <1>i, StepsOf DEF Select
  <2>2. entry' \in [Name -> Registry!Identity \cup {None}] /\ current' \in Name \cup {None}
    BY <1>0, <1>3 DEF Select, Exists, Registry!Select, TypeOK, registry
  <2>3. \A to \in {"lock", "failed"} : to \in Steps("use") /\ to \in Place
    BY StepsOf DEF Place
  <2> QED
    BY <1>0, <1>3, <2>1, <2>2, <2>3 DEF Select, TypeOK
<1>4. CASE Load(p)
  <2>1. cmd[p].op = "whoami"
    BY <1>4, <1>i, StepsOf DEF Load
  <2>2. \A to \in {"ok", "failed"} : to \in Steps("whoami") /\ to \in Place
    BY StepsOf DEF Place
  <2> QED
    BY <1>0, <1>4, <2>1, <2>2 DEF Load, TypeOK, registry
<1>5. CASE Acquire(p)
  <2>1. [set |-> cmd[p].set, identity |-> cmd[p].arg] \in File
    BY <1>i DEF Cmd, File
  <2>2. pc'[p] \in Steps(cmd[p].op) /\ pc' \in [Proc -> Place]
    BY <1>0, <1>5, <1>i, StepsOf DEF Acquire, Enter, TypeOK, Place
  <2> QED
    BY <1>0, <1>5, <2>1, <2>2 DEF Acquire, Enter, TypeOK, registry
<1>6. CASE Read(p)
  <2>1. Applied(IF config \in File THEN config ELSE EmptyFile, cmd[p]) \in File
    BY <1>e, <1>i, AppliedType
  <2>2. pc'[p] \in Steps(cmd[p].op) /\ pc' \in [Proc -> Place]
    BY <1>0, <1>6, <1>i, StepsOf DEF Read, ReadOf, TypeOK, Place
  <2> QED
    BY <1>0, <1>6, <2>1, <2>2 DEF Read, ReadOf, TypeOK, registry
<1>7. CASE Refused(p) \/ WriteTmp(p) \/ Rename(p) \/ Release(p) \/ FailWrite(p)
  <2>1. pc'[p] \in Steps(cmd[p].op) /\ pc' \in [Proc -> Place]
    BY <1>0, <1>7, <1>i, StepsOf
       DEF Refused, WriteTmp, Rename, Release, FailWrite, TypeOK, Place
  <2>2. tmp' \in File \cup {None} /\ config' \in File \cup {None, Malformed}
        /\ lock' \in Proc \cup {None}
    BY <1>0, <1>7 DEF Refused, WriteTmp, Rename, Release, FailWrite, TypeOK
  <2>3. UNCHANGED <<entry, current, cmd, seen, draft>> /\ \A q \in Proc : q # p => pc'[q] = pc[q]
    BY <1>0, <1>7 DEF Refused, WriteTmp, Rename, Release, FailWrite, TypeOK, registry
  <2> QED
    BY <1>0, <2>1, <2>2, <2>3 DEF TypeOK
<1>8. CASE Exit(p) \/ Crash(p)
  <2>1. /\ pc' = [pc EXCEPT ![p] = "idle"] /\ Forget(p)
        /\ lock' \in Proc \cup {None} /\ UNCHANGED <<entry, current, config, tmp>>
    BY <1>0, <1>8 DEF Exit, Crash, TypeOK, registry
  <2>2. /\ cmd' \in [Proc -> Cmd] /\ pc' \in [Proc -> Place] /\ draft' \in [Proc -> File]
        /\ seen' \in [Proc -> File \cup {None, Malformed}]
    BY <1>0, <1>e, <2>1 DEF Forget, TypeOK, Place
  <2>3. \A q \in Proc : /\ pc'[q] \in Steps(cmd'[q].op)
                        /\ cmd'[q].op \in {"init", "use"} => cmd'[q].arg # None
    BY <1>0, <2>1, StepsOf DEF Forget, TypeOK, NoCmd
  <2> QED
    BY <1>0, <2>1, <2>2, <2>3 DEF TypeOK
<1> QED
  BY <1>1, <1>2, <1>3, <1>4, <1>5, <1>6, <1>7, <1>8, RunCases

(* Nobody enters the lock but by Acquire, nor leaves it without releasing. *)
LEMMA HolderStep ==
  ASSUME LockInv, NEW p \in Proc, Run(p)
  PROVE  HolderAlone' /\ HolderFresh'
<1> USE DEF Goto
<1>0. TypeOK /\ HolderAlone /\ HolderFresh /\ TypeOK'
  BY TypeStep DEF LockInv
<1>i. cmd[p] \in Cmd /\ cmd[p].op \in {"none", "init", "use", "set", "whoami"}
      /\ pc[p] \in Steps(cmd[p].op)
  BY <1>0, Ops DEF TypeOK
<1>o. \A q \in Proc : q # p =>
        pc'[q] = pc[q] /\ cmd'[q] = cmd[q] /\ seen'[q] = seen[q] /\ draft'[q] = draft[q]
  BY <1>0, OthersKeep
\* A step that begins and ends outside the lock.
<1>1. ASSUME pc[p] \notin Inside, pc'[p] \notin Inside, UNCHANGED <<config, tmp, lock>>
      PROVE  HolderAlone' /\ HolderFresh'
  BY <1>0, <1>o, <1>1 DEF HolderAlone, HolderFresh, Inside
<1>2. ASSUME NEW c \in Cmd, NEW to \in {"save", "select", "lock", "load"}, Start(p, c, to)
      PROVE  HolderAlone' /\ HolderFresh'
  BY <1>0, <1>1, <1>2 DEF Start, TypeOK, Inside
<1>3. CASE Save(p) \/ Select(p) \/ Load(p) \/ Refused(p)
  BY <1>0, <1>1, <1>3 DEF Save, Select, Load, Refused, TypeOK, Inside
<1>4. CASE Acquire(p)
  <2>1. /\ lock = None /\ lock' = p /\ pc'[p] \in Inside /\ UNCHANGED <<config, tmp>>
        /\ cmd' = cmd /\ pc'[p] = IF cmd[p].op = "init" THEN "write" ELSE "read"
    BY <1>0, <1>4 DEF Acquire, Enter, TypeOK, Inside
  <2>2. \A q \in Proc : pc[q] \notin Inside
    BY <1>0, <2>1, WorkspaceAssumption DEF HolderAlone, Inside
  <2> QED
    BY <1>o, <2>1, <2>2 DEF HolderAlone, HolderFresh, Inside
<1>5. ASSUME pc[p] \in Inside
      PROVE  lock = p /\ \A q \in Proc : q # p => pc[q] \notin Inside /\ pc'[q] \notin Inside
  BY <1>0, <1>5, <1>o DEF HolderAlone, Inside
<1>6. CASE Read(p)
  <2>1. pc[p] \in Inside /\ pc'[p] \in {"write", "abort"} /\ UNCHANGED <<config, tmp, lock, cmd>>
    BY <1>0, <1>6 DEF Read, ReadOf, TypeOK, Inside
  <2>2. pc'[p] = "write" =>
          /\ config # Malformed
          /\ draft'[p] = Applied(IF config \in File THEN config ELSE EmptyFile, cmd[p])
    BY <1>0, <1>6 DEF Read, ReadOf, TypeOK
  <2>3. config # Malformed => (config \in File <=> config # None)
    BY <1>0, WorkspaceAssumption DEF TypeOK
  <2> QED
    BY <1>5, <2>1, <2>2, <2>3 DEF HolderAlone, HolderFresh, Inside
<1>7. CASE WriteTmp(p)
  <2>1. /\ pc[p] = "write" /\ pc'[p] = "rename" /\ tmp' = draft[p]
        /\ UNCHANGED <<config, lock, cmd, draft>>
    BY <1>0, <1>7 DEF WriteTmp, TypeOK
  <2> QED
    BY <1>0, <1>5, <2>1 DEF HolderAlone, HolderFresh, Inside
<1>8. CASE Rename(p) \/ FailWrite(p)
  <2>1. pc[p] \in Inside /\ pc'[p] \in {"commit", "abort"} /\ lock' = lock
    BY <1>0, <1>8 DEF Rename, FailWrite, TypeOK, Inside
  <2> QED
    BY <1>5, <2>1 DEF HolderAlone, HolderFresh, Inside
<1>9. CASE Release(p)
  <2>1. pc[p] \in Inside /\ pc'[p] \in {"ok", "failed"} /\ lock' = None
    BY <1>0, <1>9 DEF Release, TypeOK, Inside
  <2> QED
    BY <1>5, <2>1, WorkspaceAssumption DEF HolderAlone, HolderFresh, Inside
<1>10. CASE Exit(p)
  BY <1>0, <1>1, <1>10 DEF Exit, TypeOK, Inside
<1>11. CASE Crash(p)
  <2>1. pc'[p] = "idle" /\ lock' = (IF lock = p THEN None ELSE lock) /\ UNCHANGED <<config, tmp>>
    BY <1>0, <1>11 DEF Crash, TypeOK
  <2> QED
    BY <1>0, <1>o, <2>1, WorkspaceAssumption DEF HolderAlone, HolderFresh
<1> QED
  BY <1>2, <1>3, <1>4, <1>6, <1>7, <1>8, <1>9, <1>10, <1>11, RunCases

(* Whoever is inside config.yaml.lock is alone there, and what it has    *)
(* read is still what is there.                                          *)
LEMMA LockInvariant == Spec => []LockInv
<1>1. ASSUME LockInv, [Next]_vars
      PROVE  LockInv'
  <2>1. CASE UNCHANGED vars
    BY <1>1, <2>1 DEF LockInv, TypeOK, HolderAlone, HolderFresh, vars
  <2>2. ASSUME NEW p \in Proc, Run(p)
        PROVE  LockInv'
    BY <1>1, <2>2, TypeStep, HolderStep DEF LockInv
  <2> QED
    BY <1>1, <2>1, <2>2 DEF Next
<1> QED
  BY InitLock, <1>1, PTL DEF Spec

(* config.go 194-215: `id use` and `config set` replace config.yaml by that *)
(* very file with their own change, for any number of processes, names and *)
(* settings, whoever dies and whatever fails.                              *)
THEOREM UpdatesAreApplied == Spec => UpdatesApply
<1>1. ASSUME LockInv, [Next]_vars, config' # config
      PROVE  \E p \in Proc :
               /\ pc[p] = "rename"
               /\ cmd[p].op # "init" =>
                    /\ config # Malformed
                    /\ config' = Applied(IF config = None THEN EmptyFile ELSE config, cmd[p])
  <2>1. PICK p \in Proc : Run(p)
    BY <1>1 DEF Next, vars
  <2>2. Rename(p)
    BY <1>1, <2>1, RunCases
       DEF Start, Save, Select, Load, Acquire, Enter, Refused, Read, ReadOf, WriteTmp,
           Release, FailWrite, Exit, Crash
  <2> QED
    BY <1>1, <2>2 DEF LockInv, HolderFresh, Rename, Goto
<1> QED
  BY LockInvariant, <1>1, PTL DEF Spec, UpdatesApply

(* config.go 183-184: processes that run `config set` and `id use` at once *)
(* never take a setting away. With `init` they may: see the run            *)
(* WorkspaceInitClobbers.                                                  *)
THEOREM SettingsAreKept ==
  ASSUME "init" \notin Command
  PROVE  Spec => SettingsKept
<1>1. ASSUME LockInv, [Next]_vars, NEW f \in Field, SettingOf(config, f) # None
      PROVE  SettingOf(config', f) # None
  <2>1. CASE config' = config
    BY <1>1, <2>1
  <2>2. CASE config' # config
    <3>1. config \in File /\ config # None /\ config # Malformed
      BY <1>1, WorkspaceAssumption DEF SettingOf
    <3>2. PICK p \in Proc : pc[p] = "rename" /\ Rename(p)
      <4>1. PICK p \in Proc : Run(p)
        BY <1>1, <2>2 DEF Next, vars
      <4> QED
        BY <2>2, <4>1, RunCases
           DEF Start, Save, Select, Load, Acquire, Enter, Refused, Read, ReadOf, WriteTmp,
               Rename, Release, FailWrite, Exit, Crash, Goto
    <3>3. cmd[p] \in Cmd /\ cmd[p].op # "init"
      BY <1>1, <3>2, StepsOf DEF LockInv, TypeOK, Cmd
    <3>4. config' = Applied(config, cmd[p]) /\ config' \in File
      BY <1>1, <3>1, <3>2, <3>3, AppliedType DEF LockInv, HolderFresh, Rename
    <3>5. config'.set[f] # None
      <4>1. config.set[f] # None
        BY <1>1, <3>1 DEF SettingOf
      <4>2. CASE cmd[p].op = "use"
        BY <3>1, <3>4, <4>1, <4>2 DEF Applied, File
      <4>3. CASE cmd[p].op # "use"
        <5> DEFINE s == [x \in Field |-> IF cmd[p].set[x] = None THEN config.set[x]
                                         ELSE cmd[p].set[x]]
        <5>1. config' = [config EXCEPT !.set = s]
          BY <3>4, <4>3 DEF Applied
        <5>2. config'.set = s
          BY <3>1, <5>1 DEF File
        <5> QED
          BY <4>1, <5>2
      <4> QED
        BY <4>2, <4>3
    <3> QED
      BY <3>4, <3>5 DEF SettingOf
  <2> QED
    BY <2>1, <2>2
<1>2. LockInv /\ [Next]_vars =>
        \A f \in Field : SettingOf(config, f) # None => SettingOf(config', f) # None
  BY <1>1
<1> QED
  BY LockInvariant, <1>2, PTL DEF Spec, SettingsKept

(* The rest of IInv needs that names are given as they are stored: with a  *)
(* name that sanitizeName rewrites it is false (README, Disagreements).    *)
LEMMA NamesStep ==
  ASSUME OtherName = {}, IInv, NEW p \in Proc, Run(p)
  PROVE  NamesExist'
<1> USE DEF Goto
<1>0. /\ LockInv /\ TypeOK /\ HolderAlone /\ HolderFresh /\ NamesExist
      /\ TypeOK' /\ HolderAlone' /\ HolderFresh'
  BY TypeStep, HolderStep DEF IInv, LockInv
<1>i. cmd[p] \in Cmd /\ cmd[p].op \in {"none", "init", "use", "set", "whoami"}
      /\ pc[p] \in Steps(cmd[p].op)
  BY <1>0, Ops DEF TypeOK
<1>o. \A q \in Proc : q # p =>
        pc'[q] = pc[q] /\ cmd'[q] = cmd[q] /\ seen'[q] = seen[q] /\ draft'[q] = draft[q]
  BY <1>0, OthersKeep
<1>n. Arg = Name /\ \A a \in Arg : Sanitized(a) = a
  BY DEF Arg, Sanitized
\* No identity ever goes away.
<1>k. \A a : Exists(a) => Exists(a)'
  <2>1. CASE UNCHANGED entry
    BY <2>1 DEF Exists
  <2>2. CASE entry' # entry
    <3>1. Save(p)
      BY <2>2, RunCases
         DEF Start, Select, Load, Acquire, Enter, Refused, Read, ReadOf, WriteTmp,
             Rename, Release, FailWrite, Exit, Crash, Registry!Select, registry
    <3>2. PICK g \in Gen : Registry!Create(Sanitized(cmd[p].arg), g)
      BY <2>2, <3>1 DEF Save, registry
    <3> QED
      BY <1>0, <3>2 DEF Exists, Registry!Create, TypeOK
  <2> QED
    BY <2>1, <2>2
<1>m. Configured(None) = None
  BY WorkspaceAssumption DEF Configured
<1>1. ASSUME ConfigNamed', ProcNamed(p)'
      PROVE  NamesExist'
  BY <1>0, <1>1, <1>k, <1>o DEF NamesExist, ProcNamed
\* A step that leaves config.yaml, and what p knows of it, alone.
<1>2. ASSUME config' = config, cmd'[p] = cmd[p], seen'[p] = seen[p],
             pc'[p] \in {"lock", "read", "write", "rename"} =>
               /\ pc[p] \in {"lock", "read", "write", "rename"}
               /\ cmd[p].op = "init" /\ pc'[p] \in {"write", "rename"} =>
                    draft'[p].identity = cmd[p].arg
      PROVE  NamesExist'
  BY <1>0, <1>1, <1>2, <1>k DEF NamesExist, ConfigNamed, ProcNamed
<1>3. ASSUME NEW c \in Cmd, NEW to \in {"save", "select", "lock", "load"},
             Start(p, c, to), c.op \in {"init", "use"} => to # "lock"
      PROVE  NamesExist'
  <2>1. seen'[p] = config /\ config' = config /\ cmd'[p] = c /\ pc'[p] = to
    BY <1>0, <1>3 DEF Start, TypeOK
  <2> QED
    BY <1>0, <1>1, <1>3, <1>k, <2>1 DEF NamesExist, ConfigNamed, ProcNamed
<1>4. CASE Save(p)
  <2>1. cmd[p].op = "init" /\ cmd[p].arg \in Name /\ Sanitized(cmd[p].arg) = cmd[p].arg
    BY <1>0, <1>4, <1>i, <1>n, StepsOf DEF Save, TypeOK, Cmd
  <2>2. pc'[p] = "lock" => Exists(cmd[p].arg)'
    <3>1. SUFFICES ASSUME pc'[p] = "lock" PROVE Exists(cmd[p].arg)'
      OBVIOUS
    <3>2. PICK g \in Gen : Registry!Create(cmd[p].arg, g)
      BY <1>0, <1>4, <2>1, <3>1 DEF Save, TypeOK
    <3>3. [did |-> g, handle |-> None, email |-> None, phone |-> None] # None
      BY WorkspaceAssumption
    <3>4. entry'[cmd[p].arg] # None
      BY <1>0, <2>1, <3>2, <3>3 DEF Registry!Create, TypeOK
    <3>5. cmd' = cmd
      BY <1>4 DEF Save
    <3> QED
      BY <2>1, <3>4, <3>5 DEF Exists
  <2> QED
    BY <1>0, <1>1, <1>4, <1>k, <2>1, <2>2 DEF Save, NamesExist, ConfigNamed, ProcNamed, TypeOK
<1>5. CASE Select(p)
  <2>1. pc'[p] = "lock" => Exists(cmd[p].arg)
    BY <1>0, <1>5 DEF Select, TypeOK
  <2>2. cmd[p].op = "use"
    BY <1>5, <1>i, StepsOf DEF Select
  <2> QED
    BY <1>0, <1>1, <1>5, <1>k, <2>1, <2>2
       DEF Select, NamesExist, ConfigNamed, ProcNamed, TypeOK
<1>6. CASE Load(p) \/ Refused(p) \/ Release(p) \/ FailWrite(p)
  BY <1>0, <1>2, <1>6 DEF Load, Refused, Release, FailWrite, TypeOK
<1>7. CASE Acquire(p)
  <2>1. cmd[p].op = "init" => draft'[p].identity = cmd[p].arg
    BY <1>0, <1>7 DEF Acquire, Enter, TypeOK
  <2>2. pc[p] = "lock" /\ cmd' = cmd /\ config' = config /\ seen' = seen
    BY <1>7 DEF Acquire, Enter
  <2> QED
    BY <1>2, <2>1, <2>2
<1>8. CASE Read(p)
  <2>1. cmd[p].op # "init"
    BY <1>8, <1>i, StepsOf DEF Read, ReadOf
  <2> QED
    BY <1>0, <1>2, <1>8, <2>1 DEF Read, ReadOf, TypeOK
<1>9. CASE WriteTmp(p)
  <2>1. draft' = draft /\ pc[p] = "write"
    BY <1>9 DEF WriteTmp
  <2>2. cmd[p].op = "init" => draft[p].identity = cmd[p].arg
    BY <1>0, <2>1 DEF NamesExist, ProcNamed
  <2> QED
    BY <1>0, <1>2, <1>9, <2>1, <2>2 DEF WriteTmp, TypeOK
<1>10. CASE Rename(p)
  <2>1. pc[p] = "rename" /\ config' = draft[p] /\ pc'[p] = "commit" /\ cmd' = cmd /\ seen' = seen
    BY <1>0, <1>10 DEF Rename, HolderFresh, TypeOK
  <2>2. Configured(config') \in {Configured(config), None, cmd[p].arg}
          /\ (Configured(config') = cmd[p].arg =>
                cmd[p].op \in {"init", "use"} \/ Configured(config') = Configured(config)
                \/ Configured(config') = None)
    <3>1. CASE cmd[p].op = "init"
      BY <1>0, <2>1, <3>1 DEF NamesExist, ProcNamed, Configured
    <3>2. CASE cmd[p].op = "use"
      <4>1. config' = [(IF config = None THEN EmptyFile ELSE config) EXCEPT !.identity = cmd[p].arg]
        BY <1>0, <2>1, <3>2 DEF HolderFresh, Applied
      <4>2. (IF config = None THEN EmptyFile ELSE config) \in File
        BY <1>0, <2>1, <3>2 DEF HolderFresh, TypeOK, EmptyFile, NoSettings, File, Settings
      <4> QED
        BY <3>2, <4>1, <4>2 DEF Configured, File
    <3>3. CASE cmd[p].op \notin {"init", "use"}
      <4>1. config' = Applied(IF config = None THEN EmptyFile ELSE config, cmd[p])
            /\ config # Malformed
        BY <1>0, <2>1, <3>3 DEF HolderFresh
      <4>2. (IF config = None THEN EmptyFile ELSE config) \in File
        BY <1>0, <4>1 DEF TypeOK, EmptyFile, NoSettings, File, Settings
      <4>3. config'.identity = (IF config = None THEN EmptyFile ELSE config).identity
        BY <3>3, <4>1, <4>2 DEF Applied, File
      <4> QED
        BY <1>0, <4>1, <4>3, WorkspaceAssumption DEF Configured, EmptyFile, TypeOK
    <3> QED
      BY <3>1, <3>2, <3>3
  <2>3. ConfigNamed'
    BY <1>0, <1>k, <2>1, <2>2 DEF ConfigNamed, NamesExist, ProcNamed
  <2> QED
    BY <1>0, <1>1, <1>k, <2>1, <2>3 DEF NamesExist, ProcNamed
<1>11. CASE Exit(p) \/ Crash(p)
  <2>1. config' = config /\ pc'[p] = "idle" /\ seen'[p] = None
    BY <1>0, <1>11 DEF Exit, Crash, Forget, TypeOK
  <2> QED
    BY <1>0, <1>1, <1>k, <1>m, <2>1 DEF NamesExist, ConfigNamed, ProcNamed
<1> QED
  BY <1>3, <1>4, <1>5, <1>6, <1>7, <1>8, <1>9, <1>10, <1>11, RunCases

(* The invariant that a run checks holds of every state: what a command  *)
(* or config.yaml names has been created in the store, for any processes *)
(* and settings and for names that sanitizeName leaves alone.            *)
THEOREM InductiveInvariant ==
  ASSUME OtherName = {}
  PROVE  Spec => []IInv
<1>1. Init => IInv
  <2>1. Init => NamesExist
    BY WorkspaceAssumption DEF Init, NamesExist, ConfigNamed, ProcNamed, Configured, NoCmd
  <2> QED
    BY <2>1, InitLock DEF LockInv, IInv
<1>2. IInv /\ [Next]_vars => IInv'
  <2> SUFFICES ASSUME IInv, [Next]_vars PROVE IInv'
    OBVIOUS
  <2>1. CASE UNCHANGED vars
    BY <2>1 DEF IInv, TypeOK, HolderAlone, HolderFresh, NamesExist, ConfigNamed, ProcNamed,
                Exists, vars
  <2>2. ASSUME NEW p \in Proc, Run(p)
        PROVE  IInv'
    BY <2>2, TypeStep, HolderStep, NamesStep DEF LockInv, IInv
  <2> QED
    BY <2>1, <2>2 DEF Next
<1> QED
  BY <1>1, <1>2, PTL DEF Spec

(* root.go 270-292, id.go 88-98, app.go 139-151: what config.yaml names is *)
(* in the store when it is loaded, although the two are written under two  *)
(* locks and read under none.                                              *)
THEOREM WhoamiFindsIdentity ==
  ASSUME OtherName = {}
  PROVE  Spec => []WhoamiFinds
<1>1. Init => WhoamiFinds
  BY DEF Init, WhoamiFinds, NoCmd
<1>2. IInv /\ WhoamiFinds /\ [Next]_vars => WhoamiFinds'
  <2> SUFFICES ASSUME IInv, WhoamiFinds, [Next]_vars PROVE WhoamiFinds'
    OBVIOUS
  <2>0. LockInv /\ TypeOK
    BY DEF IInv, LockInv
  <2>1. CASE UNCHANGED vars
    BY <2>1 DEF WhoamiFinds, vars
  <2>2. ASSUME NEW p \in Proc, Run(p)
        PROVE  WhoamiFinds'
    <3> USE DEF Goto
    <3>i. cmd[p] \in Cmd /\ pc[p] \in Steps(cmd[p].op)
      BY <2>0 DEF TypeOK
    <3>1. ASSUME pc'[p] # "failed" \/ cmd'[p].op # "whoami" \/ Configured(seen'[p]) = None
                 \/ cmd'[p].arg # None
          PROVE  WhoamiFinds'
      BY <2>0, <2>2, <3>1, OthersKeep DEF WhoamiFinds
    <3>2. ASSUME NEW c \in Cmd, NEW to \in {"save", "select", "lock", "load"}, Start(p, c, to)
          PROVE  WhoamiFinds'
      BY <2>0, <3>1, <3>2 DEF Start, TypeOK
    <3>3. CASE Load(p)
      <4>1. Configured(seen[p]) # None => Exists(Configured(seen[p]))
        BY DEF IInv, NamesExist, ProcNamed
      <4> QED
        BY <2>0, <3>1, <3>3, <4>1 DEF Load, TypeOK
    <3>4. CASE Save(p) \/ Select(p) \/ Acquire(p) \/ Refused(p) \/ Read(p) \/ WriteTmp(p)
               \/ Rename(p) \/ Release(p) \/ FailWrite(p)
      <4>1. cmd' = cmd /\ cmd[p].op # "whoami"
        BY <3>4, <3>i, StepsOf
           DEF Save, Select, Acquire, Enter, Refused, Read, ReadOf, WriteTmp, Rename,
               Release, FailWrite
      <4> QED
        BY <3>1, <4>1
    <3>5. CASE Exit(p) \/ Crash(p)
      BY <2>0, <3>1, <3>5 DEF Exit, Crash, TypeOK
    <3> QED
      BY <2>2, <3>2, <3>3, <3>4, <3>5, RunCases
  <2> QED
    BY <2>1, <2>2 DEF Next
<1> QED
  BY InductiveInvariant, <1>1, <1>2, PTL DEF Spec
=============================================================================
