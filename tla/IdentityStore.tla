--------------------------- MODULE IdentityStore ---------------------------
(***************************************************************************)
(* The on-disk identity store of internal/identity/store.go, used at the   *)
(* same time by several anp-cli processes that share one workspace:        *)
(*                                                                         *)
(*   identities/index.json        rewritten under identities/index.json.lock*)
(*   identities/<name>/did.json   written once, by Save                    *)
(*   identities/<name>/key-*.pem  written before did.json, file by file    *)
(*                                                                         *)
(* Save, SetCurrent, SetHandle and SetContact take the lock and go through *)
(* read, check, temporary file and rename; Load takes no lock.  A process  *)
(* may die, and a file operation may fail, between any two steps.          *)
(***************************************************************************)
EXTENDS Naturals

CONSTANTS
  Proc,     \* anp-cli processes; each runs one operation at a time
  Name,     \* local identity names, as sanitizeName returns them
  Gen,      \* generated identities: a DID with its key material
  Handle,   \* WNS handles
  Email,    \* local contact metadata
  Phone,
  None,     \* the empty string, a missing file, no value
  Torn,     \* the content of a file whose writing has not finished
  LastKey,  \* number of key files; they are written in the order 1..LastKey
  Blocking, \* TRUE: flock(2) waits; FALSE: LockFileEx fails immediately
  MayFail   \* whether processes die and file operations fail

ASSUME StoreAssumption ==
  /\ None \notin Proc \cup Name \cup Gen \cup Handle \cup Email \cup Phone
  /\ None \notin [did : Gen, handle : Handle \cup {None},
                  email : Email \cup {None}, phone : Phone \cup {None}]
  /\ Torn \notin Gen \cup {None}
  /\ LastKey \in Nat \ {0}
  /\ Blocking \in BOOLEAN
  /\ MayFail \in BOOLEAN

VARIABLES
  index,    \* index.json
  indexTmp, \* index.json.tmp
  didFile,  \* didFile[n]: identities/n/did.json
  didTmp,   \* didTmp[n]: identities/n/did.json.tmp
  keyFile,  \* keyFile[n][k]: the k-th key file of identities/n
  lock,     \* the holder of index.json.lock, or None
  used,     \* the generations drawn so far (key material is random)
  pc,       \* pc[p]: what process p does next
  req,      \* req[p]: the call p executes
  snap,     \* snap[p]: the index p read, with p's change once applied
  step,     \* step[p]: the key file p writes next
  view      \* view[p]: the identity p's Load has read so far

disk == <<index, indexTmp, didFile, didTmp, keyFile>>
vars == <<index, indexTmp, didFile, didTmp, keyFile, lock, used,
          pc, req, snap, step, view>>
-----------------------------------------------------------------------------
Item == [did : Gen, handle : Handle \cup {None}, email : Email \cup {None},
         phone : Phone \cup {None}, name : Name]
Index == [current : Name \cup {None}, items : SUBSET Item]
EmptyIndex == [current |-> None, items |-> {}]

Writes == {"Save", "SetCurrent", "SetHandle", "SetContact"}
Request == [handle : Handle \cup {None}, email : Email \cup {None},
            phone : Phone \cup {None}, name : Name \cup {None},
            op : Writes \cup {"Load", "none"}, gen : Gen \cup {None}]
NoRequest == [handle |-> None, email |-> None, phone |-> None, name |-> None,
              op |-> "none", gen |-> None]

View == [did : Gen \cup {None}, handle : Handle \cup {None}, name : Name \cup {None},
         keys : SUBSET (1..LastKey), signer : Gen \cup {None, Torn}]
NoView == [did |-> None, handle |-> None, name |-> None, keys |-> {}, signer |-> None]

\* The steps between Acquire and Release.
Locked == {"read", "check", "truncate", "fill", "didTmp", "didRename",
           "indexTmp", "indexRename", "unlock"}
Unlocked == {"idle", "lock", "current", "did", "meta", "stat", "signer", "loaded"}

Named(items, n) == {it \in items : it.name = n}
-----------------------------------------------------------------------------
(* The four changes a writer makes to the index it has read.  The code     *)
(* stops at the first item of that name; the invariant IndexSound says     *)
(* that there is only one.                                                 *)
NewItem(r) == [did |-> r.gen, handle |-> r.handle, email |-> None, phone |-> None,
               name |-> r.name]

WithHandle(it, r) ==
  IF it.name = r.name THEN [it EXCEPT !.handle = r.handle] ELSE it

WithContact(it, r) ==
  IF it.name = r.name
  THEN [it EXCEPT !.email = IF r.email = None THEN @ ELSE r.email,
                  !.phone = IF r.phone = None THEN @ ELSE r.phone]
  ELSE it

Changed(ix, r) ==
  CASE r.op = "Save" ->
         [current |-> IF ix.current = None THEN r.name ELSE ix.current,
          items |-> ix.items \cup {NewItem(r)}]
    [] r.op = "SetCurrent" -> [ix EXCEPT !.current = r.name]
    [] r.op = "SetHandle" -> [ix EXCEPT !.items = {WithHandle(it, r) : it \in @}]
    [] r.op = "SetContact" -> [ix EXCEPT !.items = {WithContact(it, r) : it \in @}]
-----------------------------------------------------------------------------
Init ==
  /\ index = EmptyIndex
  /\ indexTmp = None
  /\ didFile = [n \in Name |-> None]
  /\ didTmp = [n \in Name |-> None]
  /\ keyFile = [n \in Name |-> [k \in 1..LastKey |-> None]]
  /\ lock = None
  /\ used = {}
  /\ pc = [p \in Proc |-> "idle"]
  /\ req = [p \in Proc |-> NoRequest]
  /\ snap = [p \in Proc |-> EmptyIndex]
  /\ step = [p \in Proc |-> 1]
  /\ view = [p \in Proc |-> NoView]

Goto(p, from, to) ==
  /\ pc[p] = from
  /\ pc' = [pc EXCEPT ![p] = to]

\* p's call returns or p dies: nothing of it is left in memory.
Forget(p) ==
  /\ req' = [req EXCEPT ![p] = NoRequest]
  /\ snap' = [snap EXCEPT ![p] = EmptyIndex]
  /\ step' = [step EXCEPT ![p] = 1]
  /\ view' = [view EXCEPT ![p] = NoView]

Call(p, r, to) ==
  /\ Goto(p, "idle", to)
  /\ req' = [req EXCEPT ![p] = r]
  /\ UNCHANGED <<disk, lock, snap, step, view>>

\* `init`: Generate draws fresh key material before Save is called.
CallSave(p) ==
  \E n \in Name, g \in Gen \ used :
    /\ Call(p, [NoRequest EXCEPT !.op = "Save", !.name = n, !.gen = g], "lock")
    /\ used' = used \cup {g}

CallSetCurrent(p) ==
  \E n \in Name :
    /\ Call(p, [NoRequest EXCEPT !.op = "SetCurrent", !.name = n], "lock")
    /\ UNCHANGED used

CallSetHandle(p) ==
  \E n \in Name, h \in Handle :
    /\ Call(p, [NoRequest EXCEPT !.op = "SetHandle", !.name = n, !.handle = h],
            "lock")
    /\ UNCHANGED used

CallSetContact(p) ==
  \E n \in Name, e \in Email \cup {None}, f \in Phone \cup {None} :
    /\ Call(p, [NoRequest EXCEPT !.op = "SetContact", !.name = n, !.email = e,
                                 !.phone = f], "lock")
    /\ UNCHANGED used

\* An empty name means the index's current identity.
CallLoad(p) ==
  \E n \in Name \cup {None} :
    /\ Call(p, [NoRequest EXCEPT !.op = "Load", !.name = n],
            IF n = None THEN "current" ELSE "did")
    /\ UNCHANGED used
-----------------------------------------------------------------------------
(* Writers. *)

\* A mutant: no lock is taken.
AcquireUnlocked(p) ==
  /\ Goto(p, "lock", "read")
  /\ lock' = p
  /\ UNCHANGED <<disk, used, req, snap, step, view>>

\* lockIndex: flock(2) waits until nobody holds the lock.
Acquire(p) ==
  /\ lock = None
  /\ Goto(p, "lock", "read")
  /\ lock' = p
  /\ UNCHANGED <<disk, used, req, snap, step, view>>

\* Windows: the lock is held elsewhere and the operation fails at once.
Refused(p) ==
  /\ ~Blocking
  /\ lock # None
  /\ Goto(p, "lock", "idle")
  /\ Forget(p)
  /\ UNCHANGED <<disk, lock, used>>

ReadIndex(p) ==
  /\ Goto(p, "read", "check")
  /\ snap' = [snap EXCEPT ![p] = index]
  /\ UNCHANGED <<disk, lock, used, req, step, view>>

\* Save goes to a step of its own when the name's did.json exists.
CheckSaveThen(p, exists) ==
  /\ req[p].op = "Save"
  /\ Goto(p, "check", IF didFile[req[p].name] # None THEN exists ELSE "truncate")
  /\ UNCHANGED <<disk, lock, used, req, snap, step, view>>

CheckSaveNothing(p) == CheckSaveThen(p, "truncate") \* a mutant: overwrite
CheckSaveRetries(p) == CheckSaveThen(p, "check")    \* a mutant: try again, locked

\* Save refuses a name whose did.json exists.
CheckSave(p) == CheckSaveThen(p, "unlock")

\* A mutant: the name is not looked up in the index.
CheckListedNothing(p) ==
  /\ req[p].op # "Save"
  /\ Goto(p, "check", "indexTmp")
  /\ UNCHANGED <<disk, lock, used, req, snap, step, view>>

\* The other writers refuse a name the index does not list.
CheckListed(p) ==
  /\ req[p].op # "Save"
  /\ Goto(p, "check",
          IF Named(snap[p].items, req[p].name) = {} THEN "unlock" ELSE "indexTmp")
  /\ UNCHANGED <<disk, lock, used, req, snap, step, view>>

\* writeFileMode is not atomic: os.WriteFile truncates, then writes.
TruncateKey(p) ==
  /\ Goto(p, "truncate", "fill")
  /\ keyFile' = [keyFile EXCEPT ![req[p].name][step[p]] = Torn]
  /\ UNCHANGED <<index, indexTmp, didFile, didTmp, lock, used, req, snap, step, view>>

\* Once key file number last is written, did.json comes next.
FillThrough(p, last) ==
  /\ Goto(p, "fill", IF step[p] = last THEN "didTmp" ELSE "truncate")
  /\ keyFile' = [keyFile EXCEPT ![req[p].name][step[p]] = req[p].gen]
  /\ step' = [step EXCEPT ![p] = IF @ = last THEN 1 ELSE @ + 1]
  /\ UNCHANGED <<index, indexTmp, didFile, didTmp, lock, used, req, snap, view>>

FillOneKey(p) == FillThrough(p, 1)           \* a mutant: one key file only
FillKey(p) == FillThrough(p, LastKey)

\* writeJSONAtomic(did.json): the whole document goes to did.json.tmp.
WriteDidTmp(p) ==
  /\ Goto(p, "didTmp", "didRename")
  /\ didTmp' = [didTmp EXCEPT ![req[p].name] = req[p].gen]
  /\ UNCHANGED <<index, indexTmp, didFile, keyFile, lock, used, req, snap, step, view>>

RenameDid(p) ==
  LET n == req[p].name IN
  /\ Goto(p, "didRename", "indexTmp")
  /\ didFile' = [didFile EXCEPT ![n] = didTmp[n]]
  /\ didTmp' = [didTmp EXCEPT ![n] = None]
  /\ UNCHANGED <<index, indexTmp, keyFile, lock, used, req, snap, step, view>>

\* writeIndex: the changed copy of the index goes to index.json.tmp.
WriteIndexTmp(p) ==
  LET changed == Changed(snap[p], req[p]) IN
  /\ Goto(p, "indexTmp", "indexRename")
  /\ snap' = [snap EXCEPT ![p] = changed]
  /\ indexTmp' = changed
  /\ UNCHANGED <<index, didFile, didTmp, keyFile, lock, used, req, step, view>>

RenameIndex(p) ==
  /\ Goto(p, "indexRename", "unlock")
  /\ index' = indexTmp
  /\ indexTmp' = None
  /\ UNCHANGED <<didFile, didTmp, keyFile, lock, used, req, snap, step, view>>

\* The deferred unlockIndex, on success and on every error alike.
Release(p) ==
  /\ Goto(p, "unlock", "idle")
  /\ lock' = None
  /\ Forget(p)
  /\ UNCHANGED <<disk, used>>

\* A file operation fails (disk full, permissions): the call returns the error.
FailWrite(p) ==
  /\ MayFail
  /\ pc[p] \in Locked \ {"check", "unlock"}
  /\ pc' = [pc EXCEPT ![p] = "unlock"]
  /\ UNCHANGED <<disk, lock, used, req, snap, step, view>>
-----------------------------------------------------------------------------
(* Load, and SignerFor on the identity it returns. *)

\* Load(""): the name is the index's current one; none is an error.
ReadCurrent(p) ==
  /\ Goto(p, "current", IF index.current = None THEN "loaded" ELSE "did")
  /\ req' = [req EXCEPT ![p] = [@ EXCEPT !.name = index.current]]
  /\ UNCHANGED <<disk, lock, used, snap, step, view>>

ReadDid(p) ==
  LET n == req[p].name IN
  /\ Goto(p, "did", IF didFile[n] = None THEN "loaded" ELSE "meta")
  /\ view' = IF didFile[n] = None
             THEN view
             ELSE [view EXCEPT ![p] = [@ EXCEPT !.name = n, !.did = didFile[n]]]
  /\ UNCHANGED <<disk, lock, used, req, snap, step>>

\* The second read of the index; its error is ignored, as is a missing item.
ReadMeta(p) ==
  /\ Goto(p, "meta", "stat")
  /\ \/ \E it \in Named(index.items, view[p].name) :
          view' = [view EXCEPT ![p] = [@ EXCEPT !.handle = it.handle]]
     \/ /\ MayFail \/ Named(index.items, view[p].name) = {}
        /\ view' = view
  /\ UNCHANGED <<disk, lock, used, req, snap, step>>

\* fileExists on the key files.
StatKeys(p) ==
  /\ Goto(p, "stat", "signer")
  /\ view' = [view EXCEPT ![p] = [@ EXCEPT !.keys =
                {k \in 1..LastKey : keyFile[view[p].name][k] # None}]]
  /\ UNCHANGED <<disk, lock, used, req, snap, step>>

\* SignerFor reads key-1-private.pem.
ReadSigner(p) ==
  /\ Goto(p, "signer", "loaded")
  /\ view' = [view EXCEPT ![p] = [@ EXCEPT !.signer = keyFile[view[p].name][1]]]
  /\ UNCHANGED <<disk, lock, used, req, snap, step>>

Return(p) ==
  /\ Goto(p, "loaded", "idle")
  /\ Forget(p)
  /\ UNCHANGED <<disk, lock, used>>
-----------------------------------------------------------------------------
\* The process dies; the kernel closes its files and so drops its lock.
Crash(p) ==
  /\ MayFail
  /\ pc[p] # "idle"
  /\ pc' = [pc EXCEPT ![p] = "idle"]
  /\ lock' = IF lock = p THEN None ELSE lock
  /\ Forget(p)
  /\ UNCHANGED <<disk, used>>

Start(p) == CallSave(p) \/ CallSetCurrent(p) \/ CallSetHandle(p)
            \/ CallSetContact(p) \/ CallLoad(p)

Write(p) == Refused(p) \/ ReadIndex(p) \/ CheckSave(p) \/ CheckListed(p)
            \/ TruncateKey(p) \/ FillKey(p) \/ WriteDidTmp(p) \/ RenameDid(p)
            \/ WriteIndexTmp(p) \/ RenameIndex(p) \/ Release(p)

Read(p) == ReadCurrent(p) \/ ReadDid(p) \/ ReadMeta(p) \/ StatKeys(p)
           \/ ReadSigner(p) \/ Return(p)

Run(p) == Start(p) \/ Acquire(p) \/ Write(p) \/ Read(p) \/ FailWrite(p) \/ Crash(p)

Next == \E p \in Proc : Run(p)

Spec == Init /\ [][Next]_vars

(* A running process goes on, and the kernel hands a lock that is released *)
(* again and again to a waiter sooner or later (flock queues its waiters). *)
Fairness == \A p \in Proc : /\ WF_vars(Write(p) \/ Read(p))
                            /\ SF_vars(Acquire(p))
FairSpec == Spec /\ Fairness
-----------------------------------------------------------------------------
(* Properties. *)

TypeOK ==
  /\ index \in Index
  /\ indexTmp \in Index \cup {None}
  /\ didFile \in [Name -> Gen \cup {None}]
  /\ didTmp \in [Name -> Gen \cup {None}]
  /\ keyFile \in [Name -> [1..LastKey -> Gen \cup {None, Torn}]]
  /\ lock \in Proc \cup {None}
  /\ used \in SUBSET Gen
  /\ pc \in [Proc -> Locked \cup Unlocked]
  /\ req \in [Proc -> Request]
  /\ snap \in [Proc -> Index]
  /\ step \in [Proc -> 1..LastKey]
  /\ view \in [Proc -> View]

(* did.json is the commit point of an identity: wherever it exists, every  *)
(* key file of that directory is complete and belongs to the same          *)
(* generation, though the key files are written one by one, not            *)
(* atomically, and an earlier Save may have died half-way (store.go        *)
(* 141-159).                                                               *)
KeysComplete ==
  \A n \in Name : didFile[n] # None =>
    \A k \in 1..LastKey : keyFile[n][k] = didFile[n]

(* The index describes the directories: its names are unique, each item's  *)
(* DID is the one in that directory's did.json, and the default identity   *)
(* is one of the items (store.go 168-175, 206-211).                        *)
IndexSound ==
  /\ \A it1, it2 \in index.items : it1.name = it2.name => it1 = it2
  /\ \A it \in index.items : didFile[it.name] = it.did
  /\ index.current # None => Named(index.items, index.current) # {}

(* Load and SignerFor take no lock and read four files one after the other *)
(* while writers run; whatever they return still fits together: the signing*)
(* key and the key files are the document's, and the handle was recorded   *)
(* for that very DID (store.go 215-273, service.go 65-78).                 *)
LoadSound ==
  \A p \in Proc : (pc[p] = "loaded" /\ view[p].did # None) =>
    /\ view[p].signer = view[p].did
    /\ view[p].keys = 1..LastKey
    /\ view[p].handle # None =>
         \E it \in Named(index.items, view[p].name) : it.did = view[p].did

(* "Refuse to overwrite an existing identity": once a did.json is there,   *)
(* neither it nor a key file beside it ever changes, also when several     *)
(* processes save the same name at once (store.go 124-127).                *)
IdentityKept ==
  [][\A n \in Name : didFile[n] # None =>
       didFile'[n] = didFile[n] /\ keyFile'[n] = keyFile[n]]_vars

\* did.json is there, the index does not list it, and no Save will.
Orphan(n) ==
  /\ didFile[n] # None
  /\ Named(index.items, n) = {}
  /\ \A p \in Proc : req[p].op = "Save" /\ req[p].name = n =>
       pc[p] \notin {"indexTmp", "indexRename"}

(* A Save that stops between its two renames burns the name: no later call *)
(* lists it, selects it or saves over it (store.go 125, 157, 173).         *)
OrphansAreForever ==
  [][\A n \in Name : Orphan(n) => Orphan(n)']_vars

(* Without a crash or a failed file operation the directories and the      *)
(* index agree whenever no writer is at work (store.go 157-173).           *)
OnDiskIffListed ==
  lock = None =>
    {n \in Name : didFile[n] # None} = {it.name : it \in index.items}

(* Every call returns: a writer that gives up early releases the lock all  *)
(* the same (the deferred unlockIndex), so the others get it.              *)
CallsReturn == \A p \in Proc : pc[p] # "idle" ~> pc[p] = "idle"

(* Every change of index.json is exactly one operation of the abstract     *)
(* registry applied to the index as it is at that moment: no concurrent or *)
(* interrupted writer loses or repeats another's update (store.go 107-321).*)
Fields(it) == [did |-> it.did, handle |-> it.handle,
               email |-> it.email, phone |-> it.phone]

Entry(items, n) ==
  IF Named(items, n) = {} THEN None
  ELSE Fields(CHOOSE it \in Named(items, n) : TRUE)

Registry == INSTANCE IdentityRegistry
              WITH entry <- [n \in Name |-> Entry(index.items, n)], current <- index.current

RegistrySpec == Registry!Spec

(* What a writer knows while it holds the lock: it is alone, the index is  *)
(* as it read it, and the files it has written so far are its own.  This   *)
(* is the part of the inductive invariant that the other properties need.  *)
WriterAlone ==
  /\ \A p \in Proc : pc[p] \in Locked <=> lock = p
  /\ \A p \in Proc : pc[p] \in Locked \cup {"lock"} <=> req[p].op \in Writes
WriterFresh ==
  \A p \in Proc :
    /\ pc[p] \in Locked \ {"read", "indexRename", "unlock"} => snap[p] = index
    /\ pc[p] = "indexRename" => indexTmp = Changed(index, req[p])
    /\ pc[p] \in {"idle", "lock", "read", "check"} => step[p] = 1
    /\ req[p].op \in Writes => req[p].name \in Name
    /\ req[p].op = "Save" => req[p].gen \in Gen /\ req[p].handle = None
    /\ req[p].op = "SetHandle" => req[p].handle \in Handle
    /\ req[p].op # "Save" /\ pc[p] \in {"indexTmp", "indexRename"} =>
         Named(index.items, req[p].name) # {}
SaveAt(p) ==
  LET n == req[p].name IN
    /\ pc[p] \in {"truncate", "fill", "didTmp", "didRename"} =>
         /\ req[p].op = "Save"
         /\ didFile[n] = None
    /\ pc[p] \in {"truncate", "fill"} =>
         \A k \in 1..(step[p] - 1) : keyFile[n][k] = req[p].gen
    /\ pc[p] \in {"didTmp", "didRename"} =>
         \A k \in 1..LastKey : keyFile[n][k] = req[p].gen
    /\ pc[p] = "didRename" => didTmp[n] = req[p].gen
    /\ pc[p] \in {"indexTmp", "indexRename"} /\ req[p].op = "Save" =>
         /\ didFile[n] = req[p].gen
         /\ Named(index.items, n) = {}
LoadAt(p) ==
  /\ pc[p] \notin {"meta", "stat", "signer", "loaded"} => view[p] = NoView
  /\ pc[p] \in {"did", "meta", "stat", "signer"} => req[p].name \in Name
  /\ pc[p] \in {"meta", "stat", "signer", "loaded"} /\ view[p].did # None =>
       /\ view[p].name \in Name
       /\ didFile[view[p].name] = view[p].did
  /\ pc[p] \in {"meta", "stat", "signer"} => view[p].did # None
  /\ pc[p] \in {"signer", "loaded"} /\ view[p].did # None => view[p].keys = 1..LastKey
  /\ pc[p] = "loaded" /\ view[p].did # None => view[p].signer = view[p].did
  /\ view[p].handle # None =>
       \E it \in Named(index.items, view[p].name) : it.did = view[p].did
SaveProgress == \A p \in Proc : SaveAt(p)
LoadProgress == \A p \in Proc : LoadAt(p)

IInv == /\ TypeOK /\ KeysComplete /\ IndexSound
        /\ WriterAlone /\ WriterFresh /\ SaveProgress /\ LoadProgress
=============================================================================
