------------------------ MODULE IdentityStoreProofs ------------------------
(***************************************************************************)
(* Proofs about IdentityStore: identities are whole and stay as they are,  *)
(* the index and what Load finds are true, and the store implements        *)
(* IdentityRegistry. IInv is explained in the README.                      *)
(***************************************************************************)
EXTENDS IdentityStore, TLAPS

(* The change a writer makes gives the fields of the new index. *)
LEMMA ChangedFields ==
  ASSUME NEW ix \in Index, NEW r
  PROVE  /\ r.op = "Save" =>
              /\ Changed(ix, r).items = ix.items \cup {NewItem(r)}
              /\ Changed(ix, r).current = IF ix.current = None THEN r.name ELSE ix.current
         /\ r.op = "SetCurrent" =>
              /\ Changed(ix, r).items = ix.items
              /\ Changed(ix, r).current = r.name
         /\ r.op = "SetHandle" =>
              /\ Changed(ix, r).items = {WithHandle(it, r) : it \in ix.items}
              /\ Changed(ix, r).current = ix.current
         /\ r.op = "SetContact" =>
              /\ Changed(ix, r).items = {WithContact(it, r) : it \in ix.items}
              /\ Changed(ix, r).current = ix.current
         /\ r.op \in Writes =>
              Changed(ix, r) = [current |-> Changed(ix, r).current,
                                items |-> Changed(ix, r).items]
<1>1. CASE r.op = "Save"
  BY <1>1 DEF Changed
<1>2. CASE r.op = "SetCurrent"
  BY <1>2 DEF Changed, Index
<1>3. CASE r.op = "SetHandle"
  <2>1. Changed(ix, r) = [ix EXCEPT !.items = {WithHandle(it, r) : it \in @}]
    BY <1>3 DEF Changed
  <2> QED
    BY <1>3, <2>1 DEF Index
<1>4. CASE r.op = "SetContact"
  <2>1. Changed(ix, r) = [ix EXCEPT !.items = {WithContact(it, r) : it \in @}]
    BY <1>4 DEF Changed
  <2> QED
    BY <1>4, <2>1 DEF Index
<1> QED
  BY <1>1, <1>2, <1>3, <1>4 DEF Writes

(* A changed item keeps its name and its DID. *)
LEMMA ItemUpdate ==
  ASSUME NEW it \in Item, NEW r \in Request
  PROVE  /\ WithHandle(it, r) \in Item
         /\ WithHandle(it, r).name = it.name /\ WithHandle(it, r).did = it.did
         /\ WithContact(it, r) \in Item
         /\ WithContact(it, r).name = it.name /\ WithContact(it, r).did = it.did
<1>1. /\ WithHandle(it, r) \in Item
      /\ WithHandle(it, r).name = it.name /\ WithHandle(it, r).did = it.did
  BY DEF WithHandle, Item, Request
<1>2. /\ WithContact(it, r) \in Item
      /\ WithContact(it, r).name = it.name /\ WithContact(it, r).did = it.did
  BY DEF WithContact, Item, Request
<1> QED
  BY <1>1, <1>2

(* A writer's change gives an index (store.go 107-321).                  *)
LEMMA ChangedType ==
  ASSUME NEW ix \in Index, NEW r \in Request, r.op \in Writes, r.name \in Name,
         r.op = "Save" => r.gen \in Gen
  PROVE  Changed(ix, r) \in Index
<1>1. r.op = "Save" => NewItem(r) \in Item
  BY DEF NewItem, Item, Request
<1>2. ix.items \subseteq Item /\ ix.current \in Name \cup {None}
  BY DEF Index
<1>3. Changed(ix, r).items \subseteq Item /\ Changed(ix, r).current \in Name \cup {None}
  BY <1>1, <1>2, ChangedFields, ItemUpdate DEF Writes
<1> QED
  BY <1>3, ChangedFields DEF Index

(* A request under another name.                                         *)
LEMMA RequestUpdate ==
  ASSUME NEW r \in Request, NEW n \in Name \cup {None}
  PROVE  [r EXCEPT !.name = n] \in Request
BY DEF Request

(* What Load has gathered, with one part changed.                         *)
LEMMA ViewUpdate ==
  ASSUME NEW v \in View
  PROVE  /\ \A n \in Name, d \in Gen \cup {None} :
               [v EXCEPT !.name = n, !.did = d] \in View
         /\ \A h \in Handle \cup {None} : [v EXCEPT !.handle = h] \in View
         /\ \A ks \in SUBSET (1..LastKey) : [v EXCEPT !.keys = ks] \in View
         /\ \A g \in Gen \cup {None, Torn} : [v EXCEPT !.signer = g] \in View
<1>1. ASSUME NEW n \in Name, NEW d \in Gen \cup {None}
      PROVE  [v EXCEPT !.name = n, !.did = d] \in View
  <2>1. [v EXCEPT !.name = n] \in View
    BY DEF View
  <2> QED
    BY <2>1 DEF View
<1>2. \A h \in Handle \cup {None} : [v EXCEPT !.handle = h] \in View
  BY DEF View
<1>3. \A ks \in SUBSET (1..LastKey) : [v EXCEPT !.keys = ks] \in View
  BY DEF View
<1>4. \A g \in Gen \cup {None, Torn} : [v EXCEPT !.signer = g] \in View
  BY DEF View
<1> QED
  BY <1>1, <1>2, <1>3, <1>4

(* A step of a process, one disjunct for each action.                    *)
LEMMA RunCases ==
  ASSUME NEW p \in Proc, Run(p)
  PROVE  \/ CallSave(p) \/ CallSetCurrent(p) \/ CallSetHandle(p)
         \/ CallSetContact(p) \/ CallLoad(p)
         \/ Acquire(p) \/ Refused(p) \/ ReadIndex(p) \/ CheckSave(p)
         \/ CheckListed(p) \/ TruncateKey(p) \/ FillKey(p) \/ WriteDidTmp(p)
         \/ RenameDid(p) \/ WriteIndexTmp(p) \/ RenameIndex(p) \/ Release(p)
         \/ ReadCurrent(p) \/ ReadDid(p) \/ ReadMeta(p) \/ StatKeys(p)
         \/ ReadSigner(p) \/ Return(p) \/ FailWrite(p) \/ Crash(p)
BY DEF Run, Start, Write, Read

(* A call begins outside the lock. *)
LEMMA StartPc ==
  ASSUME TypeOK, NEW p \in Proc, Start(p)
  PROVE  pc'[p] \in {"lock", "current", "did"}
<1>1. ASSUME NEW r, NEW to, Call(p, r, to)
      PROVE  pc'[p] = to
  BY <1>1 DEF Call, Goto, TypeOK
<1> QED
  BY <1>1 DEF Start, CallSave, CallSetCurrent, CallSetHandle, CallSetContact, CallLoad

(* A step of one process leaves the memory of the others alone. *)
LEMMA OthersKeep ==
  ASSUME TypeOK, NEW p \in Proc, Run(p), NEW q \in Proc, q # p
  PROVE  /\ pc'[q] = pc[q] /\ req'[q] = req[q] /\ snap'[q] = snap[q]
         /\ step'[q] = step[q] /\ view'[q] = view[q]
<1> USE DEF TypeOK, Goto, Call, Forget
<1>1. CASE Start(p)
  BY <1>1 DEF Start, CallSave, CallSetCurrent, CallSetHandle, CallSetContact, CallLoad
<1>2. CASE Read(p)
  BY <1>2 DEF Read, ReadCurrent, ReadDid, ReadMeta, StatKeys, ReadSigner, Return
<1>3. CASE Acquire(p) \/ FailWrite(p) \/ Crash(p)
  BY <1>3 DEF Acquire, FailWrite, Crash
<1>4. CASE Write(p)
  BY <1>4 DEF Write, Refused, ReadIndex, CheckSave, CheckSaveThen, CheckListed,
              TruncateKey, FillKey, FillThrough, WriteDidTmp, RenameDid,
              WriteIndexTmp, RenameIndex, Release
<1> QED
  BY <1>1, <1>2, <1>3, <1>4 DEF Run

(* Only a process inside the lock changes the disk, by one of six actions. *)
LEMMA DiskFrame ==
  ASSUME NEW p \in Proc, Run(p)
  PROVE  \/ UNCHANGED disk
         \/ pc[p] \in Locked /\ (\/ TruncateKey(p) \/ FillKey(p) \/ WriteDidTmp(p)
                                \/ RenameDid(p) \/ WriteIndexTmp(p) \/ RenameIndex(p))
<1>2. CASE Start(p)
  BY <1>2 DEF Start, CallSave, CallSetCurrent, CallSetHandle, CallSetContact,
              CallLoad, Call
<1>3. CASE Read(p)
  BY <1>3 DEF Read, ReadCurrent, ReadDid, ReadMeta, StatKeys, ReadSigner, Return
<1>4. CASE Acquire(p) \/ FailWrite(p) \/ Crash(p)
  BY <1>4 DEF Acquire, FailWrite, Crash
<1>5. CASE Write(p)
  BY <1>5 DEF Write, Refused, ReadIndex, CheckSave, CheckSaveThen, CheckListed, Release,
              TruncateKey, FillKey, FillThrough, WriteDidTmp, RenameDid,
              WriteIndexTmp, RenameIndex, Locked, Goto
<1> QED
  BY <1>2, <1>3, <1>4, <1>5 DEF Run

(* The invariant holds at first.                                         *)
LEMMA InitInv == Init => IInv
BY StoreAssumption
   DEF Init, IInv, TypeOK, KeysComplete, IndexSound, WriterAlone, WriterFresh,
       SaveProgress, LoadProgress, SaveAt, LoadAt, Index, EmptyIndex, Request, NoRequest, View,
       NoView, Locked, Unlocked, Writes, Named

(* Every step keeps the types.                                           *)
LEMMA TypeStep == IInv /\ [Next]_vars => TypeOK'
<1> SUFFICES ASSUME IInv, Next PROVE TypeOK'
  BY DEF IInv, TypeOK, vars
<1> USE StoreAssumption DEF IInv, TypeOK, Goto, Call, Forget, disk, NoRequest, NoView,
        EmptyIndex, Locked, Unlocked
<1>0. PICK p \in Proc : Run(p)
  BY DEF Next
<1>1. CASE CallSave(p)
  <2>1. PICK r \in Request : req' = [req EXCEPT ![p] = r]
    BY <1>1 DEF CallSave, Request, Writes
  <2> QED
    BY <1>1, <2>1 DEF CallSave
<1>2. CASE CallSetCurrent(p)
  <2>1. PICK r \in Request : req' = [req EXCEPT ![p] = r]
    BY <1>2 DEF CallSetCurrent, Request, Writes
  <2> QED
    BY <1>2, <2>1 DEF CallSetCurrent
<1>3. CASE CallSetHandle(p)
  <2>1. PICK r \in Request : req' = [req EXCEPT ![p] = r]
    BY <1>3 DEF CallSetHandle, Request, Writes
  <2> QED
    BY <1>3, <2>1 DEF CallSetHandle
<1>4. CASE CallSetContact(p)
  <2>1. PICK r \in Request : req' = [req EXCEPT ![p] = r]
    BY <1>4 DEF CallSetContact, Request, Writes
  <2> QED
    BY <1>4, <2>1 DEF CallSetContact
<1>5. CASE CallLoad(p)
  <2>1. PICK r \in Request : req' = [req EXCEPT ![p] = r]
    BY <1>5 DEF CallLoad, Request, Writes
  <2> QED
    BY <1>5, <2>1 DEF CallLoad
<1>6. CASE Acquire(p)
  BY <1>6 DEF Acquire
<1>7. CASE Refused(p)
  BY <1>7 DEF Refused, Request, Index, View
<1>8. CASE ReadIndex(p)
  BY <1>8 DEF ReadIndex
<1>9. CASE CheckSave(p)
  BY <1>9 DEF CheckSave, CheckSaveThen
<1>10. CASE CheckListed(p)
  BY <1>10 DEF CheckListed
<1>11. CASE TruncateKey(p)
  BY <1>11 DEF TruncateKey
<1>12. CASE FillKey(p)
  <2>1. req[p].op = "Save" /\ req[p].name \in Name /\ req[p].gen \in Gen
    BY <1>12 DEF FillKey, FillThrough, WriterFresh, SaveProgress, SaveAt, Writes
  <2>2. keyFile' \in [Name -> [1..LastKey -> Gen \cup {None, Torn}]]
    BY <1>12, <2>1 DEF FillKey, FillThrough
  <2>3. step' \in [Proc -> 1..LastKey]
    BY <1>12 DEF FillKey, FillThrough
  <2> QED
    BY <1>12, <2>2, <2>3 DEF FillKey, FillThrough
<1>13. CASE WriteDidTmp(p)
  BY <1>13 DEF WriteDidTmp, WriterFresh, SaveProgress, SaveAt
<1>14. CASE RenameDid(p)
  BY <1>14 DEF RenameDid
<1>15. CASE WriteIndexTmp(p)
  BY <1>15, ChangedType DEF WriteIndexTmp, WriterFresh, WriterAlone
<1>16. CASE RenameIndex(p)
  BY <1>16, ChangedType DEF RenameIndex, WriterFresh, WriterAlone
<1>17. CASE Release(p)
  BY <1>17 DEF Release, Request, Index, View
<1>18. CASE ReadCurrent(p)
  <2>1. [req[p] EXCEPT !.name = index.current] \in Request
    BY RequestUpdate DEF Index
  <2> QED
    BY <1>18, <2>1 DEF ReadCurrent
<1>19. CASE ReadDid(p)
  <2> DEFINE n == req[p].name
             v == [view[p] EXCEPT !.name = n, !.did = didFile[n]]
  <2>1. n \in Name
    BY <1>19 DEF ReadDid, LoadProgress, LoadAt
  <2>2. v \in View
    BY <2>1, ViewUpdate
  <2>3. view' = view \/ view' = [view EXCEPT ![p] = v]
    BY <1>19 DEF ReadDid
  <2> HIDE DEF v
  <2> QED
    BY <1>19, <2>2, <2>3 DEF ReadDid
<1>20. CASE ReadMeta(p)
  <2>1. \A it \in Named(index.items, view[p].name) :
          [view[p] EXCEPT !.handle = it.handle] \in View
    BY ViewUpdate DEF Named, Index, Item
  <2>2. view' \in [Proc -> View]
    <3>1. CASE view' = view
      BY <3>1
    <3>2. ASSUME NEW it \in Named(index.items, view[p].name),
                 view' = [view EXCEPT ![p] = [@ EXCEPT !.handle = it.handle]]
          PROVE  view' \in [Proc -> View]
      BY <2>1, <3>2
    <3> QED
      BY <1>20, <3>1, <3>2 DEF ReadMeta
  <2> QED
    BY <1>20, <2>2 DEF ReadMeta
<1>21. CASE StatKeys(p)
  <2> DEFINE v == [view[p] EXCEPT !.keys =
                     {k \in 1..LastKey : keyFile[view[p].name][k] # None}]
  <2>1. v \in View
    BY ViewUpdate
  <2>2. view' = [view EXCEPT ![p] = v]
    BY <1>21 DEF StatKeys
  <2> HIDE DEF v
  <2>3. view' \in [Proc -> View]
    BY <2>1, <2>2
  <2> QED
    BY <1>21, <2>3 DEF StatKeys
<1>22. CASE ReadSigner(p)
  <2> DEFINE v == [view[p] EXCEPT !.signer = keyFile[view[p].name][1]]
  <2>1. keyFile[view[p].name][1] \in Gen \cup {None, Torn}
    <3>1. view[p].name \in Name
      BY <1>22 DEF ReadSigner, LoadProgress, LoadAt
    <3>2. 1 \in 1..LastKey
      OBVIOUS
    <3> QED
      BY <3>1, <3>2
  <2>2. v \in View
    BY <2>1, ViewUpdate
  <2>3. view' = [view EXCEPT ![p] = v]
    BY <1>22 DEF ReadSigner
  <2> HIDE DEF v
  <2>4. view' \in [Proc -> View]
    BY <2>2, <2>3
  <2> QED
    BY <1>22, <2>4 DEF ReadSigner
<1>23. CASE Return(p)
  BY <1>23 DEF Return, Request, Index, View
<1>24. CASE FailWrite(p)
  BY <1>24 DEF FailWrite
<1>25. CASE Crash(p)
  BY <1>25 DEF Crash, Request, Index, View
<1> QED
  BY RunCases, <1>0, <1>1, <1>2, <1>3, <1>4, <1>5, <1>6, <1>7, <1>8, <1>9, <1>10, <1>11, <1>12, <1>13,
     <1>14, <1>15, <1>16, <1>17, <1>18, <1>19, <1>20, <1>21, <1>22, <1>23, <1>24, <1>25

(* An identity in the index has its document and its keys (store.go      *)
(* 107-177).                                                             *)
LEMMA KeysStep == IInv /\ [Next]_vars => KeysComplete'
<1> SUFFICES ASSUME IInv, [Next]_vars PROVE KeysComplete'
  OBVIOUS
<1> USE StoreAssumption DEF IInv, TypeOK, KeysComplete, Goto
<1>1. CASE UNCHANGED <<didFile, keyFile>>
  BY <1>1
<1>2. ASSUME NEW p \in Proc, TruncateKey(p)
      PROVE  KeysComplete'
  BY <1>2 DEF TruncateKey, SaveProgress, SaveAt
<1>3. ASSUME NEW p \in Proc, FillKey(p)
      PROVE  KeysComplete'
  BY <1>3 DEF FillKey, FillThrough, SaveProgress, SaveAt
<1>4. ASSUME NEW p \in Proc, RenameDid(p)
      PROVE  KeysComplete'
  BY <1>4 DEF RenameDid, SaveProgress, SaveAt
<1> QED
  BY <1>1, <1>2, <1>3, <1>4, DiskFrame
     DEF Next, vars, disk, WriteDidTmp, WriteIndexTmp, RenameIndex

(* Whoever is between Acquire and Release holds the lock, alone.         *)
LEMMA AloneStep == IInv /\ [Next]_vars => WriterAlone'
<1> SUFFICES ASSUME IInv, Next PROVE WriterAlone'
  BY DEF IInv, WriterAlone, vars
<1> USE StoreAssumption DEF IInv, TypeOK, WriterAlone, Goto, Call, Forget, disk,
        NoRequest, Locked, Writes
<1>0. PICK p \in Proc : Run(p)
  BY DEF Next
<1>1. CASE CallSave(p)
  BY <1>1 DEF CallSave
<1>2. CASE CallSetCurrent(p)
  BY <1>2 DEF CallSetCurrent
<1>3. CASE CallSetHandle(p)
  BY <1>3 DEF CallSetHandle
<1>4. CASE CallSetContact(p)
  BY <1>4 DEF CallSetContact
<1>5. CASE CallLoad(p)
  BY <1>5 DEF CallLoad
<1>6. CASE Acquire(p)
  BY <1>6 DEF Acquire
<1>7. CASE Refused(p)
  BY <1>7 DEF Refused
<1>8. CASE ReadIndex(p)
  BY <1>8 DEF ReadIndex
<1>9. CASE CheckSave(p)
  BY <1>9 DEF CheckSave, CheckSaveThen
<1>10. CASE CheckListed(p)
  BY <1>10 DEF CheckListed
<1>11. CASE TruncateKey(p)
  BY <1>11 DEF TruncateKey
<1>12. CASE FillKey(p)
  BY <1>12 DEF FillKey, FillThrough
<1>13. CASE WriteDidTmp(p)
  BY <1>13 DEF WriteDidTmp
<1>14. CASE RenameDid(p)
  BY <1>14 DEF RenameDid
<1>15. CASE WriteIndexTmp(p)
  BY <1>15 DEF WriteIndexTmp
<1>16. CASE RenameIndex(p)
  BY <1>16 DEF RenameIndex
<1>17. CASE Release(p)
  BY <1>17 DEF Release
<1>18. CASE ReadCurrent(p)
  BY <1>18 DEF ReadCurrent
<1>19. CASE ReadDid(p)
  BY <1>19 DEF ReadDid
<1>20. CASE ReadMeta(p)
  BY <1>20 DEF ReadMeta
<1>21. CASE StatKeys(p)
  BY <1>21 DEF StatKeys
<1>22. CASE ReadSigner(p)
  BY <1>22 DEF ReadSigner
<1>23. CASE Return(p)
  BY <1>23 DEF Return
<1>24. CASE FailWrite(p)
  BY <1>24 DEF FailWrite
<1>25. CASE Crash(p)
  BY <1>25 DEF Crash
<1> QED
  BY RunCases, <1>0, <1>1, <1>2, <1>3, <1>4, <1>5, <1>6, <1>7, <1>8, <1>9, <1>10, <1>11,
     <1>12, <1>13, <1>14, <1>15, <1>16, <1>17, <1>18, <1>19, <1>20, <1>21, <1>22, <1>23, <1>24, <1>25

(* The index is still as the writer has read it.                         *)
LEMMA FreshStep == IInv /\ [Next]_vars => WriterFresh'
<1> SUFFICES ASSUME IInv, Next PROVE WriterFresh'
  BY DEF IInv, WriterFresh, vars, Named
<1> USE StoreAssumption DEF IInv, TypeOK, WriterAlone, WriterFresh, Goto, Call, Forget, disk,
        NoRequest, Locked, Writes
<1>0. PICK p \in Proc : Run(p)
  BY DEF Next
<1>1. CASE CallSave(p)
  BY <1>1 DEF CallSave
<1>2. CASE CallSetCurrent(p)
  BY <1>2 DEF CallSetCurrent
<1>3. CASE CallSetHandle(p)
  BY <1>3 DEF CallSetHandle
<1>4. CASE CallSetContact(p)
  BY <1>4 DEF CallSetContact
<1>5. CASE CallLoad(p)
  BY <1>5 DEF CallLoad
<1>6. CASE Acquire(p)
  BY <1>6 DEF Acquire
<1>7. CASE Refused(p)
  BY <1>7 DEF Refused
<1>8. CASE ReadIndex(p)
  BY <1>8 DEF ReadIndex
<1>9. CASE CheckSave(p)
  BY <1>9 DEF CheckSave, CheckSaveThen
<1>10. CASE CheckListed(p)
  BY <1>10 DEF CheckListed
<1>11. CASE TruncateKey(p)
  BY <1>11 DEF TruncateKey
<1>12. CASE FillKey(p)
  BY <1>12 DEF FillKey, FillThrough
<1>13. CASE WriteDidTmp(p)
  BY <1>13 DEF WriteDidTmp
<1>14. CASE RenameDid(p)
  BY <1>14 DEF RenameDid, SaveProgress, SaveAt
<1>15. CASE WriteIndexTmp(p)
  BY <1>15 DEF WriteIndexTmp
<1>16. CASE RenameIndex(p)
  BY <1>16 DEF RenameIndex
<1>17. CASE Release(p)
  BY <1>17 DEF Release
<1>18. CASE ReadCurrent(p)
  BY <1>18 DEF ReadCurrent
<1>19. CASE ReadDid(p)
  BY <1>19 DEF ReadDid
<1>20. CASE ReadMeta(p)
  BY <1>20 DEF ReadMeta
<1>21. CASE StatKeys(p)
  BY <1>21 DEF StatKeys
<1>22. CASE ReadSigner(p)
  BY <1>22 DEF ReadSigner
<1>23. CASE Return(p)
  BY <1>23 DEF Return
<1>24. CASE FailWrite(p)
  BY <1>24 DEF FailWrite
<1>25. CASE Crash(p)
  BY <1>25 DEF Crash
<1> QED
  BY RunCases, <1>0, <1>1, <1>2, <1>3, <1>4, <1>5, <1>6, <1>7, <1>8, <1>9, <1>10, <1>11,
     <1>12, <1>13, <1>14, <1>15, <1>16, <1>17, <1>18, <1>19, <1>20, <1>21, <1>22, <1>23, <1>24, <1>25

(* What a Save in progress has written is there.                         *)
LEMMA SaveStep == IInv /\ [Next]_vars => SaveProgress'
<1> SUFFICES ASSUME IInv, Next, NEW q \in Proc PROVE SaveAt(q)'
  BY DEF IInv, SaveProgress, SaveAt, vars, Named
<1>0. PICK p \in Proc : Run(p)
  BY DEF Next
<1> DEFINE Saving == {"truncate", "fill", "didTmp", "didRename", "indexTmp", "indexRename"}
<1>1. CASE pc'[q] \notin Saving
  BY <1>1 DEF SaveAt
<1>2. CASE pc'[q] \in Saving /\ q # p
  <2>1. pc[q] \in Locked
    BY <1>0, <1>2, OthersKeep DEF IInv, Locked
  <2>2. pc[p] \notin Locked
    BY <2>1, <1>2 DEF IInv, WriterAlone
  <2>3. UNCHANGED disk
    BY <2>2, <1>0, DiskFrame
  <2> QED
    BY <2>3, <1>0, <1>2, OthersKeep DEF IInv, SaveProgress, SaveAt, Named, disk
<1>3. CASE pc'[p] \in Saving /\ q = p
  <2> USE StoreAssumption DEF IInv, TypeOK, WriterAlone, WriterFresh, SaveProgress, SaveAt,
          Goto, Call, Forget, disk, NoRequest, Locked, Writes
  <2>1. CASE CheckSave(p)
    BY <1>3, <2>1 DEF CheckSave, CheckSaveThen
  <2>2. CASE CheckListed(p)
    BY <1>3, <2>2 DEF CheckListed
  <2>3. CASE TruncateKey(p)
    BY <1>3, <2>3 DEF TruncateKey
  <2>4. CASE FillKey(p)
    <3> DEFINE n == req[p].name
    <3>1. /\ n \in Name /\ didFile[n] = None /\ req[p].op = "Save"
          /\ \A k \in 1..(step[p] - 1) : keyFile[n][k] = req[p].gen
      BY <2>4 DEF FillKey, FillThrough
    <3>2. /\ \A k \in 1..step[p] : keyFile'[n][k] = req[p].gen
          /\ didFile' = didFile /\ req' = req
      BY <2>4, <3>1 DEF FillKey, FillThrough
    <3>3. CASE step[p] = LastKey
      BY <2>4, <3>1, <3>2, <3>3 DEF FillKey, FillThrough
    <3>4. CASE step[p] # LastKey
      BY <2>4, <3>1, <3>2, <3>4 DEF FillKey, FillThrough
    <3> QED
      BY <3>3, <3>4
  <2>5. CASE WriteDidTmp(p)
    BY <1>3, <2>5 DEF WriteDidTmp
  <2>6. CASE RenameDid(p)
    <3>1. Named(index.items, req[p].name) = {}
      BY <2>6 DEF RenameDid, IndexSound, Named, Index, Item
    <3> QED
      BY <1>3, <2>6, <3>1 DEF RenameDid
  <2>7. CASE WriteIndexTmp(p)
    BY <1>3, <2>7 DEF WriteIndexTmp
  <2>8. CheckSave(p) \/ CheckListed(p) \/ TruncateKey(p) \/ FillKey(p)
        \/ WriteDidTmp(p) \/ RenameDid(p) \/ WriteIndexTmp(p)
    <3>1. ~Start(p)
      BY <1>3, StartPc
    <3>4. ~Read(p)
      BY <1>3 DEF Read, ReadCurrent, ReadDid, ReadMeta, StatKeys, ReadSigner, Return
    <3>2. ~Acquire(p) /\ ~FailWrite(p) /\ ~Crash(p)
      BY <1>3 DEF Acquire, FailWrite, Crash
    <3>3. ~Refused(p) /\ ~ReadIndex(p) /\ ~RenameIndex(p) /\ ~Release(p)
      BY <1>3 DEF Refused, ReadIndex, RenameIndex, Release
    <3> QED
      BY <1>0, <3>1, <3>2, <3>3, <3>4 DEF Run, Write
  <2> QED
    BY <2>1, <2>2, <2>3, <2>4, <2>5, <2>6, <2>7, <2>8
<1> QED
  BY <1>1, <1>2, <1>3

(* Only RenameIndex and RenameDid matter: a lock-free reader's document and *)
(* item, once there, stay there. *)
LEMMA IndexStep == IInv /\ [Next]_vars => IndexSound'
<1> SUFFICES ASSUME IInv, [Next]_vars PROVE IndexSound'
  OBVIOUS
<1> USE StoreAssumption DEF IInv, TypeOK, Goto
<1>1. CASE UNCHANGED <<index, didFile>>
  BY <1>1 DEF IndexSound, Named
<1>2. ASSUME NEW p \in Proc, RenameDid(p)
      PROVE  IndexSound'
  <2>1. \A it \in index.items : it.name # req[p].name
    BY <1>2 DEF RenameDid, SaveProgress, SaveAt, IndexSound, Index, Item
  <2> QED
    BY <1>2, <2>1 DEF RenameDid, IndexSound, Named, Index, Item
<1>3. ASSUME NEW p \in Proc, RenameIndex(p)
      PROVE  IndexSound'
  <2> DEFINE r == req[p]
  <2>1. /\ index' = Changed(index, r) /\ didFile' = didFile
        /\ r.op \in Writes /\ r.name \in Name /\ r \in Request
        /\ index.items \subseteq Item
    BY <1>3 DEF RenameIndex, WriterFresh, WriterAlone, Locked, Index
  <2>2. CASE r.op = "Save"
    <3>1. /\ didFile[r.name] = r.gen /\ Named(index.items, r.name) = {}
      BY <1>3, <2>2 DEF RenameIndex, SaveProgress, SaveAt
    <3>2. NewItem(r).name = r.name /\ NewItem(r).did = r.gen
      BY DEF NewItem
    <3>3. /\ index'.items = index.items \cup {NewItem(r)}
          /\ index'.current = IF index.current = None THEN r.name ELSE index.current
      BY <2>1, <2>2, ChangedFields
    <3> QED
      BY <2>1, <3>1, <3>2, <3>3 DEF IndexSound, Named
  <2>3. CASE r.op = "SetCurrent"
    <3>1. Named(index.items, r.name) # {}
      BY <1>3, <2>3 DEF RenameIndex, WriterFresh
    <3> QED
      BY <2>1, <2>3, <3>1, ChangedFields DEF IndexSound, Named
  <2>4. CASE r.op = "SetHandle"
    <3>1. /\ index'.items = {WithHandle(it, r) : it \in index.items}
          /\ index'.current = index.current
      BY <2>1, <2>4, ChangedFields
    <3>2. \A it \in index.items : /\ WithHandle(it, r).name = it.name
                                 /\ WithHandle(it, r).did = it.did
      BY <2>1, ItemUpdate
    <3> QED
      BY <2>1, <3>1, <3>2 DEF IndexSound, Named
  <2>5. CASE r.op = "SetContact"
    <3>1. /\ index'.items = {WithContact(it, r) : it \in index.items}
          /\ index'.current = index.current
      BY <2>1, <2>5, ChangedFields
    <3>2. \A it \in index.items : /\ WithContact(it, r).name = it.name
                                 /\ WithContact(it, r).did = it.did
      BY <2>1, ItemUpdate
    <3> QED
      BY <2>1, <3>1, <3>2 DEF IndexSound, Named
  <2> QED
    BY <2>1, <2>2, <2>3, <2>4, <2>5 DEF Writes
<1> QED
  BY <1>1, <1>2, <1>3, DiskFrame
     DEF Next, vars, disk, TruncateKey, FillKey, FillThrough, WriteDidTmp, WriteIndexTmp

(* Once did.json is there, it and the key files beside it stay as they are. *)
LEMMA KeptStep ==
  ASSUME IInv, [Next]_vars, NEW n \in Name, didFile[n] # None
  PROVE  didFile'[n] = didFile[n] /\ keyFile'[n] = keyFile[n]
<1> USE StoreAssumption DEF IInv, TypeOK, SaveProgress, SaveAt, Goto
<1>1. CASE UNCHANGED <<didFile, keyFile>>
  BY <1>1
<1>2. ASSUME NEW p \in Proc, TruncateKey(p)
      PROVE  didFile'[n] = didFile[n] /\ keyFile'[n] = keyFile[n]
  BY <1>2 DEF TruncateKey
<1>3. ASSUME NEW p \in Proc, FillKey(p)
      PROVE  didFile'[n] = didFile[n] /\ keyFile'[n] = keyFile[n]
  BY <1>3 DEF FillKey, FillThrough
<1>4. ASSUME NEW p \in Proc, RenameDid(p)
      PROVE  didFile'[n] = didFile[n] /\ keyFile'[n] = keyFile[n]
  BY <1>4 DEF RenameDid
<1> QED
  BY <1>1, <1>2, <1>3, <1>4, DiskFrame
     DEF Next, vars, disk, WriteDidTmp, WriteIndexTmp, RenameIndex

(* An item of the index may change, but not its name or its DID. *)
LEMMA ItemsKeptStep ==
  ASSUME IInv, [Next]_vars, NEW it \in index.items
  PROVE  \E new \in index'.items : new.name = it.name /\ new.did = it.did
<1>1. CASE index' = index
  BY <1>1
<1>2. ASSUME NEW p \in Proc, RenameIndex(p)
      PROVE  \E new \in index'.items : new.name = it.name /\ new.did = it.did
  <2>1. /\ index' = Changed(index, req[p]) /\ req[p].op \in Writes
        /\ index \in Index /\ it \in Item /\ req[p] \in Request
    BY <1>2 DEF IInv, TypeOK, RenameIndex, Goto, WriterFresh, WriterAlone, Locked, Index
  <2>2. CASE req[p].op = "Save" \/ req[p].op = "SetCurrent"
    BY <2>1, <2>2, ChangedFields
  <2>3. CASE req[p].op = "SetHandle"
    BY <2>1, <2>3, ChangedFields, ItemUpdate
  <2>4. CASE req[p].op = "SetContact"
    BY <2>1, <2>4, ChangedFields, ItemUpdate
  <2> QED
    BY <2>1, <2>2, <2>3, <2>4 DEF Writes
<1> QED
  BY <1>1, <1>2, DiskFrame
     DEF Next, vars, disk, TruncateKey, FillKey, FillThrough, WriteDidTmp, RenameDid,
         WriteIndexTmp

(* What a Load in progress has seen is still true.                       *)
LEMMA LoadStep == IInv /\ [Next]_vars => LoadProgress'
<1> SUFFICES ASSUME IInv, [Next]_vars, NEW q \in Proc PROVE LoadAt(q)'
  BY DEF LoadProgress
<1>1. CASE UNCHANGED vars
  BY <1>1 DEF IInv, LoadProgress, LoadAt, Named, vars
<1>2. ASSUME NEW p \in Proc, Run(p) PROVE LoadAt(q)'
  (* What q has already read is still on the disk. *)
  <2>1. ASSUME req'[q] = req[q], view'[q] = view[q], pc'[q] = pc[q]
        PROVE  LoadAt(q)'
    BY <2>1, KeptStep, ItemsKeptStep DEF IInv, TypeOK, LoadProgress, LoadAt, Named
  <2>2. CASE p # q
    BY <1>2, <2>1, <2>2, OthersKeep DEF IInv
  <2>3. CASE p = q
    <3> USE <2>3, StoreAssumption DEF IInv, TypeOK, LoadProgress, LoadAt, Goto, disk
    <3>1. CASE Start(p)
      <4>1. view' = view /\ view[p] = NoView
        BY <3>1 DEF Start, CallSave, CallSetCurrent, CallSetHandle, CallSetContact,
                    CallLoad, Call
      <4>2. pc'[p] = "did" => req'[p].name \in Name
        <5>1. CASE CallLoad(p)
          BY <5>1 DEF CallLoad, Call, NoRequest
        <5>2. CASE ~CallLoad(p)
          BY <3>1, <5>2 DEF Start, CallSave, CallSetCurrent, CallSetHandle,
                            CallSetContact, Call
        <5> QED
          BY <5>1, <5>2
      <4> QED
        <5>1. pc'[p] \in {"lock", "current", "did"} /\ view'[p] = NoView
          BY <3>1, <4>1, StartPc
        <5>2. view'[p].did = None /\ view'[p].handle = None
          BY <5>1 DEF NoView
        <5> QED
          BY <4>2, <5>1, <5>2
    <3>2. CASE Acquire(p) \/ Write(p) \/ FailWrite(p)
      <4>1. pc[p] \in Locked \cup {"lock"} /\ pc'[p] \in Locked \cup {"idle"}
        BY <3>2 DEF Acquire, Write, FailWrite, Refused, ReadIndex, CheckSave, CheckSaveThen,
           CheckListed, TruncateKey, FillKey, FillThrough, WriteDidTmp, RenameDid,
           WriteIndexTmp, RenameIndex, Release, Locked
      <4>2. view'[p] = NoView
        BY <3>2, <4>1 DEF Acquire, Write, FailWrite, Refused, ReadIndex, CheckSave,
           CheckSaveThen, CheckListed, TruncateKey, FillKey, FillThrough, WriteDidTmp,
           RenameDid, WriteIndexTmp, RenameIndex, Release, Locked, Forget
      <4> QED
        BY <4>1, <4>2 DEF Locked, NoView
    <3>3. CASE ReadCurrent(p)
      BY <3>3 DEF ReadCurrent, Index, NoView
    <3>4. CASE ReadDid(p)
      <4> DEFINE n == req[p].name
      <4>1. CASE didFile[n] = None
        BY <3>4, <4>1 DEF ReadDid, NoView
      <4>2. CASE didFile[n] # None
        <5>1. /\ pc[p] = "did" /\ view' = [view EXCEPT ![p].name = n, ![p].did = didFile[n]]
              /\ pc' = [pc EXCEPT ![p] = "meta"] /\ UNCHANGED <<req, didFile>>
          BY <3>4, <4>2 DEF ReadDid
        <5>2. view[p] = NoView /\ view[p] \in View
          BY <5>1
        <5>3. /\ view'[p].name = n /\ view'[p].did = didFile[n] /\ view'[p].handle = None
              /\ pc'[p] = "meta" /\ req' = req /\ didFile' = didFile
          BY <5>1, <5>2 DEF View, NoView
        <5> QED
          BY <5>1, <5>3, <4>2
      <4> QED
        BY <4>1, <4>2
    <3>5. CASE ReadMeta(p)
      <4>1. /\ view'[p].name = view[p].name /\ view'[p].did = view[p].did
            /\ view'[p].handle = None \/ view'[p].handle = view[p].handle
               \/ Named(index.items, view[p].name) # {}
        BY <3>5 DEF ReadMeta, View
      <4>2. /\ pc[p] = "meta" /\ pc'[p] = "stat" /\ req' = req /\ didFile' = didFile
            /\ index' = index
        BY <3>5 DEF ReadMeta
      <4>3. \A it \in Named(index.items, view[p].name) : it.did = view[p].did
        BY <4>2 DEF IndexSound, Named
      <4>4. view'[p].handle # None =>
              \E it \in Named(index.items, view'[p].name) : it.did = view'[p].did
        BY <4>1, <4>2, <4>3
      <4>5. /\ req[p].name \in Name /\ view[p].name \in Name
            /\ view[p].did # None /\ didFile[view[p].name] = view[p].did
        BY <4>2
      <4> QED
        BY <4>1, <4>2, <4>4, <4>5 DEF Named
    <3>6. CASE StatKeys(p)
      <4>1. /\ view'[p].name = view[p].name /\ view'[p].did = view[p].did
            /\ view'[p].handle = view[p].handle
            /\ view'[p].keys = {k \in 1..LastKey : keyFile[view[p].name][k] # None}
        BY <3>6 DEF StatKeys, View
      <4>2. /\ pc[p] = "stat" /\ pc'[p] = "signer" /\ req' = req /\ didFile' = didFile
            /\ index' = index
        BY <3>6 DEF StatKeys
      <4>3. \A k \in 1..LastKey : keyFile[view[p].name][k] # None
        <5>1. /\ view[p].name \in Name /\ didFile[view[p].name] # None
          BY <4>2
        <5> QED
          BY <5>1 DEF KeysComplete
      <4>4. view'[p].keys = 1..LastKey
        BY <4>1, <4>3
      <4> QED
        BY <4>1, <4>2, <4>4 DEF Named
    <3>7. CASE ReadSigner(p)
      <4>1. /\ view'[p].name = view[p].name /\ view'[p].did = view[p].did
            /\ view'[p].handle = view[p].handle /\ view'[p].keys = view[p].keys
            /\ view'[p].signer = keyFile[view[p].name][1]
        BY <3>7 DEF ReadSigner, View
      <4>2. /\ pc[p] = "signer" /\ pc'[p] = "loaded" /\ req' = req /\ didFile' = didFile
            /\ index' = index
        BY <3>7 DEF ReadSigner
      <4>3. keyFile[view[p].name][1] = view[p].did
        BY <4>2 DEF KeysComplete
      <4> QED
        BY <4>1, <4>2, <4>3 DEF Named
    <3>8. CASE Return(p) \/ Crash(p)
      <4>1. pc'[p] = "idle" /\ view'[p] = NoView
        BY <3>8 DEF Return, Crash, Forget
      <4> QED
        BY <4>1 DEF NoView
    <3> QED
      BY <1>2, <3>1, <3>2, <3>3, <3>4, <3>5, <3>6, <3>7, <3>8 DEF Run, Read
  <2> QED
    BY <2>2, <2>3
<1> QED
  BY <1>1, <1>2 DEF Next
-----------------------------------------------------------------------------
(* The invariant that a run checks holds of every state, with the types. *)
THEOREM InductiveInvariant == Spec => []IInv
<1>1. IInv /\ [Next]_vars => IInv'
  BY TypeStep, KeysStep, IndexStep, AloneStep, FreshStep, SaveStep, LoadStep DEF IInv
<1> QED
  BY InitInv, <1>1, PTL DEF Spec

(* Every variable keeps its type, for any number of processes and names. *)
THEOREM TypeCorrect == Spec => []TypeOK
<1>1. IInv => TypeOK
  BY DEF IInv
<1> QED
  BY InductiveInvariant, <1>1, PTL

(* store.go 141-159: a did.json never stands beside an incomplete or a *)
(* foreign key file, whatever crashes and whoever saves at the same time. *)
THEOREM IdentityIsWhole == Spec => []KeysComplete
<1>1. IInv => KeysComplete
  BY DEF IInv
<1> QED
  BY InductiveInvariant, <1>1, PTL

(* store.go 168-175: the index lists existing identities, each once, under *)
(* the DID of its directory, and the default identity is one of them. *)
THEOREM IndexIsSound == Spec => []IndexSound
<1>1. IInv => IndexSound
  BY DEF IInv
<1> QED
  BY InductiveInvariant, <1>1, PTL

(* store.go 215-273: Load, which takes no lock, returns the document, the *)
(* keys and the handle of one identity. *)
THEOREM LoadIsConsistent == Spec => []LoadSound
<1>1. IInv => LoadSound
  BY DEF IInv, LoadProgress, LoadAt, LoadSound
<1> QED
  BY InductiveInvariant, <1>1, PTL

(* store.go 124-127: an identity, once on disk, is never overwritten. *)
THEOREM IdentitiesAreKept == Spec => IdentityKept
<1>1. IInv /\ [Next]_vars =>
        [\A n \in Name : didFile[n] # None =>
           didFile'[n] = didFile[n] /\ keyFile'[n] = keyFile[n]]_vars
  BY KeptStep
<1> QED
  BY InductiveInvariant, <1>1, PTL DEF Spec, IdentityKept
-----------------------------------------------------------------------------
(* A Save that is about to write the index got there by renaming its own   *)
(* did.json (store.go 157-173).                                            *)
LEMMA SaveReachesIndex ==
  ASSUME IInv, NEW p \in Proc, Run(p), req'[p].op = "Save",
         pc'[p] \in {"indexTmp", "indexRename"}
  PROVE  /\ req' = req
         /\ \/ pc[p] = "didRename" /\ pc'[p] = "indexTmp"
            \/ pc[p] = "indexTmp"
<1> USE DEF IInv, TypeOK, Goto
<1>1. ~Start(p)
  BY StartPc
<1>2. ~Read(p)
  BY DEF Read, ReadCurrent, ReadDid, ReadMeta, StatKeys, ReadSigner, Return
<1>3. ~(Acquire(p) \/ FailWrite(p) \/ Crash(p))
  BY DEF Acquire, FailWrite, Crash
<1>4. ~(Refused(p) \/ ReadIndex(p) \/ CheckSave(p) \/ CheckListed(p) \/ TruncateKey(p)
        \/ FillKey(p) \/ WriteDidTmp(p) \/ RenameIndex(p) \/ Release(p))
  BY DEF Refused, ReadIndex, CheckSave, CheckSaveThen, CheckListed, TruncateKey, FillKey,
         FillThrough, WriteDidTmp, RenameIndex, Release
<1>5. RenameDid(p) \/ WriteIndexTmp(p)
  BY <1>1, <1>2, <1>3, <1>4 DEF Run, Write
<1> QED
  BY <1>5 DEF RenameDid, WriteIndexTmp

(* A name enters the index only by a Save of that name (store.go 168-175). *)
LEMMA NameOrigin ==
  ASSUME IInv, [Next]_vars, NEW new \in index'.items
  PROVE  \/ \E it \in index.items : it.name = new.name
         \/ \E p \in Proc : /\ pc[p] = "indexRename"
                            /\ req[p].op = "Save" /\ req[p].name = new.name
<1>1. CASE index' = index
  BY <1>1
<1>2. ASSUME NEW p \in Proc, RenameIndex(p)
      PROVE  \/ \E it \in index.items : it.name = new.name
             \/ pc[p] = "indexRename" /\ req[p].op = "Save" /\ req[p].name = new.name
  <2>1. /\ index' = Changed(index, req[p]) /\ req[p].op \in Writes /\ pc[p] = "indexRename"
        /\ index \in Index /\ index.items \subseteq Item /\ req[p] \in Request
    BY <1>2 DEF IInv, TypeOK, RenameIndex, Goto, WriterFresh, WriterAlone, Locked, Index
  <2>2. CASE req[p].op = "Save"
    BY <2>1, <2>2, ChangedFields DEF NewItem
  <2>3. CASE req[p].op = "SetCurrent"
    BY <2>1, <2>3, ChangedFields
  <2>4. CASE req[p].op = "SetHandle"
    <3>1. index'.items = {WithHandle(it, req[p]) : it \in index.items}
      BY <2>1, <2>4, ChangedFields
    <3>2. \A it \in index.items : WithHandle(it, req[p]).name = it.name
      BY <2>1, ItemUpdate
    <3> QED
      BY <3>1, <3>2
  <2>5. CASE req[p].op = "SetContact"
    <3>1. index'.items = {WithContact(it, req[p]) : it \in index.items}
      BY <2>1, <2>5, ChangedFields
    <3>2. \A it \in index.items : WithContact(it, req[p]).name = it.name
      BY <2>1, ItemUpdate
    <3> QED
      BY <3>1, <3>2
  <2> QED
    BY <2>1, <2>2, <2>3, <2>4, <2>5 DEF Writes
<1> QED
  BY <1>1, <1>2, DiskFrame
     DEF Next, vars, disk, TruncateKey, FillKey, FillThrough, WriteDidTmp, RenameDid,
         WriteIndexTmp

(* store.go 125, 157, 173: a Save that stops between its two renames burns *)
(* the name, whoever calls what afterwards: a later Save finds the         *)
(* did.json, and every other operation looks the name up in the index.     *)
THEOREM OrphansStayOrphans == Spec => OrphansAreForever
<1>1. ASSUME IInv, [Next]_vars, NEW n \in Name, Orphan(n)
      PROVE  Orphan(n)'
  <2>1. didFile'[n] # None
    BY <1>1, KeptStep DEF Orphan
  <2>2. Named(index'.items, n) = {}
    BY <1>1, NameOrigin DEF Orphan, Named
  <2>3. ASSUME NEW q \in Proc, req'[q].op = "Save", req'[q].name = n
        PROVE  pc'[q] \notin {"indexTmp", "indexRename"}
    <3>1. CASE UNCHANGED vars
      BY <1>1, <2>3, <3>1 DEF Orphan, vars
    <3>2. CASE Run(q)
      <4> SUFFICES ASSUME pc'[q] \in {"indexTmp", "indexRename"} PROVE FALSE
        OBVIOUS
      <4>1. /\ req'[q] = req[q]
            /\ pc[q] = "didRename" \/ pc[q] = "indexTmp"
        BY <1>1, <2>3, <3>2, SaveReachesIndex
      <4>2. pc[q] = "didRename"
        BY <1>1, <2>3, <4>1 DEF Orphan
      <4> QED
        BY <1>1, <2>3, <4>1, <4>2 DEF Orphan, IInv, SaveProgress, SaveAt
    <3>3. ASSUME NEW p \in Proc, Run(p), p # q PROVE pc'[q] \notin {"indexTmp", "indexRename"}
      BY <1>1, <2>3, <3>3, OthersKeep DEF Orphan, IInv
    <3> QED
      BY <1>1, <3>1, <3>2, <3>3 DEF Next
  <2> QED
    BY <2>1, <2>2, <2>3 DEF Orphan
<1>2. IInv /\ [Next]_vars => [\A n \in Name : Orphan(n) => Orphan(n)']_vars
  BY <1>1
<1> QED
  BY InductiveInvariant, <1>2, PTL DEF Spec, OrphansAreForever

(* Where nothing fails there are none: who has renamed did.json goes on to *)
(* the index, inside the lock.                                             *)
NoOrphan == \A n \in Name : ~Orphan(n)

LEMMA NoOrphanStep ==
  ASSUME ~MayFail, IInv, NoOrphan, [Next]_vars
  PROVE  NoOrphan'
<1> USE StoreAssumption DEF IInv, TypeOK, Goto
<1> SUFFICES ASSUME NEW n \in Name, didFile'[n] # None, Named(index'.items, n) = {}
             PROVE  \E q \in Proc : /\ req'[q].op = "Save" /\ req'[q].name = n
                                    /\ pc'[q] \in {"indexTmp", "indexRename"}
  BY DEF NoOrphan, Orphan
<1>1. CASE UNCHANGED vars
  BY <1>1 DEF NoOrphan, Orphan, vars
<1>2. Named(index.items, n) = {}
  BY ItemsKeptStep DEF Named
<1>3. ASSUME NEW p \in Proc, Run(p), didFile[n] = None
      PROVE  req'[p].op = "Save" /\ req'[p].name = n /\ pc'[p] = "indexTmp"
  <2>1. RenameDid(p)
    BY <1>3, DiskFrame DEF disk, TruncateKey, FillKey, FillThrough, WriteDidTmp,
       WriteIndexTmp, RenameIndex
  <2> QED
    BY <1>3, <2>1 DEF RenameDid, SaveProgress, SaveAt
<1>4. ASSUME NEW p \in Proc, Run(p), didFile[n] # None
      PROVE  \E q \in Proc : /\ req'[q].op = "Save" /\ req'[q].name = n
                             /\ pc'[q] \in {"indexTmp", "indexRename"}
  <2>1. PICK q \in Proc : /\ req[q].op = "Save" /\ req[q].name = n
                          /\ pc[q] \in {"indexTmp", "indexRename"}
    BY <1>2, <1>4 DEF NoOrphan, Orphan
  <2>2. CASE p # q
    <3>1. req'[q] = req[q] /\ pc'[q] = pc[q]
      BY <1>4, <2>2, OthersKeep
    <3> QED
      BY <2>1, <3>1
  <2>3. CASE p = q /\ pc[q] = "indexTmp"
    <3>1. WriteIndexTmp(q)
      BY <1>4, <2>1, <2>3, RunCases
         DEF CallSave, CallSetCurrent, CallSetHandle, CallSetContact, CallLoad, Call, Acquire,
             Refused, ReadIndex, CheckSave, CheckSaveThen, CheckListed, TruncateKey, FillKey,
             FillThrough, WriteDidTmp, RenameDid, RenameIndex, Release, ReadCurrent, ReadDid,
             ReadMeta, StatKeys, ReadSigner, Return, FailWrite, Crash
    <3> QED
      BY <2>1, <3>1 DEF WriteIndexTmp
  <2>4. CASE p = q /\ pc[q] = "indexRename"
    <3>1. RenameIndex(q)
      BY <1>4, <2>1, <2>4, RunCases
         DEF CallSave, CallSetCurrent, CallSetHandle, CallSetContact, CallLoad, Call, Acquire,
             Refused, ReadIndex, CheckSave, CheckSaveThen, CheckListed, TruncateKey, FillKey,
             FillThrough, WriteDidTmp, RenameDid, WriteIndexTmp, Release, ReadCurrent, ReadDid,
             ReadMeta, StatKeys, ReadSigner, Return, FailWrite, Crash
    <3>2. index' = Changed(index, req[q])
      BY <2>4, <3>1 DEF RenameIndex, WriterFresh
    <3>3. NewItem(req[q]) \in index'.items /\ NewItem(req[q]).name = n
      BY <2>1, <3>2, ChangedFields DEF NewItem
    <3> QED
      BY <3>3 DEF Named
  <2> QED
    BY <2>1, <2>2, <2>3, <2>4
<1> QED
  BY <1>1, <1>3, <1>4 DEF Next

(* store.go 157-173: when no process dies and no file operation fails, the *)
(* identities on disk and those of the index are the same whenever nobody  *)
(* holds the lock.                                                         *)
THEOREM DiskAndIndexAgree ==
  ASSUME ~MayFail
  PROVE  Spec => []OnDiskIffListed
<1>1. Init => NoOrphan
  BY DEF Init, NoOrphan, Orphan
<1>2. IInv /\ NoOrphan /\ [Next]_vars => NoOrphan'
  BY NoOrphanStep
<1>3. IInv /\ NoOrphan => OnDiskIffListed
  <2> SUFFICES ASSUME IInv, NoOrphan, lock = None
               PROVE  {n \in Name : didFile[n] # None} = {it.name : it \in index.items}
    BY DEF OnDiskIffListed
  <2>1. ASSUME NEW n \in Name, didFile[n] # None PROVE \E it \in index.items : it.name = n
    <3>1. \A p \in Proc : pc[p] \notin Locked
      BY StoreAssumption DEF IInv, WriterAlone
    <3> QED
      BY <2>1, <3>1 DEF NoOrphan, Orphan, Named, Locked
  <2>2. \A it \in index.items : it.name \in Name /\ didFile[it.name] # None
    BY StoreAssumption DEF IInv, TypeOK, IndexSound, Index, Item
  <2> QED
    BY <2>1, <2>2
<1> QED
  BY InductiveInvariant, <1>1, <1>2, <1>3, PTL DEF Spec
-----------------------------------------------------------------------------
(* The refinement.  An index whose names are unique is a map from names to *)
(* entries. *)
LEMMA EntryOfItem ==
  ASSUME NEW items, \A it1, it2 \in items : it1.name = it2.name => it1 = it2,
         NEW it \in items
  PROVE  Entry(items, it.name) = Fields(it)
<1>1. Named(items, it.name) = {it}
  BY DEF Named
<1> QED
  BY <1>1 DEF Entry

(* The store's identities as the registry sees them.                     *)
LEMMA EntryType ==
  ASSUME NEW it \in Item
  PROVE  Fields(it) # None
BY StoreAssumption DEF Fields, Item

(* Updating one field of an identity leaves the others.                  *)
LEMMA FieldsUpdate ==
  ASSUME NEW it \in Item, NEW r \in Request, it.name = r.name
  PROVE  /\ Fields(WithHandle(it, r)) = [Fields(it) EXCEPT !.handle = r.handle]
         /\ Fields(WithContact(it, r)) = Registry!Described(Fields(it), r.email, r.phone)
<1>1. Fields(WithHandle(it, r)) = [Fields(it) EXCEPT !.handle = r.handle]
  <2>1. WithHandle(it, r) = [it EXCEPT !.handle = r.handle]
    BY DEF WithHandle
  <2> QED
    BY <2>1 DEF Fields, Item
<1>2. Fields(WithContact(it, r)) = Registry!Described(Fields(it), r.email, r.phone)
  <2>1. WithContact(it, r) = [did |-> it.did, handle |-> it.handle,
                              email |-> IF r.email = None THEN it.email ELSE r.email,
                              phone |-> IF r.phone = None THEN it.phone ELSE r.phone,
                              name |-> it.name]
    BY DEF WithContact, Item
  <2> QED
    BY <2>1 DEF Fields, Registry!Described
<1> QED
  BY <1>1, <1>2

(* An empty store is an empty registry.                                  *)
LEMMA InitRefines == Init => Registry!Init
BY DEF Init, Registry!Init, EmptyIndex, Entry, Named

(* Renaming the index is the registry's operation of that request.       *)
LEMMA RenameRefines ==
  ASSUME IInv, IInv', NEW p \in Proc, RenameIndex(p)
  PROVE  Registry!Next
<1> DEFINE r == req[p]
           n == r.name
           entry == [m \in Name |-> Entry(index.items, m)]
<1>1. /\ index \in Index /\ r \in Request /\ n \in Name /\ r.op \in Writes
      /\ index' = Changed(index, r)
      /\ r.op = "Save" => r.gen \in Gen /\ r.handle = None
      /\ r.op = "SetHandle" => r.handle \in Handle
  BY DEF IInv, TypeOK, RenameIndex, Goto, WriterFresh, WriterAlone, Locked
<1>2. /\ \A it1, it2 \in index.items : it1.name = it2.name => it1 = it2
      /\ \A it1, it2 \in index'.items : it1.name = it2.name => it1 = it2
      /\ index.items \subseteq Item
  BY <1>1 DEF IInv, IndexSound, Index
<1>3. CASE r.op = "Save"
  <2>1. Named(index.items, n) = {}
    BY <1>3 DEF IInv, RenameIndex, Goto, SaveProgress, SaveAt
  <2>2. /\ index'.items = index.items \cup {NewItem(r)}
        /\ index'.current = IF index.current = None THEN n ELSE index.current
    BY <1>1, <1>3, ChangedFields
  <2>3. Entry(index'.items, n) =
          [did |-> r.gen, handle |-> None, email |-> None, phone |-> None]
    <3>1. /\ NewItem(r).name = n /\ NewItem(r) \in index'.items
          /\ Fields(NewItem(r)) =
               [did |-> r.gen, handle |-> None, email |-> None, phone |-> None]
      BY <1>1, <1>3, <2>2 DEF NewItem, Fields
    <3> QED
      BY <1>2, <3>1, EntryOfItem
  <2>4. ASSUME NEW m \in Name, m # n
        PROVE  Entry(index'.items, m) = Entry(index.items, m)
    <3>1. NewItem(r).name = n
      BY DEF NewItem
    <3>2. Named(index'.items, m) = Named(index.items, m)
      BY <2>2, <2>4, <3>1 DEF Named
    <3> QED
      BY <3>2 DEF Entry
  <2>5. Entry(index.items, n) = None
    BY <2>1 DEF Entry
  <2>6. Registry!Create(n, r.gen)
    BY <1>1, <2>2, <2>3, <2>4, <2>5 DEF Registry!Create
  <2> QED
    BY <1>1, <1>3, <2>6 DEF Registry!Next
<1>4. CASE r.op # "Save"
  <2>1. PICK it \in index.items : it.name = n
    BY <1>4 DEF IInv, RenameIndex, Goto, WriterFresh, Named
  <2>2. Entry(index.items, n) = Fields(it) /\ Fields(it) # None /\ it \in Item
    BY <1>2, <2>1, EntryOfItem, EntryType
  <2>3. CASE r.op = "SetCurrent"
    <3>1. index'.items = index.items /\ index'.current = n
      BY <1>1, <2>3, ChangedFields
    <3>2. Registry!Select(n)
      BY <1>1, <2>2, <3>1 DEF Registry!Select
    <3> QED
      BY <1>1, <3>2 DEF Registry!Next
  <2>4. CASE r.op = "SetHandle"
    <3>1. /\ index'.items = {WithHandle(i, r) : i \in index.items}
          /\ index'.current = index.current
      BY <1>1, <2>4, ChangedFields
    <3>2. Entry(index'.items, n) = [Fields(it) EXCEPT !.handle = r.handle]
      <4>1. /\ WithHandle(it, r).name = n /\ WithHandle(it, r) \in index'.items
            /\ Fields(WithHandle(it, r)) = [Fields(it) EXCEPT !.handle = r.handle]
        BY <1>1, <2>1, <2>2, <3>1, ItemUpdate, FieldsUpdate
      <4> QED
        BY <1>2, <4>1, EntryOfItem
    <3>3. ASSUME NEW m \in Name, m # n
          PROVE  Entry(index'.items, m) = Entry(index.items, m)
      <4>1. \A i \in index.items : WithHandle(i, r).name = i.name
        BY <1>1, <1>2, ItemUpdate
      <4>2. \A i \in index.items : i.name = m => WithHandle(i, r) = i
        BY <3>3 DEF WithHandle
      <4>3. Named(index'.items, m) = Named(index.items, m)
        BY <3>1, <4>1, <4>2 DEF Named
      <4> QED
        BY <4>3 DEF Entry
    <3>4. Registry!BindHandle(n, r.handle)
      BY <1>1, <2>2, <3>1, <3>2, <3>3 DEF Registry!BindHandle
    <3> QED
      BY <1>1, <2>4, <3>4 DEF Registry!Next
  <2>5. CASE r.op = "SetContact"
    <3>1. /\ index'.items = {WithContact(i, r) : i \in index.items}
          /\ index'.current = index.current
      BY <1>1, <2>5, ChangedFields
    <3>2. Entry(index'.items, n) = Registry!Described(Fields(it), r.email, r.phone)
      <4>1. /\ WithContact(it, r).name = n /\ WithContact(it, r) \in index'.items
            /\ Fields(WithContact(it, r)) =
                 Registry!Described(Fields(it), r.email, r.phone)
        BY <2>1, <2>2, <3>1, <1>1, ItemUpdate, FieldsUpdate
      <4> QED
        BY <1>2, <4>1, EntryOfItem
    <3>3. ASSUME NEW m \in Name, m # n
          PROVE  Entry(index'.items, m) = Entry(index.items, m)
      <4>1. \A i \in index.items : WithContact(i, r).name = i.name
        BY <1>1, <1>2, ItemUpdate
      <4>2. \A i \in index.items : i.name = m => WithContact(i, r) = i
        BY <3>3 DEF WithContact
      <4>3. Named(index'.items, m) = Named(index.items, m)
        BY <3>1, <4>1, <4>2 DEF Named
      <4> QED
        BY <4>3 DEF Entry
    <3>4. Registry!SetContact(n, r.email, r.phone)
      BY <1>1, <2>2, <3>1, <3>2, <3>3 DEF Registry!SetContact
    <3>5. r.email \in Email \cup {None} /\ r.phone \in Phone \cup {None}
      BY <1>1 DEF Request
    <3> QED
      BY <1>1, <3>4, <3>5 DEF Registry!Next
  <2> QED
    BY <1>1, <1>4, <2>3, <2>4, <2>5 DEF Writes
<1> QED
  BY <1>3, <1>4

(* store.go 107-321: the store implements the atomic registry, so no writer *)
(* ever loses another's update. *)
THEOREM ImplementsRegistry == Spec => RegistrySpec
<1>1. ASSUME IInv, IInv', [Next]_vars
      PROVE  [Registry!Next]_<<[n \in Name |-> Entry(index.items, n)], index.current>>
  <2>1. CASE index' = index
    BY <2>1
  <2>2. ASSUME NEW p \in Proc, RenameIndex(p)
        PROVE  Registry!Next
    BY <1>1, <2>2, RenameRefines
  <2> QED
    BY <1>1, <2>1, <2>2, DiskFrame
       DEF Next, vars, disk, TruncateKey, FillKey, FillThrough, WriteDidTmp, RenameDid,
           WriteIndexTmp
<1> QED
  BY InitRefines, InductiveInvariant, <1>1, PTL DEF Spec, RegistrySpec, Registry!Spec
=============================================================================
