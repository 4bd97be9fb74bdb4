---------------------------- MODULE GroupsProofs ----------------------------
(***************************************************************************)
(* Proofs about Groups and the Handles it composes: whose a handle is,     *)
(* who a handle adds to a group, what a version number tells, how old an   *)
(* answer may be, where the mentions of a message point, and that all of   *)
(* it implements GroupRegistry.                                            *)
(*                                                                         *)
(* The argument rests on two things that only grow. A handle that is bound *)
(* stays bound to the same DID, so that what the backend answered is still *)
(* true when the store is told; and the history of a group only gets       *)
(* longer, so that what an answer was drawn from stays in it whatever the  *)
(* others do before the answer is encoded.                                 *)
(***************************************************************************)
EXTENDS Groups, MentionsProofs

(* What a registration has in memory is still so in the store.             *)
RegisteringAt(q) ==
  LET c == doing[q] IN
  /\ at[q] # "idle" => /\ c.name \in Name /\ c.handle \in Handle
                       /\ entry[c.name] # None /\ entry[c.name].did = c.did
  /\ at[q] = "handle" => bound[c.handle] = c.did
HInv ==
  /\ H!HandlesTypeOK
  /\ current # None => entry[current] # None
  /\ \A q \in Registrar : RegisteringAt(q)
  /\ H!HandlesAreOurs

BoundStays == \A h \in Handle : bound[h] # None => bound'[h] = bound[h]
EntryStays == \A n \in Name : entry[n] # None => entry'[n] # None /\ entry'[n].did = entry[n].did

(* Handles are ours at first.                                            *)
LEMMA InitHInv ==
  ASSUME H!HandlesInit
  PROVE  HInv
<1>1. /\ entry = [n \in Name |-> None] /\ current = None
  BY DEF H!HandlesInit, H!Registry!Init
<1>2. \A q \in Registrar : at[q] = "idle"
  BY DEF H!HandlesInit
<1>3. H!HandlesTypeOK
  BY <1>1, GroupsAssumption DEF H!HandlesInit, H!HandlesTypeOK, H!Idle
<1> QED
  BY <1>1, <1>2, <1>3 DEF HInv, RegisteringAt, H!HandlesAreOurs, H!Existing

(* An identity of the store: the DID stays, the handle is given.           *)
LEMMA IdentityType ==
  ASSUME NEW n \in Name, H!HandlesTypeOK, entry[n] # None
  PROVE  /\ entry[n] \in H!Registry!Identity /\ entry[n].did \in Gen
         /\ entry[n].did \in Did /\ entry[n].did # None
         /\ entry[n].handle \in Handle \cup {None}
BY GroupsAssumption DEF H!HandlesTypeOK, H!Registry!Identity, Did

(* The store alone changes: nobody loses an identity.                      *)
LEMMA StoreKeeps ==
  ASSUME HInv, EntryStays, entry' \in [Name -> H!Registry!Identity \cup {None}],
         \A n \in Name : entry'[n] # None /\ entry'[n].handle # None =>
           bound[entry'[n].handle] = entry'[n].did,
         current' \in Name \cup {None}, current' # None => entry'[current'] # None,
         UNCHANGED <<known, bound>>, failed' \in 0..MaxFaults,
         at' \in [Registrar -> {"idle", "ask", "handle", "contact"}],
         doing' \in [Registrar -> [name : Name \cup {None}, did : Gen \cup {None},
                              handle : Handle \cup {None}, email : Email \cup {None}]],
         \A q \in Registrar : \/ at'[q] \in {"idle", at[q]} /\ (at'[q] = "idle" \/ doing'[q] = doing[q])
                              \/ at[q] # "idle" /\ at'[q] = "contact" /\ doing'[q] = doing[q]
  PROVE  HInv' /\ BoundStays
<1>1. H!HandlesTypeOK'
  BY DEF HInv, H!HandlesTypeOK
<1>2. \A q \in Registrar : RegisteringAt(q)'
  BY DEF HInv, RegisteringAt, EntryStays
<1>3. H!HandlesAreOurs'
  BY DEF H!HandlesAreOurs, H!Existing
<1> QED
  BY <1>1, <1>2, <1>3 DEF HInv, BoundStays

(* `id create`: a new identity shows no handle.                          *)
LEMMA NewIdentityStep ==
  ASSUME HInv, H!NewIdentity
  PROVE  HInv' /\ BoundStays
<1>0. H!HandlesTypeOK /\ H!HandlesAreOurs
  BY DEF HInv
<1>1. PICK n \in Name, g \in Gen : H!Registry!Create(n, g)
  BY DEF H!NewIdentity
<1> DEFINE i == [did |-> g, handle |-> None, email |-> None, phone |-> None]
<1>2. i \in H!Registry!Identity /\ i.handle = None
  BY DEF H!Registry!Identity
<1>3. /\ entry[n] = None /\ entry' = [entry EXCEPT ![n] = i]
      /\ current' = IF current = None THEN n ELSE current
      /\ UNCHANGED <<known, bound, at, doing, failed>>
  BY <1>1 DEF H!Registry!Create, H!NewIdentity
<1> HIDE DEF i
<1>4. /\ entry' \in [Name -> H!Registry!Identity \cup {None}]
      /\ entry'[n] = i /\ \A k \in Name : k # n => entry'[k] = entry[k]
  BY <1>0, <1>2, <1>3 DEF H!HandlesTypeOK
<1>5. i # None
  BY <1>2, GroupsAssumption
<1>6. EntryStays /\ (current' # None => entry'[current'] # None) /\ current' \in Name \cup {None}
  BY <1>0, <1>3, <1>4, <1>5 DEF EntryStays, HInv, H!HandlesTypeOK
<1>7. \A k \in Name : entry'[k] # None /\ entry'[k].handle # None =>
        bound[entry'[k].handle] = entry'[k].did
  BY <1>0, <1>2, <1>4 DEF H!HandlesAreOurs, H!Existing
<1> QED
  BY <1>0, <1>3, <1>4, <1>6, <1>7, StoreKeeps DEF H!HandlesTypeOK

(* `id use` changes nothing but the default.                             *)
LEMMA UseIdentityStep ==
  ASSUME HInv, H!UseIdentity
  PROVE  HInv' /\ BoundStays
<1>0. H!HandlesTypeOK /\ H!HandlesAreOurs
  BY DEF HInv
<1>1. PICK n \in Name : H!Registry!Select(n)
  BY DEF H!UseIdentity
<1>2. /\ entry[n] # None /\ current' = n
      /\ UNCHANGED <<entry, known, bound, at, doing, failed>>
  BY <1>1 DEF H!Registry!Select, H!UseIdentity
<1>3. EntryStays
  BY <1>2 DEF EntryStays
<1>4. \A k \in Name : entry'[k] # None /\ entry'[k].handle # None =>
        bound[entry'[k].handle] = entry'[k].did
  BY <1>0, <1>2 DEF H!HandlesAreOurs, H!Existing
<1> QED
  BY <1>0, <1>2, <1>3, <1>4, StoreKeeps DEF H!HandlesTypeOK

(* SetHandle shows a handle that the backend has bound to the identity's *)
(* own DID (identity/service.go 148).                                    *)
LEMMA SetHandleStep ==
  ASSUME HInv, NEW q \in Registrar, H!SetHandle(q)
  PROVE  HInv' /\ BoundStays
<1>0. H!HandlesTypeOK /\ H!HandlesAreOurs /\ RegisteringAt(q)
  BY DEF HInv
<1> DEFINE n == doing[q].name
           h == doing[q].handle
           i == [entry[n] EXCEPT !.handle = h]
<1>1. /\ at[q] = "handle" /\ at' = [at EXCEPT ![q] = "contact"]
      /\ entry' = [entry EXCEPT ![n] = i] /\ current' = current
      /\ UNCHANGED <<known, bound, doing, failed>>
  BY DEF H!SetHandle, H!SetHandleOf, H!Step, H!Registry!BindHandle
<1>2. /\ n \in Name /\ h \in Handle /\ entry[n] # None
      /\ entry[n].did = doing[q].did /\ bound[h] = doing[q].did
  BY <1>0, <1>1 DEF RegisteringAt
<1>3. entry[n] \in H!Registry!Identity
  BY <1>0, <1>2, IdentityType
<1>4. i \in H!Registry!Identity /\ i.did = entry[n].did /\ i.handle = h
  BY <1>2, <1>3 DEF H!Registry!Identity
<1>5. i # None
  BY <1>4, GroupsAssumption
<1> HIDE DEF i
<1>6. /\ entry' \in [Name -> H!Registry!Identity \cup {None}]
      /\ entry'[n] = i /\ \A k \in Name : k # n => entry'[k] = entry[k]
  BY <1>0, <1>1, <1>2, <1>4 DEF H!HandlesTypeOK
<1>7. EntryStays /\ (current' # None => entry'[current'] # None)
  BY <1>0, <1>1, <1>4, <1>5, <1>6 DEF EntryStays, HInv, H!HandlesTypeOK
<1>8. \A k \in Name : entry'[k] # None /\ entry'[k].handle # None =>
        bound[entry'[k].handle] = entry'[k].did
  BY <1>0, <1>2, <1>4, <1>6 DEF H!HandlesAreOurs, H!Existing
<1>9. /\ at' \in [Registrar -> {"idle", "ask", "handle", "contact"}]
      /\ \A r \in Registrar : \/ at'[r] = at[r]
                              \/ at[r] # "idle" /\ at'[r] = "contact"
  BY <1>0, <1>1 DEF H!HandlesTypeOK
<1> QED
  BY <1>0, <1>1, <1>6, <1>7, <1>8, <1>9, StoreKeeps DEF H!HandlesTypeOK

(* SetContact leaves handles alone (identity/service.go 151-155).        *)
LEMMA SetContactStep ==
  ASSUME HInv, NEW q \in Registrar, H!SetContact(q)
  PROVE  HInv' /\ BoundStays
<1>0. H!HandlesTypeOK /\ H!HandlesAreOurs /\ RegisteringAt(q)
  BY DEF HInv
<1> DEFINE n == doing[q].name
           e == doing[q].email
           i == H!Registry!Described(entry[n], e, None)
<1>1. /\ at[q] = "contact" /\ at' = [at EXCEPT ![q] = "idle"]
      /\ doing' = [doing EXCEPT ![q] = H!Idle]
      /\ entry' = [entry EXCEPT ![n] = i] /\ current' = current
      /\ UNCHANGED <<known, bound, failed>>
  BY DEF H!SetContact, H!Done, H!Step, H!Registry!SetContact
<1>2. /\ n \in Name /\ entry[n] # None /\ e \in Email \cup {None}
  BY <1>0, <1>1 DEF RegisteringAt, H!HandlesTypeOK
<1>3. entry[n] \in H!Registry!Identity
  BY <1>0, <1>2, IdentityType
<1>4. i \in H!Registry!Identity /\ i.did = entry[n].did /\ i.handle = entry[n].handle
  BY <1>2, <1>3 DEF H!Registry!Identity, H!Registry!Described
<1>5. i # None
  BY <1>4, GroupsAssumption
<1> HIDE DEF i
<1>6. /\ entry' \in [Name -> H!Registry!Identity \cup {None}]
      /\ entry'[n] = i /\ \A k \in Name : k # n => entry'[k] = entry[k]
  BY <1>0, <1>1, <1>2, <1>4 DEF H!HandlesTypeOK
<1>7. EntryStays /\ (current' # None => entry'[current'] # None)
  BY <1>0, <1>1, <1>4, <1>5, <1>6 DEF EntryStays, HInv, H!HandlesTypeOK
<1>8. \A k \in Name : entry'[k] # None /\ entry'[k].handle # None =>
        bound[entry'[k].handle] = entry'[k].did
  BY <1>0, <1>2, <1>4, <1>6 DEF H!HandlesAreOurs, H!Existing
<1>9. /\ at' \in [Registrar -> {"idle", "ask", "handle", "contact"}]
      /\ doing' \in [Registrar -> [name : Name \cup {None}, did : Gen \cup {None},
                              handle : Handle \cup {None}, email : Email \cup {None}]]
      /\ \A r \in Registrar : at'[r] = "idle" \/ (at'[r] = at[r] /\ doing'[r] = doing[r])
  BY <1>0, <1>1 DEF H!HandlesTypeOK, H!Idle
<1> QED
  BY <1>0, <1>1, <1>6, <1>7, <1>8, <1>9, StoreKeeps DEF H!HandlesTypeOK

(* The backend alone changes: a handle goes only to a DID that may have    *)
(* it, and whoever shows it is that DID.                                   *)
LEMMA BackendKeeps ==
  ASSUME HInv, UNCHANGED <<entry, current>>, BoundStays,
         bound' \in [Handle -> Gen \cup Peer \cup {None}],
         known' \subseteq Gen \cup Peer, failed' \in 0..MaxFaults,
         at' \in [Registrar -> {"idle", "ask", "handle", "contact"}],
         doing' \in [Registrar -> [name : Name \cup {None}, did : Gen \cup {None},
                              handle : Handle \cup {None}, email : Email \cup {None}]],
         \A q \in Registrar :
           \/ at'[q] = "idle" \/ (at'[q] = at[q] /\ doing'[q] = doing[q])
           \/ RegisteringAt(q)'
  PROVE  HInv'
<1>0. H!HandlesTypeOK
  BY DEF HInv
<1>1. H!HandlesTypeOK'
  BY DEF HInv, H!HandlesTypeOK
<1>2. ASSUME NEW q \in Registrar
      PROVE  RegisteringAt(q)'
  <2>1. CASE at'[q] = at[q] /\ doing'[q] = doing[q]
    <3>1. RegisteringAt(q) /\ (at[q] = "handle" => doing[q].did \in Gen)
      BY <1>0, IdentityType DEF HInv, RegisteringAt
    <3>2. at[q] = "handle" => bound[doing[q].handle] # None
      BY <3>1, GroupsAssumption DEF RegisteringAt, Did
    <3> QED
      BY <2>1, <3>1, <3>2 DEF RegisteringAt, BoundStays
  <2> QED
    BY <2>1 DEF RegisteringAt
<1>3. H!HandlesAreOurs'
  <2> SUFFICES ASSUME NEW n \in Name, entry[n] # None, entry[n].handle # None
               PROVE  bound'[entry[n].handle] = entry[n].did
    BY DEF H!HandlesAreOurs, H!Existing
  <2>1. bound[entry[n].handle] = entry[n].did
    BY DEF HInv, H!HandlesAreOurs, H!Existing
  <2> QED
    BY <1>0, <2>1, IdentityType DEF BoundStays
<1> QED
  BY <1>1, <1>2, <1>3 DEF HInv

(* A handle that is granted stays granted (mock.go 792-804).             *)
LEMMA GrantStays ==
  ASSUME H!HandlesTypeOK, NEW h \in Handle, NEW d \in Gen \cup Peer,
         H!MayHave(h, d), H!Grant(h, d)
  PROVE  /\ BoundStays /\ bound'[h] = d
         /\ bound' \in [Handle -> Gen \cup Peer \cup {None}]
BY DEF H!HandlesTypeOK, H!MayHave, H!Grant, BoundStays

(* Every step of `id register` and `id recover` keeps HInv.              *)
LEMMA RegistrarStep ==
  ASSUME HInv, NEW q \in Registrar,
         H!StartRegister(q) \/ H!Ask(q) \/ H!Refused(q) \/ H!Fail(q)
  PROVE  HInv' /\ BoundStays
<1>0. H!HandlesTypeOK /\ RegisteringAt(q)
  BY DEF HInv
<1> DEFINE Doing == [name : Name \cup {None}, did : Gen \cup {None},
                     handle : Handle \cup {None}, email : Email \cup {None}]
<1>t. /\ bound \in [Handle -> Gen \cup Peer \cup {None}] /\ doing \in [Registrar -> Doing]
      /\ at \in [Registrar -> {"idle", "ask", "handle", "contact"}]
      /\ known \subseteq Gen \cup Peer /\ failed \in 0..MaxFaults
  BY <1>0 DEF H!HandlesTypeOK
<1>1. CASE H!StartRegister(q)
  <2>1. PICK h \in Handle, e \in Email \cup {None} :
          doing' = [doing EXCEPT ![q] = [name |-> current, did |-> entry[current].did,
                                         handle |-> h, email |-> e]]
    BY <1>1 DEF H!StartRegister
  <2>2. /\ current # None /\ at' = [at EXCEPT ![q] = "ask"]
        /\ UNCHANGED <<entry, current, known, bound, failed>>
    BY <1>1 DEF H!StartRegister, H!Step, H!store
  <2>3. current \in Name /\ entry[current] # None /\ entry[current].did \in Gen
    BY <1>0, <2>2, IdentityType DEF HInv, H!HandlesTypeOK
  <2> DEFINE c == [name |-> current, did |-> entry[current].did, handle |-> h, email |-> e]
  <2>4. c \in Doing /\ c.name = current /\ c.did = entry[current].did /\ c.handle = h
    BY <2>3
  <2>5. doing' = [doing EXCEPT ![q] = c]
    BY <2>1
  <2> HIDE DEF c, Doing
  <2>6. /\ doing' \in [Registrar -> Doing] /\ doing'[q] = c
        /\ \A r \in Registrar : r # q => doing'[r] = doing[r] /\ at'[r] = at[r]
        /\ at'[q] = "ask" /\ at' \in [Registrar -> {"idle", "ask", "handle", "contact"}]
    BY <1>t, <2>2, <2>4, <2>5
  <2>7. RegisteringAt(q)'
    BY <2>2, <2>3, <2>4, <2>6 DEF RegisteringAt
  <2>8. BoundStays
    BY <2>2 DEF BoundStays
  <2> USE DEF Doing
  <2> QED
    BY <1>t, <2>2, <2>6, <2>7, <2>8, BackendKeeps
<1>2. CASE H!Ask(q)
  <2>1. /\ at[q] = "ask" /\ at' = [at EXCEPT ![q] = "handle"]
        /\ H!MayHave(doing[q].handle, doing[q].did)
        /\ H!Grant(doing[q].handle, doing[q].did)
        /\ UNCHANGED <<entry, current, known, doing, failed>>
    BY <1>2 DEF H!Ask, H!AskIf, H!Step, H!store
  <2>2. doing[q].handle \in Handle /\ doing[q].did \in Gen
    BY <1>0, <2>1, IdentityType DEF RegisteringAt
  <2>3. /\ BoundStays /\ bound'[doing[q].handle] = doing[q].did
        /\ bound' \in [Handle -> Gen \cup Peer \cup {None}]
    BY <1>0, <2>1, <2>2, GrantStays
  <2>4. RegisteringAt(q)'
    BY <1>0, <1>t, <2>1, <2>3 DEF RegisteringAt
  <2>5. /\ at' \in [Registrar -> {"idle", "ask", "handle", "contact"}]
        /\ \A r \in Registrar : r # q => at'[r] = at[r]
    BY <1>t, <2>1
  <2> QED
    BY <1>t, <2>1, <2>3, <2>4, <2>5, BackendKeeps
<1>3. CASE H!Refused(q) \/ H!Fail(q)
  <2>1. /\ at' = [at EXCEPT ![q] = "idle"] /\ doing' = [doing EXCEPT ![q] = H!Idle]
        /\ UNCHANGED <<entry, current, known>>
        /\ failed' = failed \/ (failed < MaxFaults /\ failed' = failed + 1)
    BY <1>3 DEF H!Refused, H!Fail, H!Done, H!Step, H!store
  <2>2. BoundStays /\ bound' \in [Handle -> Gen \cup Peer \cup {None}]
    <3>1. CASE UNCHANGED bound
      BY <1>t, <3>1 DEF BoundStays
    <3>2. CASE /\ at[q] = "ask" /\ H!MayHave(doing[q].handle, doing[q].did)
               /\ H!Grant(doing[q].handle, doing[q].did)
      <4>1. doing[q].handle \in Handle /\ doing[q].did \in Gen
        BY <1>0, <3>2, IdentityType DEF RegisteringAt
      <4> QED
        BY <1>0, <3>2, <4>1, GrantStays
    <3> QED
      BY <1>3, <3>1, <3>2 DEF H!Refused, H!Fail
  <2>3. H!Idle \in Doing
    BY DEF H!Idle
  <2>4. /\ at' \in [Registrar -> {"idle", "ask", "handle", "contact"}]
        /\ doing' \in [Registrar -> Doing]
        /\ \A r \in Registrar : at'[r] = "idle" \/ (at'[r] = at[r] /\ doing'[r] = doing[r])
    BY <1>t, <2>1, <2>3
  <2>5. failed' \in 0..MaxFaults
    BY <1>t, <2>1, GroupsAssumption
  <2> QED
    BY <1>t, <2>1, <2>2, <2>4, <2>5, BackendKeeps
<1> QED
  BY <1>1, <1>2, <1>3

(* Documents and a peer's handles.                                         *)
LEMMA PeerStep ==
  ASSUME HInv, H!RegisterDocument \/ H!PeerRegisters
  PROVE  HInv' /\ BoundStays
<1>0. H!HandlesTypeOK
  BY DEF HInv
<1>1. CASE H!RegisterDocument
  <2>1. PICK d \in {entry[n].did : n \in H!Existing} \cup Peer : known' = known \cup {d}
    BY <1>1 DEF H!RegisterDocument
  <2>2. d \in Gen \cup Peer
    BY <1>0, <2>1, IdentityType DEF H!Existing
  <2>3. known' \subseteq Gen \cup Peer
    BY <1>0, <2>1, <2>2 DEF H!HandlesTypeOK
  <2>4. UNCHANGED <<entry, current, bound, at, doing, failed>>
    BY <1>1 DEF H!RegisterDocument, H!store
  <2>5. BoundStays
    BY <2>4 DEF BoundStays
  <2> QED
    BY <1>0, <2>3, <2>4, <2>5, BackendKeeps DEF H!HandlesTypeOK
<1>2. CASE H!PeerRegisters
  <2>1. PICK h \in Handle, d \in Peer : H!MayHave(h, d) /\ H!Grant(h, d)
    BY <1>2 DEF H!PeerRegisters
  <2>2. UNCHANGED <<entry, current, known, at, doing, failed>>
    BY <1>2 DEF H!PeerRegisters, H!store
  <2>3. BoundStays /\ bound' \in [Handle -> Gen \cup Peer \cup {None}]
    BY <1>0, <2>1, GrantStays
  <2> QED
    BY <1>0, <2>2, <2>3, BackendKeeps DEF H!HandlesTypeOK
<1> QED
  BY <1>1, <1>2

(* Every step of Handles keeps HInv.                                     *)
LEMMA HandlesStep ==
  ASSUME HInv, H!HandlesNext
  PROVE  HInv' /\ BoundStays
BY NewIdentityStep, UseIdentityStep, PeerStep, RegistrarStep, SetHandleStep, SetContactStep
   DEF H!HandlesNext

(* Who acts has a DID.                                                     *)
LEMMA ActingType ==
  ASSUME HInv
  PROVE  Acting \subseteq Did
BY IdentityType DEF HInv, H!HandlesTypeOK, Acting, Did
-----------------------------------------------------------------------------
Reply == [version : Nat, listed : SUBSET Did]

(* What a command names is what its call needs.                            *)
CmdAt(p) ==
  LET c == cmd[p] IN
  /\ pc[p] # "idle" => c.op \in Op /\ c.me \in Did
  /\ pc[p] # "idle" /\ c.op # "create" => c.group \in Group
  /\ c.op = "remove" => c.did \in Did
  /\ c.op = "add" => c.did = None \/ c.handle = None

(* The history of a group ends with what the group is.                     *)
Logged ==
  \A g \in Group :
    /\ group[g] = None => log[g] = <<>>
    /\ group[g] # None => Len(log[g]) = group[g].version /\ log[g][Len(log[g])] = group[g].state
Steps == \A g \in Group : \A v \in 2..Len(log[g]) : OneChange(log[g][v - 1], log[g][v])
Apart ==
  \A g \in Group, p, q \in Proc :
    p # q /\ Changing(p, g) /\ Changing(q, g) => reply[p].version # reply[q].version

(* What an answer holds was true at its version, and whoever is listed     *)
(* there is still in the group's map.                                      *)
Added(p) ==
  LET c == cmd[p] IN
  c.op = "add" /\ c.handle # None =>
    /\ c.handle \in Handle /\ bound[c.handle] # None
    /\ log[c.group][reply[p].version].members[bound[c.handle]] =
         [role |-> c.role, status |-> "active"]
AnswerAt(p) ==
  LET c == cmd[p] IN
  pc[p] \in {"answer", "shown"} =>
    /\ c.group \in Group /\ group[c.group] # None
    /\ reply[p].version \in 1..Len(log[c.group])
    /\ reply[p].listed = Listed(log[c.group][reply[p].version])
    /\ reply[p].listed \subseteq Listed(group[c.group].state)
    /\ Added(p)
    /\ pc[p] = "shown" => KeepsUp(p)

VersionBound == \A g \in Group : group[g] # None => group[g].version <= may.versions
Types == TypeOK /\ cmd \in [Proc -> Cmd] /\ reply \in [Proc -> Reply]
IInv == /\ Types /\ VersionBound /\ HInv /\ Logged /\ Steps /\ Apart
        /\ \A p \in Proc : CmdAt(p) /\ AnswerAt(p)

(* A group is never forgotten, nobody leaves its map, and its history only *)
(* gets longer.                                                            *)
Grows ==
  \A g \in Group :
    /\ group[g] # None => group'[g] # None /\ Listed(group[g].state) \subseteq Listed(group'[g].state)
    /\ Len(log[g]) <= Len(log'[g])
    /\ \A v \in 1..Len(log[g]) : log'[g][v] = log[g][v]

(* What a process holds between its commands is like what it holds       *)
(* within one.                                                           *)
LEMMA NewValues ==
  /\ NoCmd \in Cmd /\ NoReply \in Reply /\ NoView \in State /\ Empty \in Map
  /\ NoCmd.op = "none"
<1>1. [k \in {} |-> None] \in Patch
  <2>1. {} \in SUBSET Key /\ [k \in {} |-> None] \in [{} -> Val \cup {None}]
    OBVIOUS
  <2> QED
    BY <2>1 DEF Patch
<1>2. NoCmd \in Cmd /\ NoCmd.op = "none"
  BY <1>1 DEF NoCmd, Cmd
<1> QED
  BY <1>2 DEF NoReply, NoView, Empty, Reply, State, Map

(* The history and the record of a group.                                *)
LEMMA RecordType ==
  ASSUME Types, Logged, NEW g \in Group
  PROVE  /\ log[g] \in Seq(State) /\ Len(log[g]) \in Nat
         /\ group[g] # None =>
              /\ group[g] \in Record /\ group[g].state \in State
              /\ group[g].version \in Nat /\ group[g].version >= 1
              /\ Len(log[g]) = group[g].version /\ log[g][Len(log[g])] = group[g].state
BY LenProperties DEF Types, TypeOK, Record, Logged

(* An answer stays as good as it was while groups and handles grow.        *)
LEMMA AnswerStays ==
  ASSUME Types, Logged, Grows, BoundStays, NEW p \in Proc, AnswerAt(p),
         pc'[p] = pc[p], cmd'[p] = cmd[p], reply'[p] = reply[p], view'[p] = view[p],
         log' \in [Group -> Seq(State)]
  PROVE  AnswerAt(p)'
<1> DEFINE g == cmd[p].group
           n == reply[p].version
<1>1. SUFFICES ASSUME pc[p] \in {"answer", "shown"}
               PROVE  AnswerAt(p)'
  BY DEF AnswerAt
<1>2. /\ g \in Group /\ group[g] # None /\ n \in 1..Len(log[g])
      /\ reply[p].listed = Listed(log[g][n]) /\ reply[p].listed \subseteq Listed(group[g].state)
      /\ Added(p) /\ (pc[p] = "shown" => KeepsUp(p))
  BY <1>1 DEF AnswerAt
<1>3. Len(log[g]) \in Nat /\ Len(log'[g]) \in Nat
  BY <1>2, RecordType, LenProperties
<1>4. /\ group'[g] # None /\ Listed(group[g].state) \subseteq Listed(group'[g].state)
      /\ Len(log[g]) <= Len(log'[g]) /\ \A v \in 1..Len(log[g]) : log'[g][v] = log[g][v]
  BY <1>2 DEF Grows
<1>5. n \in 1..Len(log'[g]) /\ log'[g][n] = log[g][n] /\ n \in Nat
  BY <1>2, <1>3, <1>4
<1>6. n .. Len(log[g]) \subseteq n .. Len(log'[g])
      /\ \A v \in n .. Len(log[g]) : log'[g][v] = log[g][v]
  BY <1>2, <1>3, <1>4
<1> HIDE DEF n, g
<1>7. Added(p)'
  <2>1. Added(p)
    BY <1>2
  <2> QED
    BY <1>5, <2>1 DEF Added, BoundStays, n, g
<1>8. pc[p] = "shown" => KeepsUp(p)'
  <2> SUFFICES ASSUME pc[p] = "shown" PROVE KeepsUp(p)'
    OBVIOUS
  <2>0. KeepsUp(p)
    BY <1>2
  <2>1. /\ cmd'[p] = cmd[p] /\ reply'[p] = reply[p] /\ view'[p] = view[p]
        /\ cmd'[p].group = g /\ reply'[p].version = n
    BY DEF g, n
  <2>2. ASSUME cmd'[p].op = "info", NEW d \in Did
        PROVE  LET l == log'[cmd'[p].group]
               IN  /\ view'[p].members[d] = None <=> l[reply'[p].version].members[d] = None
                   /\ view'[p].members[d] # None =>
                        \E v \in reply'[p].version .. Len(l) : l[v].members[d] = view'[p].members[d]
    <3>1. /\ view[p].members[d] = None <=> log[g][n].members[d] = None
          /\ view[p].members[d] # None =>
                \E v \in n .. Len(log[g]) : log[g][v].members[d] = view[p].members[d]
      BY <2>0, <2>1, <2>2 DEF KeepsUp, n, g
    <3> QED
      BY <1>5, <1>6, <2>1, <3>1
  <2>3. ASSUME cmd'[p].op \in {"info", "update"}, NEW k \in Key
        PROVE  LET l == log'[cmd'[p].group]
               IN  \E v \in reply'[p].version .. Len(l) : l[v].profile[k] = view'[p].profile[k]
    <3>1. \E v \in n .. Len(log[g]) : log[g][v].profile[k] = view[p].profile[k]
      BY <2>0, <2>1, <2>3 DEF KeepsUp, n, g
    <3> QED
      BY <1>6, <2>1, <3>1
  <2>4. ASSUME cmd'[p].op \in {"info", "policy"}, NEW k \in Key
        PROVE  LET l == log'[cmd'[p].group]
               IN  \E v \in reply'[p].version .. Len(l) : l[v].policy[k] = view'[p].policy[k]
    <3>1. \E v \in n .. Len(log[g]) : log[g][v].policy[k] = view[p].policy[k]
      BY <2>0, <2>1, <2>4 DEF KeepsUp, n, g
    <3> QED
      BY <1>6, <2>1, <3>1
  <2> QED
    BY <2>2, <2>3, <2>4, Zenon DEF KeepsUp
<1>9. /\ reply'[p].listed = {d \in Did : log'[g][n].members[d] # None}
      /\ reply'[p].listed \subseteq {d \in Did : group'[g].state.members[d] # None}
  BY <1>2, <1>4, <1>5 DEF Listed
<1> QED
  BY <1>2, <1>4, <1>5, <1>7, <1>8, <1>9 DEF AnswerAt, n, g, Listed

(* What the changes do to a state.                                         *)
Successor(s, t) ==
  t \in State /\ OneChange(s, t) /\ Listed(s) \subseteq Listed(t)

(* A member who joins or is added: one entry of the map (mock.go         *)
(* 664-673).                                                             *)
LEMMA UpsertedState ==
  ASSUME NEW s \in State, NEW d \in Did, NEW r \in {"owner", "member"}
  PROVE  Successor(s, Upserted(s, d, r))
         /\ Upserted(s, d, r).members[d] = [role |-> r, status |-> "active"]
<1> DEFINE m == [role |-> r, status |-> "active"]
           t == Upserted(s, d, r)
<1>1. m \in Member /\ m # None
  BY GroupsAssumption DEF Member
<1>2. t = [s EXCEPT !.members = [s.members EXCEPT ![d] = m]]
  BY DEF Upserted, State
<1> HIDE DEF m
<1>3. /\ s.members \in [Did -> Member \cup {None}] /\ s.profile \in Map /\ s.policy \in Map
  BY DEF State
<1>4. [s.members EXCEPT ![d] = m] \in [Did -> Member \cup {None}]
  BY <1>1, <1>3
<1>5. /\ t \in State /\ t.profile = s.profile /\ t.policy = s.policy
      /\ t.members = [s.members EXCEPT ![d] = m]
  BY <1>2, <1>4 DEF State
<1> HIDE DEF t
<1>6. t.members[d] = m /\ \A x \in Did : x # d => t.members[x] = s.members[x]
  BY <1>3, <1>5
<1>7. OneChange(s, t)
  BY <1>2, <1>3, <1>5 DEF OneChange, State, t
<1>8. Listed(s) \subseteq Listed(t)
  BY <1>1, <1>6 DEF Listed
<1> QED
  BY <1>5, <1>6, <1>7, <1>8 DEF Successor, t, m

(* A member who leaves or is removed: one entry of the map (mock.go      *)
(* 675-682).                                                             *)
LEMMA RemovedState ==
  ASSUME NEW s \in State, NEW d \in Did
  PROVE  Successor(s, Removed(s, d))
<1> DEFINE t == Removed(s, d)
<1>3. /\ s.members \in [Did -> Member \cup {None}] /\ s.profile \in Map /\ s.policy \in Map
  BY DEF State
<1>1. CASE s.members[d] = None
  <2>1. t = s
    BY <1>1 DEF Removed
  <2> QED
    BY <2>1 DEF Successor, OneChange, State
<1>2. CASE s.members[d] # None
  <2> DEFINE m == [s.members[d] EXCEPT !.status = "removed"]
  <2>1. m \in Member /\ m # None
    BY <1>2, <1>3, GroupsAssumption DEF Member
  <2>2. t = [s EXCEPT !.members = [s.members EXCEPT ![d] = m]]
    BY <1>2 DEF Removed, State
  <2> HIDE DEF m
  <2>3. [s.members EXCEPT ![d] = m] \in [Did -> Member \cup {None}]
    BY <1>3, <2>1
  <2>4. /\ t \in State /\ t.profile = s.profile /\ t.policy = s.policy
        /\ t.members = [s.members EXCEPT ![d] = m]
    BY <2>2, <2>3 DEF State
  <2> HIDE DEF t
  <2>5. t.members[d] = m /\ \A x \in Did : x # d => t.members[x] = s.members[x]
    BY <1>3, <2>4
  <2>6. OneChange(s, t)
    BY <1>3, <2>2, <2>4 DEF OneChange, State, t
  <2>7. Listed(s) \subseteq Listed(t)
    BY <2>1, <2>5 DEF Listed
  <2> QED
    BY <2>4, <2>6, <2>7 DEF Successor, t
<1> QED
  BY <1>1, <1>2

(* A profile or a policy with the values of a patch (mock.go 694-703).   *)
LEMMA MergedState ==
  ASSUME NEW s \in State, NEW c \in Cmd
  PROVE  /\ Successor(s, [s EXCEPT !.profile = Merged(s.profile, c.patch)])
         /\ Successor(s, [s EXCEPT !.policy = Merged(s.policy, c.patch)])
<1>1. /\ s.members \in [Did -> Member \cup {None}] /\ s.profile \in Map /\ s.policy \in Map
      /\ c.patch \in Patch
  BY DEF State, Cmd
<1>2. ASSUME NEW f \in Map
      PROVE  Merged(f, c.patch) \in Map
  <2>1. PICK K \in SUBSET Key : c.patch \in [K -> Val \cup {None}]
    BY <1>1 DEF Patch
  <2>2. \A k \in Key : Merged(f, c.patch)[k] \in Val \cup {None}
    BY <1>2, <2>1 DEF Merged, Map
  <2> QED
    BY <2>2 DEF Merged, Map
<1>3. Successor(s, [s EXCEPT !.profile = Merged(s.profile, c.patch)])
  <2> DEFINE m == Merged(s.profile, c.patch)
             t == [s EXCEPT !.profile = m]
  <2>1. m \in Map
    BY <1>1, <1>2
  <2> HIDE DEF m
  <2>2. /\ t \in State /\ t.members = s.members /\ t.policy = s.policy /\ t.profile = m
    BY <1>1, <2>1 DEF State
  <2>3. OneChange(s, t)
    BY <2>2 DEF OneChange
  <2> QED
    BY <2>2, <2>3 DEF Successor, Listed, m
<1>4. Successor(s, [s EXCEPT !.policy = Merged(s.policy, c.patch)])
  <2> DEFINE m == Merged(s.policy, c.patch)
             t == [s EXCEPT !.policy = m]
  <2>1. m \in Map
    BY <1>1, <1>2
  <2> HIDE DEF m
  <2>2. /\ t \in State /\ t.members = s.members /\ t.profile = s.profile /\ t.policy = m
    BY <1>1, <2>1 DEF State
  <2>3. OneChange(s, t)
    BY <2>2 DEF OneChange
  <2> QED
    BY <2>2, <2>3 DEF Successor, Listed, m
<1> QED
  BY <1>3, <1>4

(* What the backend serves: a new group, the group as it is, or its next   *)
(* version.                                                                *)
Next1(g, r) ==
  /\ r \in Record
  /\ \/ group[g] = None /\ r.version = 1
     \/ /\ group[g] # None
        /\ \/ r.version = group[g].version /\ r.state = group[g].state
           \/ r.version = group[g].version + 1 /\ Successor(group[g].state, r.state)

(* A request served under the mutex keeps the histories, if it leaves    *)
(* the group as it is or makes its next version.                         *)
LEMMA ServeStep ==
  ASSUME Types, Logged, Steps, NEW p \in Proc, NEW g \in Group, NEW r,
         Serve(p, g, r), Next1(g, r)
  PROVE  /\ group' \in [Group -> Record \cup {None}] /\ log' \in [Group -> Seq(State)]
         /\ Logged' /\ Steps' /\ Grows
         /\ group'[g] = r /\ r # None /\ r.version \in 1..Len(log'[g])
         /\ log'[g][r.version] = r.state
<1>1. /\ group' = [group EXCEPT ![g] = r]
      /\ log' = IF Len(log[g]) < r.version THEN [log EXCEPT ![g] = Append(log[g], r.state)]
                ELSE log
  BY DEF Serve
<1>2. r \in Record /\ r # None /\ r.version \in Nat /\ r.version >= 1 /\ r.state \in State
  BY GroupsAssumption DEF Next1, Record
<1>3. /\ group \in [Group -> Record \cup {None}] /\ log \in [Group -> Seq(State)]
  BY DEF Types, TypeOK
<1>4. /\ group' \in [Group -> Record \cup {None}] /\ group'[g] = r
      /\ \A k \in Group : k # g => group'[k] = group[k]
  BY <1>1, <1>2, <1>3
<1>5. \A k \in Group : log[k] \in Seq(State) /\ Len(log[k]) \in Nat
  BY <1>3, LenProperties
<1>6. group[g] = None => log[g] = <<>> /\ Len(log[g]) = 0
  BY EmptySeq DEF Logged
<1>7. group[g] # None => /\ group[g].version = Len(log[g])
                         /\ log[g][Len(log[g])] = group[g].state
                         /\ Len(log[g]) >= 1 /\ group[g].state \in State
  BY <1>3 DEF Logged, Record
<1>8. CASE group[g] # None /\ r.version = group[g].version /\ r.state = group[g].state
  <2>1. log' = log
    BY <1>1, <1>5, <1>7, <1>8
  <2>2. Grows
    BY <1>4, <1>5, <1>2, <1>8, <2>1 DEF Grows
  <2>3. Logged' /\ Steps'
    BY <1>2, <1>4, <1>7, <1>8, <2>1 DEF Logged, Steps
  <2>4. r.version \in 1..Len(log[g]) /\ log[g][r.version] = r.state
    BY <1>2, <1>5, <1>7, <1>8
  <2> QED
    BY <1>2, <1>3, <1>4, <2>1, <2>2, <2>3, <2>4
<1>9. CASE \/ group[g] = None /\ r.version = 1
           \/ group[g] # None /\ r.version = group[g].version + 1
                              /\ Successor(group[g].state, r.state)
  <2>0. r.version = Len(log[g]) + 1
    BY <1>6, <1>7, <1>9
  <2> DEFINE l == Append(log[g], r.state)
  <2>1. log' = [log EXCEPT ![g] = l]
    BY <1>1, <1>5, <2>0
  <2>2. /\ l \in Seq(State) /\ Len(l) = Len(log[g]) + 1 /\ l[Len(log[g]) + 1] = r.state
        /\ \A v \in 1..Len(log[g]) : l[v] = log[g][v]
    BY <1>2, <1>5, AppendProperties
  <2> HIDE DEF l
  <2>3. /\ log' \in [Group -> Seq(State)] /\ log'[g] = l
        /\ \A k \in Group : k # g => log'[k] = log[k]
    BY <1>3, <2>1, <2>2
  <2>4. Grows
    <3> SUFFICES ASSUME NEW k \in Group
                 PROVE  /\ group[k] # None => /\ group'[k] # None
                                              /\ Listed(group[k].state) \subseteq Listed(group'[k].state)
                        /\ Len(log[k]) <= Len(log'[k])
                        /\ \A v \in 1..Len(log[k]) : log'[k][v] = log[k][v]
      BY DEF Grows
    <3>1. CASE k = g
      <4>1. group[g] # None => Listed(group[g].state) \subseteq Listed(r.state)
        BY <1>9 DEF Successor
      <4>2. group[g] # None => Listed(group[g].state) \subseteq Listed(group'[g].state)
        BY <1>4, <4>1
      <4>3. Len(log[g]) <= Len(log'[g]) /\ \A v \in 1..Len(log[g]) : log'[g][v] = log[g][v]
        BY <1>5, <2>2, <2>3
      <4> QED
        BY <1>2, <1>4, <3>1, <4>2, <4>3
    <3>2. CASE k # g
      BY <1>4, <1>5, <2>3, <3>2
    <3> QED
      BY <3>1, <3>2
  <2>5. Logged'
    BY <1>2, <1>4, <1>5, <2>0, <2>2, <2>3 DEF Logged
  <2>6. Steps'
    <3> SUFFICES ASSUME NEW k \in Group, NEW v \in 2..Len(log'[k])
                 PROVE  OneChange(log'[k][v - 1], log'[k][v])
      BY DEF Steps
    <3>1. CASE k # g
      BY <2>3, <3>1 DEF Steps
    <3>2. CASE k = g /\ v \in 2..Len(log[g])
      <4>1. log'[g][v] = log[g][v] /\ log'[g][v - 1] = log[g][v - 1]
        BY <1>5, <2>2, <2>3, <3>2
      <4> QED
        BY <3>2, <4>1 DEF Steps
    <3>3. CASE k = g /\ v = Len(log[g]) + 1 /\ group[g] # None
      <4>1. /\ log'[g][v] = r.state /\ log'[g][v - 1] = group[g].state
            /\ OneChange(group[g].state, r.state)
        BY <1>2, <1>5, <1>7, <1>9, <2>2, <2>3, <3>3 DEF Successor
      <4> QED
        BY <3>3, <4>1
    <3>4. group[g] = None => Len(log'[g]) = 1
      <4>1. Len(log'[g]) = Len(log[g]) + 1
        BY <2>2, <2>3
      <4>2. group[g] = None => Len(log[g]) = 0
        BY <1>6
      <4> QED
        BY <4>1, <4>2
    <3> QED
      BY <1>5, <2>2, <2>3, <3>1, <3>2, <3>3, <3>4
  <2>7. r.version \in 1..Len(log'[g]) /\ log'[g][r.version] = r.state
    BY <1>2, <1>5, <2>0, <2>2, <2>3
  <2> QED
    BY <1>2, <1>4, <2>3, <2>4, <2>5, <2>6, <2>7
<1> QED
  BY <1>8, <1>9 DEF Next1

(* Answers that are drawn stay apart as long as no other is.               *)
LEMMA ApartStays ==
  ASSUME Apart,
         \A q \in Proc : pc'[q] \in {"answer", "shown"} =>
           pc[q] \in {"answer", "shown"} /\ cmd'[q] = cmd[q] /\ reply'[q] = reply[q]
  PROVE  Apart'
BY DEF Apart, Changing

(* The options of a scenario.                                            *)
LEMMA MayType ==
  ASSUME Types
  PROVE  may.versions \in Nat \ {0} /\ may.commands \subseteq Op
BY GroupsAssumption DEF Types, TypeOK

(* The answer of a call that is served: what it holds, and that the others *)
(* keep what they have.                                                    *)
Serves(p, g, r) ==
  /\ Serve(p, g, r) /\ Next1(g, r)
  /\ cmd' = [cmd EXCEPT ![p] = [cmd[p] EXCEPT !.group = g]]
  /\ pc[p] = "ask" /\ r.version <= may.versions /\ Len(post') <= 1
  /\ cmd[p].op = "add" /\ cmd[p].handle # None =>
       /\ bound[cmd[p].handle] # None
       /\ r.state.members[bound[cmd[p].handle]] = [role |-> cmd[p].role, status |-> "active"]
  /\ cmd[p].op \in Change => group[g] # None /\ r.version = group[g].version + 1

(* A request that is served keeps the invariant.                         *)
LEMMA ServesKeeps ==
  ASSUME IInv, NEW p \in Proc, NEW g \in Group, NEW r, Serves(p, g, r)
  PROVE  IInv'
<1>0. /\ Types /\ TypeOK /\ cmd \in [Proc -> Cmd] /\ reply \in [Proc -> Reply]
      /\ HInv /\ Logged /\ Steps /\ CmdAt(p)
  BY DEF IInv, Types
<1>1. /\ group' \in [Group -> Record \cup {None}] /\ log' \in [Group -> Seq(State)]
      /\ Logged' /\ Steps' /\ Grows
      /\ group'[g] = r /\ r # None /\ r.version \in 1..Len(log'[g])
      /\ log'[g][r.version] = r.state
  BY <1>0, ServeStep DEF Serves
<1>2. /\ pc' = [pc EXCEPT ![p] = "answer"]
      /\ reply' = [reply EXCEPT ![p] = [version |-> r.version, listed |-> Listed(r.state)]]
      /\ UNCHANGED <<may, entry, current, known, bound, at, doing, failed, up, row, view>>
  BY DEF Serves, Serve, Goto, handles
<1> DEFINE c == [cmd[p] EXCEPT !.group = g]
           a == [version |-> r.version, listed |-> Listed(r.state)]
<1>3. /\ c \in Cmd /\ c.group = g /\ c.op = cmd[p].op /\ c.me = cmd[p].me /\ c.did = cmd[p].did
      /\ c.handle = cmd[p].handle /\ c.role = cmd[p].role
  <2>1. cmd[p] \in Cmd
    BY <1>0
  <2> QED
    BY <2>1 DEF Cmd
<1>4. a \in Reply /\ a.version = r.version /\ a.listed = Listed(r.state)
  BY DEF Reply, Listed, Serves, Next1, Record
<1>5. cmd' = [cmd EXCEPT ![p] = c] /\ reply' = [reply EXCEPT ![p] = a]
  BY <1>2 DEF Serves
<1> HIDE DEF c, a
<1>6. /\ cmd' \in [Proc -> Cmd] /\ cmd'[p] = c /\ reply' \in [Proc -> Reply] /\ reply'[p] = a
      /\ pc'[p] = "answer" /\ pc' \in [Proc -> {"idle", "ask", "answer", "shown"}]
      /\ \A q \in Proc : q # p => pc'[q] = pc[q] /\ cmd'[q] = cmd[q] /\ reply'[q] = reply[q]
  BY <1>0, <1>2, <1>3, <1>4, <1>5 DEF TypeOK
<1>7. HInv' /\ BoundStays
  BY <1>0, <1>2 DEF HInv, RegisteringAt, BoundStays, H!HandlesTypeOK, H!HandlesAreOurs,
     H!Existing
<1>8. TypeOK'
  <2>1. \A q \in Proc : cmd'[q].op \in Op \cup {"none"} /\ cmd'[q].me \in Did \cup {None}
    BY <1>6 DEF Cmd
  <2>2. \A q \in Proc : reply'[q].version <= may.versions /\ reply'[q].listed \subseteq Did
    BY <1>0, <1>4, <1>6 DEF TypeOK, Reply, Serves, Listed
  <2>3. H!HandlesTypeOK' /\ Len(post') <= 1
    BY <1>7 DEF HInv, Serves
  <2> QED
    BY <1>0, <1>1, <1>2, <1>6, <2>1, <2>2, <2>3 DEF TypeOK
<1>9. AnswerAt(p)'
  <2>1. Added(p)'
    <3>1. c.op = "add" /\ c.handle # None => c.handle \in Handle
      BY <1>3 DEF Cmd
    <3> QED
      BY <1>1, <1>2, <1>3, <1>4, <1>6, <3>1 DEF Added, Serves
  <2>2. reply'[p].listed = Listed(r.state) /\ reply'[p].version = r.version
    BY <1>4, <1>6
  <2>3. cmd'[p].group = g
    BY <1>3, <1>6
  <2> QED
    BY <1>1, <1>6, <2>1, <2>2, <2>3 DEF AnswerAt, Listed
<1>10. \A q \in Proc : AnswerAt(q)'
  BY <1>0, <1>1, <1>2, <1>6, <1>7, <1>9, AnswerStays DEF IInv
<1>11. \A q \in Proc : CmdAt(q)'
  <2>1. CmdAt(p)'
    BY <1>0, <1>3, <1>6 DEF CmdAt, Serves
  <2> QED
    BY <1>6, <2>1 DEF IInv, CmdAt
<1>12. VersionBound'
  <2>1. \A k \in Group : k # g => group'[k] = group[k]
    BY <1>0 DEF Serves, Serve, TypeOK
  <2> QED
    BY <1>1, <1>2, <2>1 DEF IInv, VersionBound, Serves
<1>13. ASSUME NEW x \in Proc, x # p, Changing(x, g)', cmd[p].op \in Change
       PROVE  reply'[x].version < r.version
  <2>1. Changing(x, g) /\ reply'[x].version = reply[x].version
    BY <1>6, <1>13 DEF Changing
  <2>2. group[g] # None /\ r.version = group[g].version + 1
    BY <1>13 DEF Serves
  <2>3. reply[x].version \in 1..Len(log[g])
    BY <2>1 DEF IInv, AnswerAt, Changing
  <2>4. Len(log[g]) = group[g].version /\ group[g].version \in Nat
    BY <1>0, <2>2, RecordType DEF Logged, Record
  <2> QED
    BY <2>1, <2>2, <2>3, <2>4
<1>14. Changing(p, g)' => cmd[p].op \in Change
  BY <1>3, <1>6 DEF Changing
<1>15. r.version \in Nat /\ reply'[p].version = r.version /\ cmd'[p].group = g
  BY <1>3, <1>4, <1>6 DEF Reply
<1>16. Apart'
  <2> SUFFICES ASSUME NEW k \in Group, NEW q \in Proc, NEW x \in Proc, q # x,
                      Changing(q, k)', Changing(x, k)'
               PROVE  reply'[q].version # reply'[x].version
    BY DEF Apart
  <2>0. \A y \in Proc : reply'[y].version \in Nat
    BY <1>6 DEF Reply
  <2>1. CASE q # p /\ x # p
    <3>1. Changing(q, k) /\ Changing(x, k)
      BY <1>6, <2>1 DEF Changing
    <3> QED
      BY <1>6, <2>1, <3>1 DEF IInv, Apart
  <2>2. CASE q = p
    <3>1. k = g
      BY <1>15, <2>2 DEF Changing
    <3>2. reply'[x].version < r.version
      BY <1>13, <1>14, <2>2, <3>1
    <3> QED
      BY <1>15, <2>0, <2>2, <3>2
  <2>3. CASE x = p
    <3>1. k = g
      BY <1>15, <2>3 DEF Changing
    <3>2. reply'[q].version < r.version
      BY <1>13, <1>14, <2>3, <3>1
    <3> QED
      BY <1>15, <2>0, <2>3, <3>2
  <2> QED
    BY <2>1, <2>2, <2>3
<1> QED
  BY <1>1, <1>6, <1>7, <1>8, <1>10, <1>11, <1>12, <1>16 DEF IInv, Types

(* A change: the next version of the group's record.                       *)
LEMMA ChangeStep ==
  ASSUME IInv, NEW p \in Proc, NEW op, NEW s, op # "create",
         ServeChange(p, op, s, Rec(p).version + 1),
         Rec(p) # None => Successor(Rec(p).state, s),
         op = "add" /\ cmd[p].handle # None =>
           /\ bound[cmd[p].handle] # None
           /\ s.members[bound[cmd[p].handle]] = [role |-> cmd[p].role, status |-> "active"]
  PROVE  \E g \in Group, r \in Record : Serves(p, g, r)
<1> DEFINE g == cmd[p].group
           r == [Rec(p) EXCEPT !.state = s, !.version = Rec(p).version + 1]
<1>0. Types /\ TypeOK /\ Logged /\ cmd[p] \in Cmd /\ CmdAt(p) /\ cmd \in [Proc -> Cmd]
  BY DEF IInv, Types
<1>1. /\ pc[p] = "ask" /\ cmd[p].op = op /\ Rec(p) # None /\ Rec(p).version < may.versions
      /\ Serve(p, g, r) /\ cmd' = cmd /\ post' = post
  BY DEF ServeChange, Asked
<1>2. g \in Group
  BY <1>0, <1>1 DEF CmdAt
<1>3. Rec(p) = group[g] /\ group[g] \in Record
  BY <1>0, <1>1, <1>2, RecordType DEF Rec
<1>4. s \in State /\ Successor(group[g].state, s)
  BY <1>1, <1>3 DEF Successor
<1>5. /\ r \in Record /\ r.state = s /\ r.version = group[g].version + 1
      /\ group[g].version \in Nat
  <2>1. Rec(p) \in Record /\ Rec(p).version \in Nat /\ Rec(p).version + 1 \in Nat \ {0}
    BY <1>3 DEF Record
  <2>2. r \in Record /\ r.state = s /\ r.version = Rec(p).version + 1
    BY <1>4, <2>1 DEF Record
  <2> QED
    BY <1>3, <2>1, <2>2
<1>6. Next1(g, r)
  BY <1>1, <1>3, <1>4, <1>5 DEF Next1
<1>7. r.version <= may.versions
  BY <1>0, <1>1, <1>3, <1>5, MayType
<1>8. [cmd[p] EXCEPT !.group = g] = cmd[p]
  BY <1>0 DEF Cmd
<1>9. cmd' = [cmd EXCEPT ![p] = [cmd[p] EXCEPT !.group = g]]
  BY <1>0, <1>1, <1>8
<1>10. Len(post') <= 1
  BY <1>0, <1>1 DEF TypeOK
<1> HIDE DEF r
<1>11. Serves(p, g, r)
  BY <1>1, <1>3, <1>5, <1>6, <1>7, <1>9, <1>10 DEF Serves
<1> QED
  BY <1>2, <1>5, <1>11

(* The requests, one by one (mock.go 219-238).                           *)
LEMMA DispatchStep ==
  ASSUME IInv, NEW p \in Proc,
         \/ Create(p) \/ GetInfo(p) \/ Join(p) \/ AddMember(p) \/ AddByHandle(p)
         \/ RemoveMember(p) \/ Leave(p) \/ UpdateProfile(p) \/ UpdatePolicy(p) \/ Send(p)
  PROVE  \E g \in Group, r \in Record : Serves(p, g, r)
<1>0. /\ Types /\ TypeOK /\ Logged /\ cmd[p] \in Cmd /\ CmdAt(p) /\ cmd \in [Proc -> Cmd]
      /\ HInv
  BY DEF IInv, Types
<1>1. CASE Create(p)
  <2>1. PICK g \in Group :
          /\ Asked(p, "create") /\ group[g] = None
          /\ cmd' = [cmd EXCEPT ![p].group = g]
          /\ Serve(p, g, [state |-> [NoView EXCEPT !.members[cmd[p].me] =
                                       [role |-> "owner", status |-> "active"]],
                          version |-> 1, seq |-> 0])
          /\ UNCHANGED post
    BY <1>1 DEF Create, CreateAt
  <2> DEFINE s == [NoView EXCEPT !.members[cmd[p].me] = [role |-> "owner", status |-> "active"]]
             r == [state |-> s, version |-> 1, seq |-> 0]
  <2>2. cmd[p].me \in Did /\ cmd[p].op = "create" /\ pc[p] = "ask"
    BY <1>0, <2>1 DEF Asked, CmdAt
  <2>3. s \in State
    <3>1. NoView \in State
      BY NewValues
    <3>2. s = Upserted(NoView, cmd[p].me, "owner")
      BY DEF Upserted
    <3> QED
      BY <2>2, <3>1, <3>2, UpsertedState DEF Successor
  <2> HIDE DEF s
  <2>4. r \in Record /\ r.version = 1
    BY <2>3 DEF Record
  <2>5. Serve(p, g, r)
    BY <2>1 DEF s
  <2> HIDE DEF r
  <2>6. Next1(g, r) /\ r.version <= may.versions /\ Len(post') <= 1
    BY <1>0, <2>1, <2>4, MayType DEF Next1, TypeOK
  <2>7. Serves(p, g, r)
    BY <2>1, <2>2, <2>5, <2>6 DEF Serves, Change
  <2> QED
    BY <2>4, <2>7
<1>2. ASSUME Rec(p) # None, pc[p] = "ask", cmd[p].op # "create"
      PROVE  /\ cmd[p].group \in Group /\ Rec(p) = group[cmd[p].group] /\ Rec(p) \in Record
             /\ Rec(p).state \in State /\ Rec(p).version \in Nat
             /\ [cmd[p] EXCEPT !.group = cmd[p].group] = cmd[p]
  <2>1. cmd[p].group \in Group
    BY <1>0, <1>2 DEF CmdAt
  <2>2. [cmd[p] EXCEPT !.group = cmd[p].group] = cmd[p]
    BY <1>0 DEF Cmd
  <2> QED
    BY <1>0, <1>2, <2>1, <2>2, RecordType DEF Rec
<1>3. CASE GetInfo(p)
  <2>1. /\ pc[p] = "ask" /\ cmd[p].op = "info" /\ Rec(p) # None
        /\ Serve(p, cmd[p].group, Rec(p)) /\ cmd' = cmd /\ post' = post
    BY <1>3 DEF GetInfo, Asked
  <2>2. /\ cmd[p].group \in Group /\ Rec(p) = group[cmd[p].group] /\ Rec(p) \in Record
        /\ [cmd[p] EXCEPT !.group = cmd[p].group] = cmd[p]
    BY <1>2, <2>1
  <2>3. Next1(cmd[p].group, Rec(p))
    BY <2>1, <2>2 DEF Next1
  <2>4. Rec(p).version <= may.versions
    BY <1>0, <2>1, <2>2 DEF IInv, VersionBound
  <2>5. Len(post') <= 1 /\ cmd' = [cmd EXCEPT ![p] = [cmd[p] EXCEPT !.group = cmd[p].group]]
    BY <1>0, <2>1, <2>2 DEF TypeOK
  <2>6. Serves(p, cmd[p].group, Rec(p))
    BY <2>1, <2>3, <2>4, <2>5 DEF Serves, Change
  <2> QED
    BY <2>2, <2>6
<1>4. CASE Send(p)
  <2> DEFINE r == [Rec(p) EXCEPT !.seq = Rec(p).seq + 1]
  <2>1. /\ pc[p] = "ask" /\ cmd[p].op = "send" /\ Rec(p) # None
        /\ Serve(p, cmd[p].group, r) /\ cmd' = cmd
        /\ post = <<>> /\ post' = Append(post, Body)
    BY <1>4 DEF Send, Asked
  <2>2. /\ cmd[p].group \in Group /\ Rec(p) = group[cmd[p].group] /\ Rec(p) \in Record
        /\ [cmd[p] EXCEPT !.group = cmd[p].group] = cmd[p]
    BY <1>2, <2>1
  <2>3. r \in Record /\ r.state = Rec(p).state /\ r.version = Rec(p).version
    BY <2>2 DEF Record
  <2>4. Rec(p).version <= may.versions
    BY <1>0, <2>1, <2>2 DEF IInv, VersionBound
  <2>5. Len(post') <= 1
    <3>1. <<>> \in Seq({Body}) /\ Len(<<>>) = 0
      BY EmptySeq
    <3>2. Len(Append(<<>>, Body)) = 1
      BY <3>1, AppendProperties
    <3> QED
      BY <2>1, <3>2
  <2>6. cmd' = [cmd EXCEPT ![p] = [cmd[p] EXCEPT !.group = cmd[p].group]]
    BY <1>0, <2>1, <2>2
  <2> HIDE DEF r
  <2>7. Next1(cmd[p].group, r)
    BY <2>1, <2>2, <2>3 DEF Next1
  <2>8. Serves(p, cmd[p].group, r)
    BY <2>1, <2>3, <2>4, <2>5, <2>6, <2>7 DEF Serves, Change
  <2> QED
    BY <2>2, <2>3, <2>8
<1>5. CASE Join(p)
  <2> DEFINE s == Upserted(Rec(p).state, cmd[p].me, "member")
  <2>1. ServeChange(p, "join", s, Rec(p).version + 1)
    BY <1>5 DEF Join
  <2>2. Rec(p) # None => Successor(Rec(p).state, s)
    BY <1>0, <1>2, <2>1, UpsertedState DEF ServeChange, Asked, CmdAt
  <2> HIDE DEF s
  <2> QED
    BY <2>1, <2>2, ChangeStep
<1>6. CASE AddMember(p)
  <2> DEFINE s == Upserted(Rec(p).state, cmd[p].did, cmd[p].role)
  <2>1. cmd[p].did # None /\ ServeChange(p, "add", s, Rec(p).version + 1)
    BY <1>6 DEF AddMember
  <2>2. /\ cmd[p].did \in Did /\ cmd[p].role \in {"owner", "member"} /\ pc[p] = "ask"
        /\ cmd[p].op = "add" /\ cmd[p].handle = None
    BY <1>0, <2>1 DEF Cmd, ServeChange, Asked, CmdAt
  <2>3. Rec(p) # None => Successor(Rec(p).state, s)
    BY <1>2, <2>2, UpsertedState
  <2> HIDE DEF s
  <2> QED
    BY <2>1, <2>2, <2>3, ChangeStep
<1>7. CASE AddByHandle(p)
  <2> DEFINE d == bound[cmd[p].handle]
             s == Upserted(Rec(p).state, d, cmd[p].role)
  <2>1. cmd[p].handle # None /\ d # None /\ ServeChange(p, "add", s, Rec(p).version + 1)
    BY <1>7 DEF AddByHandle
  <2>2. /\ cmd[p].handle \in Handle /\ cmd[p].role \in {"owner", "member"} /\ pc[p] = "ask"
        /\ cmd[p].op = "add" /\ Rec(p) # None
    BY <1>0, <2>1 DEF Cmd, ServeChange, Asked
  <2>3. d \in Did
    BY <1>0, <2>1, <2>2 DEF TypeOK, H!HandlesTypeOK, Did
  <2>4. /\ Successor(Rec(p).state, s)
        /\ s.members[d] = [role |-> cmd[p].role, status |-> "active"]
    BY <1>2, <2>2, <2>3, UpsertedState
  <2> HIDE DEF s
  <2> QED
    BY <2>1, <2>2, <2>4, ChangeStep
<1>8. CASE RemoveMember(p)
  <2> DEFINE s == Removed(Rec(p).state, cmd[p].did)
  <2>1. ServeChange(p, "remove", s, Rec(p).version + 1)
    BY <1>8 DEF RemoveMember
  <2>2. Rec(p) # None => Successor(Rec(p).state, s)
    BY <1>0, <1>2, <2>1, RemovedState DEF ServeChange, Asked, CmdAt
  <2> HIDE DEF s
  <2> QED
    BY <2>1, <2>2, ChangeStep
<1>9. CASE Leave(p)
  <2> DEFINE s == Removed(Rec(p).state, cmd[p].me)
  <2>1. ServeChange(p, "leave", s, Rec(p).version + 1)
    BY <1>9 DEF Leave
  <2>2. Rec(p) # None => Successor(Rec(p).state, s)
    BY <1>0, <1>2, <2>1, RemovedState DEF ServeChange, Asked, CmdAt
  <2> HIDE DEF s
  <2> QED
    BY <2>1, <2>2, ChangeStep
<1>10. CASE UpdateProfile(p)
  <2> DEFINE s == [Rec(p).state EXCEPT !.profile = Merged(Rec(p).state.profile, cmd[p].patch)]
  <2>1. ServeChange(p, "update", s, Rec(p).version + 1)
    BY <1>10 DEF UpdateProfile
  <2>2. Rec(p) # None => Successor(Rec(p).state, s)
    BY <1>0, <1>2, <2>1, MergedState DEF ServeChange, Asked, CmdAt
  <2> HIDE DEF s
  <2> QED
    BY <2>1, <2>2, ChangeStep
<1>11. CASE UpdatePolicy(p)
  <2> DEFINE s == [Rec(p).state EXCEPT !.policy = Merged(Rec(p).state.policy, cmd[p].patch)]
  <2>1. ServeChange(p, "policy", s, Rec(p).version + 1)
    BY <1>11 DEF UpdatePolicy
  <2>2. Rec(p) # None => Successor(Rec(p).state, s)
    BY <1>0, <1>2, <2>1, MergedState DEF ServeChange, Asked, CmdAt
  <2> HIDE DEF s
  <2> QED
    BY <2>1, <2>2, ChangeStep
<1> QED
  BY <1>1, <1>3, <1>4, <1>5, <1>6, <1>7, <1>8, <1>9, <1>10, <1>11

(* A process that ends its command, and leaves the groups alone.           *)
LEMMA EndStep ==
  ASSUME IInv, NEW p \in Proc, NEW from, End(p, from), up' \in BOOLEAN,
         UNCHANGED <<may, handles, group, log, post, row>>
  PROVE  IInv'
<1>0. /\ Types /\ TypeOK /\ cmd \in [Proc -> Cmd] /\ reply \in [Proc -> Reply] /\ Logged /\ HInv
  BY DEF IInv, Types
<1>1. /\ pc' = [pc EXCEPT ![p] = "idle"] /\ cmd' = [cmd EXCEPT ![p] = NoCmd]
      /\ reply' = [reply EXCEPT ![p] = NoReply] /\ view' = [view EXCEPT ![p] = NoView]
  BY DEF End, Goto
<1>2. /\ pc' \in [Proc -> {"idle", "ask", "answer", "shown"}] /\ pc'[p] = "idle"
      /\ cmd' \in [Proc -> Cmd] /\ cmd'[p] = NoCmd
      /\ reply' \in [Proc -> Reply] /\ view' \in [Proc -> State]
      /\ \A q \in Proc : q # p => /\ pc'[q] = pc[q] /\ cmd'[q] = cmd[q]
                                  /\ reply'[q] = reply[q] /\ view'[q] = view[q]
      /\ reply'[p] = NoReply
  BY <1>0, <1>1, NewValues DEF TypeOK
<1>3. HInv'
  BY <1>0 DEF HInv, RegisteringAt, H!HandlesTypeOK, H!HandlesAreOurs, H!Existing, handles
<1>4. Grows /\ BoundStays /\ log' \in [Group -> Seq(State)]
  BY <1>0, RecordType DEF Grows, BoundStays, handles, TypeOK
<1>5. TypeOK'
  <2>1. \A q \in Proc : cmd'[q].op \in Op \cup {"none"} /\ cmd'[q].me \in Did \cup {None}
    BY <1>2 DEF Cmd
  <2>2. \A q \in Proc : reply'[q].version <= may.versions /\ reply'[q].listed \subseteq Did
    BY <1>0, <1>2, MayType DEF TypeOK, NoReply
  <2>3. H!HandlesTypeOK'
    BY <1>3 DEF HInv
  <2> QED
    BY <1>0, <1>2, <2>1, <2>2, <2>3 DEF TypeOK
<1>6. \A q \in Proc : AnswerAt(q)' /\ CmdAt(q)'
  <2>1. AnswerAt(p)' /\ CmdAt(p)'
    BY <1>2 DEF AnswerAt, CmdAt, NoCmd
  <2>2. ASSUME NEW q \in Proc, q # p
        PROVE  AnswerAt(q)' /\ CmdAt(q)'
    <3>1. AnswerAt(q) /\ CmdAt(q)
      BY DEF IInv
    <3> QED
      BY <1>0, <1>2, <1>4, <2>2, <3>1, AnswerStays DEF CmdAt
  <2> QED
    BY <2>1, <2>2
<1>7. Logged' /\ Steps' /\ VersionBound'
  BY DEF IInv, Logged, Steps, VersionBound
<1>8. Apart'
  BY <1>2, ApartStays DEF IInv
<1> QED
  BY <1>2, <1>3, <1>5, <1>6, <1>7, <1>8 DEF IInv, Types

(* The answer is encoded from what the group is by then.                   *)
LEMMA EncodeStep ==
  ASSUME IInv, NEW p \in Proc, Encode(p)
  PROVE  IInv'
<1>0. /\ Types /\ TypeOK /\ cmd \in [Proc -> Cmd] /\ reply \in [Proc -> Reply] /\ Logged /\ HInv
  BY DEF IInv, Types
<1> DEFINE g == cmd[p].group
           n == reply[p].version
           s == group[g].state
           shared == Shares(cmd[p].op)
           shown == [members |-> [d \in Did |-> IF "members" \in shared /\ d \in reply[p].listed
                                                THEN s.members[d] ELSE None],
                     profile |-> IF "profile" \in shared THEN s.profile ELSE Empty,
                     policy |-> IF "policy" \in shared THEN s.policy ELSE Empty]
<1>1. /\ pc[p] = "answer" /\ pc' = [pc EXCEPT ![p] = "shown"]
      /\ view' = [view EXCEPT ![p] = shown]
      /\ UNCHANGED <<may, handles, group, log, up, post, row, cmd, reply>>
  BY DEF Encode, EncodeListing, Goto, Rec, backend
<1>2. /\ g \in Group /\ group[g] # None /\ n \in 1..Len(log[g])
      /\ reply[p].listed = Listed(log[g][n]) /\ reply[p].listed \subseteq Listed(s)
      /\ Added(p)
  BY <1>1 DEF IInv, AnswerAt
<1>3. /\ s \in State /\ Len(log[g]) \in Nat /\ log[g][Len(log[g])] = s
  BY <1>0, <1>2, RecordType
<1>4. /\ s.members \in [Did -> Member \cup {None}] /\ s.profile \in Map /\ s.policy \in Map
  BY <1>3 DEF State
<1>5. shown \in State
  BY <1>4, NewValues DEF State
<1>6. /\ \A d \in Did : shown.members[d] =
           IF "members" \in shared /\ d \in reply[p].listed THEN s.members[d] ELSE None
      /\ "profile" \in shared => shown.profile = s.profile
      /\ "policy" \in shared => shown.policy = s.policy
  OBVIOUS
<1>7. /\ cmd[p].op = "info" => shared = {"members", "profile", "policy"}
      /\ cmd[p].op = "update" => shared = {"profile"}
      /\ cmd[p].op = "policy" => shared = {"policy"}
  BY DEF Shares
<1> HIDE DEF shown, shared, s
<1>8. /\ pc' \in [Proc -> {"idle", "ask", "answer", "shown"}] /\ pc'[p] = "shown"
      /\ view' \in [Proc -> State] /\ view'[p] = shown
      /\ \A q \in Proc : q # p => pc'[q] = pc[q] /\ view'[q] = view[q]
      /\ cmd' = cmd /\ reply' = reply
  BY <1>0, <1>1, <1>5 DEF TypeOK
<1>9. Len(log[g]) \in n .. Len(log[g])
  BY <1>2, <1>3
<1>10. KeepsUp(p)'
  <2>0. /\ log' = log /\ cmd' = cmd /\ view'[p] = shown
        /\ cmd'[p].group = g /\ reply'[p].version = n
    BY <1>1, <1>8
  <2>1. ASSUME cmd'[p].op = "info", NEW d \in Did
        PROVE  LET l == log'[cmd'[p].group]
               IN  /\ view'[p].members[d] = None <=> l[reply'[p].version].members[d] = None
                   /\ view'[p].members[d] # None =>
                        \E v \in reply'[p].version .. Len(l) : l[v].members[d] = view'[p].members[d]
    <3>1. shown.members[d] = IF d \in reply[p].listed THEN s.members[d] ELSE None
      BY <1>6, <1>7, <2>0, <2>1
    <3>2. d \in reply[p].listed <=> log[g][n].members[d] # None
      BY <1>2 DEF Listed
    <3>3. d \in reply[p].listed => s.members[d] # None
      BY <1>2 DEF Listed
    <3>4. log[g][Len(log[g])].members[d] = s.members[d]
      BY <1>3
    <3> HIDE DEF g, n
    <3> QED
      BY <1>9, <2>0, <3>1, <3>2, <3>3, <3>4
  <2>2. ASSUME cmd'[p].op \in {"info", "update"}, NEW k \in Key
        PROVE  LET l == log'[cmd'[p].group]
               IN  \E v \in reply'[p].version .. Len(l) : l[v].profile[k] = view'[p].profile[k]
    <3>1. shown.profile = log[g][Len(log[g])].profile
      BY <1>3, <1>6, <1>7, <2>0, <2>2
    <3> HIDE DEF g, n
    <3> QED
      BY <1>9, <2>0, <3>1
  <2>3. ASSUME cmd'[p].op \in {"info", "policy"}, NEW k \in Key
        PROVE  LET l == log'[cmd'[p].group]
               IN  \E v \in reply'[p].version .. Len(l) : l[v].policy[k] = view'[p].policy[k]
    <3>1. shown.policy = log[g][Len(log[g])].policy
      BY <1>3, <1>6, <1>7, <2>0, <2>3
    <3> HIDE DEF g, n
    <3> QED
      BY <1>9, <2>0, <3>1
  <2> QED
    BY <2>1, <2>2, <2>3, Zenon DEF KeepsUp
<1>11. AnswerAt(p)'
  <2>1. Added(p)'
    BY <1>1, <1>2 DEF Added, handles
  <2>2. /\ group' = group /\ log' = log /\ cmd' = cmd /\ reply' = reply
    BY <1>1
  <2>3. /\ g \in Group /\ group[g] # None /\ n \in 1..Len(log[g])
        /\ reply[p].listed = Listed(log[g][n]) /\ reply[p].listed \subseteq Listed(group[g].state)
    BY <1>2 DEF s
  <2>4. /\ cmd'[p].group \in Group /\ group'[cmd'[p].group] # None
        /\ reply'[p].version \in 1..Len(log'[cmd'[p].group])
        /\ reply'[p].listed = Listed(log'[cmd'[p].group][reply'[p].version])
        /\ reply'[p].listed \subseteq Listed(group'[cmd'[p].group].state)
    BY <2>2, <2>3, Zenon
  <2> HIDE DEF g, n
  <2> QED
    BY <1>10, <2>1, <2>4 DEF AnswerAt
<1>12. Grows /\ BoundStays /\ log' \in [Group -> Seq(State)]
  BY <1>0, <1>1, RecordType DEF Grows, BoundStays, handles, TypeOK
<1>13. \A q \in Proc : AnswerAt(q)' /\ CmdAt(q)'
  <2>1. CmdAt(p)'
    BY <1>1, <1>8 DEF IInv, CmdAt
  <2>2. ASSUME NEW q \in Proc, q # p
        PROVE  AnswerAt(q)' /\ CmdAt(q)'
    <3>1. AnswerAt(q) /\ CmdAt(q)
      BY DEF IInv
    <3> QED
      BY <1>0, <1>8, <1>12, <2>2, <3>1, AnswerStays DEF CmdAt
  <2> QED
    BY <1>11, <2>1, <2>2
<1>14. HInv'
  BY <1>0, <1>1 DEF HInv, RegisteringAt, H!HandlesTypeOK, H!HandlesAreOurs, H!Existing, handles
<1>15. TypeOK'
  <2>1. H!HandlesTypeOK'
    BY <1>14 DEF HInv
  <2> QED
    BY <1>0, <1>1, <1>8, <2>1 DEF TypeOK
<1>16. Logged' /\ Steps' /\ VersionBound'
  BY <1>1 DEF IInv, Logged, Steps, VersionBound
<1>17. Apart'
  BY <1>1, <1>8, ApartStays DEF IInv
<1> QED
  BY <1>0, <1>8, <1>13, <1>14, <1>15, <1>16, <1>17 DEF IInv, Types

(* A command begins.                                                       *)
LEMMA BeginStep ==
  ASSUME IInv, NEW p \in Proc, NEW c \in Cmd, Start(p, c), c.op \in Op,
         c.op \in Op \ {"create"} => c.group \in Group,
         c.op = "remove" => c.did \in Did,
         c.op = "add" => c.did = None \/ c.handle = None
  PROVE  IInv'
<1>0. /\ Types /\ TypeOK /\ cmd \in [Proc -> Cmd] /\ reply \in [Proc -> Reply] /\ Logged /\ HInv
  BY DEF IInv, Types
<1>1. /\ pc' = [pc EXCEPT ![p] = "ask"] /\ cmd' = [cmd EXCEPT ![p] = c] /\ c.me \in Did
      /\ UNCHANGED <<may, handles, group, log, up, post, row, reply, view>>
  BY <1>0, ActingType DEF Start, Goto, backend
<1>2. /\ pc' \in [Proc -> {"idle", "ask", "answer", "shown"}] /\ pc'[p] = "ask"
      /\ cmd' \in [Proc -> Cmd] /\ cmd'[p] = c
      /\ \A q \in Proc : q # p => pc'[q] = pc[q] /\ cmd'[q] = cmd[q]
  BY <1>0, <1>1 DEF TypeOK
<1>3. HInv'
  BY <1>0, <1>1 DEF HInv, RegisteringAt, H!HandlesTypeOK, H!HandlesAreOurs, H!Existing, handles
<1>4. Grows /\ BoundStays /\ log' \in [Group -> Seq(State)]
  BY <1>0, <1>1, RecordType DEF Grows, BoundStays, handles, TypeOK
<1>5. TypeOK'
  <2>1. \A q \in Proc : cmd'[q].op \in Op \cup {"none"} /\ cmd'[q].me \in Did \cup {None}
    BY <1>2 DEF Cmd
  <2>2. H!HandlesTypeOK'
    BY <1>3 DEF HInv
  <2> QED
    BY <1>0, <1>1, <1>2, <2>1, <2>2 DEF TypeOK
<1>6. \A q \in Proc : AnswerAt(q)' /\ CmdAt(q)'
  <2>1. AnswerAt(p)' /\ CmdAt(p)'
    BY <1>1, <1>2 DEF AnswerAt, CmdAt
  <2>2. ASSUME NEW q \in Proc, q # p
        PROVE  AnswerAt(q)' /\ CmdAt(q)'
    <3>1. AnswerAt(q) /\ CmdAt(q)
      BY DEF IInv
    <3> QED
      BY <1>0, <1>1, <1>2, <1>4, <2>2, <3>1, AnswerStays DEF CmdAt
  <2> QED
    BY <2>1, <2>2
<1>7. Logged' /\ Steps' /\ VersionBound'
  BY <1>1 DEF IInv, Logged, Steps, VersionBound
<1>8. Apart'
  BY <1>1, <1>2, ApartStays DEF IInv
<1> QED
  BY <1>0, <1>1, <1>2, <1>3, <1>5, <1>6, <1>7, <1>8 DEF IInv, Types

(* Each command begins with arguments of its own kind.                   *)
LEMMA BeginCases ==
  ASSUME IInv, NEW p \in Proc, Begin(p)
  PROVE  IInv'
<1>0. HInv
  BY DEF IInv
<1>1. Acting \subseteq Did
  BY <1>0, ActingType
<1>2. CASE StartPlain(p)
  <2>1. PICK o \in {"info", "join", "leave"}, d \in Acting, g \in Group :
          Start(p, [NoCmd EXCEPT !.op = o, !.me = d, !.group = g])
    BY <1>2 DEF StartPlain
  <2> DEFINE c == [NoCmd EXCEPT !.op = o, !.me = d, !.group = g]
  <2>2. c \in Cmd /\ c.op = o /\ c.group = g
    BY <1>1, NewValues DEF NoCmd, Cmd, Op, Change
  <2>3. Start(p, c)
    BY <2>1
  <2> HIDE DEF c
  <2> QED
    BY <2>2, <2>3, BeginStep DEF Op, Change
<1>3. CASE StartCreate(p)
  <2>1. PICK d \in Acting : Start(p, [NoCmd EXCEPT !.op = "create", !.me = d])
    BY <1>3 DEF StartCreate
  <2> DEFINE c == [NoCmd EXCEPT !.op = "create", !.me = d]
  <2>2. c \in Cmd /\ c.op = "create"
    BY <1>1, NewValues DEF NoCmd, Cmd, Op, Change
  <2>3. Start(p, c)
    BY <2>1
  <2> HIDE DEF c
  <2> QED
    BY <2>2, <2>3, BeginStep DEF Op, Change
<1>4. CASE StartAdd(p)
  <2>1. PICK d \in Acting, g \in Group, r \in {"owner", "member"},
             x \in Did \cup {None}, h \in Handle \cup {None} :
          /\ x = None \/ h = None
          /\ Start(p, [NoCmd EXCEPT !.op = "add", !.me = d, !.group = g, !.role = r,
                                    !.did = x, !.handle = h])
    <3>1. PICK d \in Acting, g \in Group, r \in {"owner", "member"},
               to \in IF may.handles THEN [did : {None}, handle : Handle]
                      ELSE [did : Did, handle : {None}] :
            Start(p, [NoCmd EXCEPT !.op = "add", !.me = d, !.group = g, !.role = r,
                                   !.did = to.did, !.handle = to.handle])
      BY <1>4 DEF StartAdd
    <3>2. /\ to.did \in Did \cup {None} /\ to.handle \in Handle \cup {None}
          /\ to.did = None \/ to.handle = None
      OBVIOUS
    <3> QED
      BY <3>1, <3>2
  <2> DEFINE c == [NoCmd EXCEPT !.op = "add", !.me = d, !.group = g, !.role = r,
                                !.did = x, !.handle = h]
  <2>2. c \in Cmd /\ c.op = "add" /\ c.group = g /\ (c.did = None \/ c.handle = None)
    BY <1>1, <2>1, NewValues DEF NoCmd, Cmd, Op, Change
  <2>3. Start(p, c)
    BY <2>1
  <2> HIDE DEF c
  <2> QED
    BY <2>2, <2>3, BeginStep DEF Op, Change
<1>5. CASE StartRemove(p)
  <2>1. PICK d \in Acting, g \in Group, m \in Did :
          Start(p, [NoCmd EXCEPT !.op = "remove", !.me = d, !.group = g, !.did = m])
    BY <1>5 DEF StartRemove
  <2> DEFINE c == [NoCmd EXCEPT !.op = "remove", !.me = d, !.group = g, !.did = m]
  <2>2. c \in Cmd /\ c.op = "remove" /\ c.group = g /\ c.did = m
    BY <1>1, NewValues DEF NoCmd, Cmd, Op, Change
  <2>3. Start(p, c)
    BY <2>1
  <2> HIDE DEF c
  <2> QED
    BY <2>2, <2>3, BeginStep DEF Op, Change
<1>6. CASE StartPatch(p)
  <2>1. PICK o \in {"update", "policy"}, d \in Acting, g \in Group, f \in Patch :
          Start(p, [NoCmd EXCEPT !.op = o, !.me = d, !.group = g, !.patch = f])
    BY <1>6 DEF StartPatch
  <2> DEFINE c == [NoCmd EXCEPT !.op = o, !.me = d, !.group = g, !.patch = f]
  <2>2. c \in Cmd /\ c.op = o /\ c.group = g
    BY <1>1, NewValues DEF NoCmd, Cmd, Op, Change
  <2>3. Start(p, c)
    BY <2>1
  <2> HIDE DEF c
  <2> QED
    BY <2>2, <2>3, BeginStep DEF Op, Change
<1>7. CASE StartSend(p)
  <2>1. PICK d \in Acting, g \in Group :
          Start(p, [NoCmd EXCEPT !.op = "send", !.me = d, !.group = g])
    BY <1>7 DEF StartSend
  <2> DEFINE c == [NoCmd EXCEPT !.op = "send", !.me = d, !.group = g]
  <2>2. c \in Cmd /\ c.op = "send" /\ c.group = g
    BY <1>1, NewValues DEF NoCmd, Cmd, Op, Change
  <2>3. Start(p, c)
    BY <2>1
  <2> HIDE DEF c
  <2> QED
    BY <2>2, <2>3, BeginStep DEF Op, Change
<1> QED
  BY <1>2, <1>3, <1>4, <1>5, <1>6, <1>7 DEF Begin

(* Handles and what members receive.                                       *)
LEMMA AroundStep ==
  ASSUME IInv, Handling \/ Receive
  PROVE  IInv'
<1>0. /\ Types /\ TypeOK /\ cmd \in [Proc -> Cmd] /\ reply \in [Proc -> Reply] /\ Logged /\ HInv
  BY DEF IInv, Types
<1>1. HInv' /\ BoundStays
  <2>1. CASE Handling
    BY <1>0, <2>1, HandlesStep, NewIdentityStep DEF Handling
  <2>2. CASE Receive
    BY <1>0, <2>2 DEF Receive, handles, HInv, RegisteringAt, H!HandlesTypeOK,
       H!HandlesAreOurs, H!Existing, BoundStays
  <2> QED
    BY <2>1, <2>2
<1>2. UNCHANGED <<may, group, log, up, post, pc, cmd, reply, view>>
  BY DEF Handling, Receive, backend, process
<1>3. Grows /\ log' \in [Group -> Seq(State)]
  BY <1>0, <1>2, RecordType DEF Grows, TypeOK
<1>4. TypeOK'
  <2>1. H!HandlesTypeOK'
    BY <1>1 DEF HInv
  <2> QED
    BY <1>0, <1>2, <2>1 DEF TypeOK
<1>5. \A q \in Proc : AnswerAt(q)' /\ CmdAt(q)'
  BY <1>0, <1>1, <1>2, <1>3, AnswerStays DEF IInv, CmdAt
<1>6. Logged' /\ Steps' /\ VersionBound'
  BY <1>2 DEF IInv, Logged, Steps, VersionBound
<1>7. Apart'
  BY <1>2, ApartStays DEF IInv
<1> QED
  BY <1>0, <1>1, <1>2, <1>4, <1>5, <1>6, <1>7 DEF IInv, Types

(* The invariant holds of every state.                                   *)
THEOREM InductiveInvariant == Spec => []IInv
<1>1. ASSUME Init PROVE IInv
  <2>1. HInv
    BY <1>1, InitHInv DEF Init
  <2>2. may.versions \in Nat \ {0}
    BY <1>1, GroupsAssumption DEF Init
  <2>3. TypeOK /\ cmd \in [Proc -> Cmd] /\ reply \in [Proc -> Reply]
    <3>1. group \in [Group -> Record \cup {None}] /\ log \in [Group -> Seq(State)]
      BY <1>1, EmptySeq DEF Init
    <3>2. Len(post) <= 1
      BY <1>1, EmptySeq DEF Init
    <3>3. /\ cmd \in [Proc -> Cmd] /\ reply \in [Proc -> Reply] /\ view \in [Proc -> State]
      BY <1>1, NewValues DEF Init
    <3>4. \A p \in Proc : /\ cmd[p].op \in Op \cup {"none"} /\ cmd[p].me \in Did \cup {None}
                          /\ reply[p].version <= may.versions /\ reply[p].listed \subseteq Did
      BY <1>1, <2>2 DEF Init, NoCmd, NoReply
    <3>5. /\ may \in Scenario /\ up \in BOOLEAN
          /\ pc \in [Proc -> {"idle", "ask", "answer", "shown"}]
      BY <1>1 DEF Init
    <3> QED
      BY <2>1, <3>1, <3>2, <3>3, <3>4, <3>5 DEF TypeOK, HInv
  <2>4. Logged /\ Steps /\ VersionBound /\ Apart
    <3>1. \A g \in Group : group[g] = None /\ log[g] = <<>> /\ Len(log[g]) = 0
      BY <1>1, EmptySeq DEF Init
    <3> QED
      BY <1>1, <3>1 DEF Logged, Steps, VersionBound, Apart, Changing, Init
  <2>5. \A p \in Proc : CmdAt(p) /\ AnswerAt(p)
    BY <1>1 DEF Init, CmdAt, AnswerAt, NoCmd
  <2> QED
    BY <2>1, <2>3, <2>4, <2>5 DEF IInv, Types
<1>2. IInv /\ [Next]_vars => IInv'
  <2> SUFFICES ASSUME IInv, [Next]_vars PROVE IInv'
    OBVIOUS
  <2>1. CASE UNCHANGED vars
    <3>1. /\ Types /\ TypeOK /\ Logged /\ HInv
          /\ UNCHANGED <<may, handles, group, log, up, post, row, pc, cmd, reply, view>>
      BY <2>1 DEF vars, backend, process, IInv, Types
    <3>2. HInv' /\ BoundStays
      BY <3>1 DEF handles, HInv, RegisteringAt, H!HandlesTypeOK, H!HandlesAreOurs,
         H!Existing, BoundStays
    <3>3. Grows /\ log' \in [Group -> Seq(State)]
      BY <3>1, RecordType DEF Grows, TypeOK
    <3>4. \A q \in Proc : AnswerAt(q)' /\ CmdAt(q)'
      BY <3>1, <3>2, <3>3, AnswerStays DEF IInv, CmdAt
    <3>5. Logged' /\ Steps' /\ VersionBound'
      BY <3>1 DEF IInv, Logged, Steps, VersionBound
    <3>6. TypeOK'
      BY <3>1, <3>2 DEF TypeOK, HInv
    <3>7. Apart'
      BY <3>1, ApartStays DEF IInv
    <3> QED
      BY <3>1, <3>2, <3>4, <3>5, <3>6, <3>7 DEF IInv, Types
  <2>2. ASSUME NEW p \in Proc, Dispatch(p) \/ Answer(p)
        PROVE  IInv'
    <3>1. CASE Refused(p) \/ Return(p) \/ Fail(p) \/ Race(p)
      <4>1. up \in BOOLEAN
        BY DEF IInv, Types, TypeOK
      <4>2. \E from : End(p, from)
        BY <3>1 DEF Refused, Return, Fail, Race
      <4>3. /\ up' \in BOOLEAN
            /\ UNCHANGED <<may, handles, group, log, post, row>>
        BY <3>1, <4>1 DEF Refused, Return, Fail, Race, backend
      <4> QED
        BY <4>2, <4>3, EndStep
    <3>2. CASE Encode(p)
      BY <3>2, EncodeStep
    <3>3. CASE \/ Create(p) \/ GetInfo(p) \/ Join(p) \/ AddMember(p) \/ AddByHandle(p)
               \/ RemoveMember(p) \/ Leave(p) \/ UpdateProfile(p) \/ UpdatePolicy(p) \/ Send(p)
      BY <3>3, DispatchStep, ServesKeeps
    <3> QED
      BY <2>2, <3>1, <3>2, <3>3 DEF Dispatch, Answer
  <2> QED
    BY <2>1, <2>2, AroundStep, BeginCases DEF Next
<1> QED
  BY <1>1, <1>2, PTL DEF Spec

(* The types, for any clients, groups, identities and keys.              *)
THEOREM TypeCorrect == Spec => []TypeOK
<1>1. IInv => TypeOK
  BY DEF IInv, Types
<1> QED
  BY <1>1, InductiveInvariant, PTL

(* identity/service.go 135-155, mock.go 798-803: a handle that an        *)
(* identity shows is bound to its DID at the backend, whichever identity *)
(* became the default while the command ran, and whichever call failed.  *)
THEOREM ShownHandlesAreOurs == Spec => []HandlesAreOurs
<1>1. IInv => HandlesAreOurs
  BY DEF IInv, HInv, HandlesAreOurs
<1> QED
  BY <1>1, InductiveInvariant, PTL

(* mock.go 381-395: `group add --member-handle` has made the identity    *)
(* which shows the handle a member.                                      *)
THEOREM HandlesAddTheirOwners == Spec => []MembersByHandle
<1>1. ASSUME IInv PROVE MembersByHandle
  <2> SUFFICES ASSUME NEW p \in Proc, NEW n \in Name, pc[p] \in {"answer", "shown"},
                      cmd[p].op = "add", cmd[p].handle # None,
                      entry[n] # None, entry[n].handle = cmd[p].handle
               PROVE  log[cmd[p].group][reply[p].version].members[entry[n].did] =
                        [role |-> cmd[p].role, status |-> "active"]
    BY DEF MembersByHandle
  <2>1. Added(p)
    BY <1>1 DEF IInv, AnswerAt
  <2>2. bound[cmd[p].handle] = entry[n].did
    BY <1>1 DEF IInv, HInv, H!HandlesAreOurs, H!Existing
  <2> QED
    BY <2>1, <2>2 DEF Added
<1> QED
  BY <1>1, InductiveInvariant, PTL

(* mock.go 355-473, 694-703: a group is what it was at its version, one  *)
(* version apart is one member, the profile or the policy, and of two    *)
(* changes that are being answered each has a version of its own.        *)
THEOREM VersionsAreExact == Spec => []VersionsTellStates
<1>1. ASSUME IInv PROVE VersionsTellStates
  <2> SUFFICES ASSUME NEW g \in Group, group[g] # None
               PROVE  /\ Len(log[g]) = group[g].version
                      /\ log[g][group[g].version] = group[g].state
                      /\ \A v \in 2..Len(log[g]) : OneChange(log[g][v - 1], log[g][v])
                      /\ \A p, q \in Proc : p # q /\ Changing(p, g) /\ Changing(q, g) =>
                           reply[p].version # reply[q].version
    BY DEF VersionsTellStates
  <2> QED
    BY <1>1 DEF IInv, Logged, Steps, Apart
<1> QED
  BY <1>1, InductiveInvariant, PTL

(* mock.go 170-177, 201-203: what an answer lists was so at its version  *)
(* or later; never before it, although it is encoded after the mutex is  *)
(* released.                                                             *)
THEOREM AnswersAreNeverStale == Spec => []AnswersKeepUp
<1>1. IInv => AnswersKeepUp
  BY DEF IInv, AnswerAt, AnswersKeepUp
<1> QED
  BY <1>1, InductiveInvariant, PTL
-----------------------------------------------------------------------------
(* What a message carries is its draft's body, and a draft that could not  *)
(* be built is not sent.                                                   *)
Built(r) == r = Body /\ Mentioned # None
Drafted ==
  /\ may \in Scenario
  /\ \A p \in Proc : cmd[p].op = "send" => Mentioned # None
  /\ \A i \in DOMAIN post : Built(post[i])
  /\ \A r \in row : Built(r)

(* The draft is the same throughout.                                       *)
LEMMA DraftStays ==
  ASSUME [Next]_vars
  PROVE  may' = may /\ Mentioned' = Mentioned /\ Body' = Body
<1>1. may' = may
  <2>1. ASSUME NEW p \in Proc, Begin(p) PROVE may' = may
    BY <2>1 DEF Begin, StartPlain, StartCreate, StartAdd, StartRemove, StartPatch, StartSend, Start
  <2>2. ASSUME NEW p \in Proc, Dispatch(p) PROVE may' = may
    BY <2>2 DEF Dispatch, Create, CreateAt, GetInfo, Join, AddMember, AddByHandle,
       RemoveMember, Leave, UpdateProfile, UpdatePolicy, Send, Refused, ServeChange, Serve
  <2>3. ASSUME NEW p \in Proc, Answer(p) PROVE may' = may
    BY <2>3 DEF Answer, Encode, EncodeListing, Race, Return, Fail
  <2> QED
    BY <2>1, <2>2, <2>3 DEF Next, Handling, Receive, vars
<1> QED
  BY <1>1 DEF Mentioned, Body

(* No step makes a command that sends, but the start of `group send`.      *)
LEMMA CommandsStep ==
  ASSUME cmd \in [Proc -> Cmd], Next, Drafted, NEW q \in Proc, cmd'[q].op = "send"
  PROVE  Mentioned # None
<1>0. cmd[q].op = "send" => Mentioned # None
  BY DEF Drafted
<1>1. ASSUME NEW p \in Proc, Begin(p)
      PROVE  Mentioned # None
  <2>1. CASE StartSend(p)
    BY <2>1 DEF StartSend
  <2>2. CASE \/ StartPlain(p) \/ StartCreate(p) \/ StartAdd(p) \/ StartRemove(p)
             \/ StartPatch(p)
    <3>1. CASE StartPlain(p)
      BY <1>0, <3>1 DEF StartPlain, Start, NoCmd
    <3>2. CASE StartCreate(p)
      BY <1>0, <3>2 DEF StartCreate, Start, NoCmd
    <3>3. CASE StartAdd(p)
      BY <1>0, <3>3 DEF StartAdd, Start, NoCmd
    <3>4. CASE StartRemove(p)
      BY <1>0, <3>4 DEF StartRemove, Start, NoCmd
    <3>5. CASE StartPatch(p)
      BY <1>0, <3>5 DEF StartPatch, Start, NoCmd
    <3> QED
      BY <2>2, <3>1, <3>2, <3>3, <3>4, <3>5
  <2> QED
    BY <1>1, <2>1, <2>2 DEF Begin
<1>2. ASSUME NEW p \in Proc, Create(p)
      PROVE  Mentioned # None
  <2>1. PICK g \in Group : cmd' = [cmd EXCEPT ![p].group = g]
    BY <1>2 DEF Create, CreateAt
  <2>2. cmd'[q].op = cmd[q].op
    BY <2>1 DEF Cmd
  <2> QED
    BY <1>0, <2>2
<1>3. ASSUME NEW p \in Proc, NEW from, End(p, from)
      PROVE  Mentioned # None
  BY <1>0, <1>3 DEF End, NoCmd
<1>4. ASSUME NEW p \in Proc, Dispatch(p) \/ Answer(p)
      PROVE  Mentioned # None
  <2>1. CASE Refused(p) \/ Race(p) \/ Return(p) \/ Fail(p)
    BY <1>3, <2>1 DEF Refused, Race, Return, Fail
  <2>2. CASE \/ GetInfo(p) \/ Join(p) \/ AddMember(p) \/ AddByHandle(p) \/ RemoveMember(p)
             \/ Leave(p) \/ UpdateProfile(p) \/ UpdatePolicy(p) \/ Send(p) \/ Encode(p)
    <3>1. cmd' = cmd
      BY <2>2 DEF GetInfo, Join, AddMember, AddByHandle, RemoveMember, Leave, UpdateProfile,
         UpdatePolicy, Send, ServeChange, Encode, EncodeListing
    <3> QED
      BY <1>0, <3>1
  <2> QED
    BY <1>2, <1>4, <2>1, <2>2 DEF Dispatch, Answer
<1> QED
  BY <1>0, <1>1, <1>4 DEF Next, Handling, Receive, process

(* A message is sent with the draft's body, and stored as it was sent.     *)
LEMMA MessagesStep ==
  ASSUME Next, Drafted
  PROVE  (\A i \in DOMAIN post' : Built(post'[i])) /\ (\A r \in row' : Built(r))
<1>0. (\A i \in DOMAIN post : Built(post[i])) /\ (\A r \in row : Built(r))
  BY DEF Drafted
<1>1. ASSUME UNCHANGED <<post, row>>
      PROVE  (\A i \in DOMAIN post' : Built(post'[i])) /\ (\A r \in row' : Built(r))
  BY <1>0, <1>1
<1>2. CASE Receive
  BY <1>0, <1>2 DEF Receive
<1>3. ASSUME NEW p \in Proc, Send(p)
      PROVE  (\A i \in DOMAIN post' : Built(post'[i])) /\ (\A r \in row' : Built(r))
  <2>1. /\ cmd[p].op = "send" /\ post = <<>> /\ row' = row
        /\ post' = Append(post, Body)
    BY <1>3 DEF Send, Asked, Serve
  <2>2. Built(Body)
    BY <2>1 DEF Drafted, Built
  <2>3. DOMAIN post' = {1} /\ post'[1] = Body
    BY <2>1
  <2> QED
    BY <1>0, <2>1, <2>2, <2>3
<1>4. ASSUME NEW p \in Proc, Begin(p)
      PROVE  UNCHANGED <<post, row>>
  BY <1>4 DEF Begin, StartPlain, StartCreate, StartAdd, StartRemove, StartPatch, StartSend,
     Start, backend
<1>5. ASSUME NEW p \in Proc, Dispatch(p) \/ Answer(p), ~Send(p)
      PROVE  UNCHANGED <<post, row>>
  BY <1>5 DEF Dispatch, Create, CreateAt, GetInfo, Join, AddMember, AddByHandle,
     RemoveMember, Leave, UpdateProfile, UpdatePolicy, Refused, ServeChange, Serve,
     Answer, Encode, EncodeListing, Race, Return, Fail, backend
<1> QED
  BY <1>1, <1>2, <1>3, <1>4, <1>5 DEF Next, Handling, backend

(* group.go 244-297, mock.go 475-505: what is sent and stored is the body  *)
(* built from the draft, and only when every mention could be built.       *)
THEOREM MessagesAreDrafted == Spec => []Drafted
<1>1. Init => Drafted
  BY EmptySeq DEF Init, Drafted, NoCmd
<1>2. IInv /\ Drafted /\ [Next]_vars => Drafted'
  <2> SUFFICES ASSUME IInv, Drafted, [Next]_vars PROVE Drafted'
    OBVIOUS
  <2>1. may' = may /\ Mentioned' = Mentioned /\ Body' = Body
    BY DraftStays
  <2>2. CASE UNCHANGED vars
    BY <2>1, <2>2 DEF vars, backend, process, Drafted, Built
  <2>3. CASE Next
    <3>1. cmd \in [Proc -> Cmd]
      BY DEF IInv, Types
    <3>2. \A q \in Proc : cmd'[q].op = "send" => Mentioned # None
      BY <2>3, <3>1, CommandsStep
    <3>3. (\A i \in DOMAIN post' : Built(post'[i])) /\ (\A r \in row' : Built(r))
      BY <2>3, MessagesStep
    <3>4. \A r : Built(r)' <=> Built(r)
      BY <2>1 DEF Built
    <3> QED
      BY <2>1, <3>2, <3>3, <3>4 DEF Drafted, Built
  <2> QED
    BY <2>2, <2>3
<1> QED
  BY <1>1, <1>2, InductiveInvariant, PTL DEF Spec

(* mention.go 1-4, 226-298: in what the members store, every surface that  *)
(* was to be located is where its range says, and nowhere before, whatever *)
(* the code points of the text before it.                                  *)
THEOREM MentionsAlwaysPoint == Spec => []MentionsPoint
<1>1. ASSUME Drafted PROVE MentionsPoint
  <2> SUFFICES ASSUME NEW r \in row, NEW i \in DOMAIN r.mentions
               PROVE  LET spec == ParseMentionSpec(may.draft.raws[i])
                          range == r.mentions[i].range
                      IN
                      /\ range[2] <= Len(r.text)
                      /\ HasSurface(spec) /\ spec.range = None =>
                           /\ SubSeq(r.text, range[1] + 1, range[2]) = Needle(spec.surface)
                           /\ range[1] = FirstPlace(r.text, spec.surface)
    BY DEF MentionsPoint
  <2>1. r = Body /\ Mentioned # None
    BY <1>1 DEF Drafted, Built
  <2>2. r.text = may.draft.text /\ r.mentions = Mentioned /\ may.draft.raws # <<>>
    BY <2>1, EmptySeq DEF Body
  <2>3. may \in Scenario
    BY <1>1 DEF Drafted
  <2>4. /\ Utf8 /\ may.draft.text \in Texts
        /\ \A j \in DOMAIN may.draft.raws : WellFormed(may.draft.raws[j])
    BY <2>3, DraftAssumption DEF Texts
  <2>5. i \in DOMAIN may.draft.raws
    BY <2>1, <2>2 DEF Mentioned, BuildMentions, Error
  <2> QED
    BY <2>1, <2>2, <2>4, <2>5, BuiltMentionsPoint DEF Mentioned, Error
<1> QED
  BY <1>1, MessagesAreDrafted, PTL
-----------------------------------------------------------------------------
(* A member who joins or is added has the role it is given; one who leaves *)
(* or is removed has none.                                                 *)
LEMMA RolesChange ==
  ASSUME NEW s \in State, NEW d \in Did, NEW r \in {"owner", "member"}
  PROVE  /\ Roles(Upserted(s, d, r)) = [Roles(s) EXCEPT ![d] = r]
         /\ Roles(Removed(s, d)) = [Roles(s) EXCEPT ![d] = None]
<1>0. s.members \in [Did -> Member \cup {None}]
  BY DEF State
<1>1. Roles(Upserted(s, d, r)) = [Roles(s) EXCEPT ![d] = r]
  <2> DEFINE m == [role |-> r, status |-> "active"]
             t == Upserted(s, d, r)
  <2>1. m # None /\ m.role = r /\ m.status = "active"
    BY GroupsAssumption DEF Member
  <2>2. t.members = [s.members EXCEPT ![d] = m]
    BY DEF Upserted, State
  <2> HIDE DEF m, t
  <2>3. t.members[d] = m /\ \A x \in Did : x # d => t.members[x] = s.members[x]
    BY <1>0, <2>2
  <2>4. \A x \in Did : Roles(t)[x] = IF x = d THEN r ELSE Roles(s)[x]
    BY <2>1, <2>3 DEF Roles
  <2>5. Roles(t) = [Roles(s) EXCEPT ![d] = r]
    BY <2>4 DEF Roles
  <2> QED
    BY <2>5 DEF t
<1>2. Roles(Removed(s, d)) = [Roles(s) EXCEPT ![d] = None]
  <2> DEFINE t == Removed(s, d)
  <2>1. CASE s.members[d] = None
    <3>1. t = s
      BY <2>1 DEF Removed
    <3>2. Roles(s)[d] = None
      BY <2>1 DEF Roles
    <3> QED
      BY <3>1, <3>2 DEF Roles
  <2>2. CASE s.members[d] # None
    <3> DEFINE m == [s.members[d] EXCEPT !.status = "removed"]
    <3>1. m.status = "removed"
      BY <1>0, <2>2 DEF Member
    <3>2. t.members = [s.members EXCEPT ![d] = m]
      BY <2>2 DEF Removed, State
    <3> HIDE DEF m, t
    <3>3. t.members[d] = m /\ \A x \in Did : x # d => t.members[x] = s.members[x]
      BY <1>0, <3>2
    <3>4. \A x \in Did : Roles(t)[x] = IF x = d THEN None ELSE Roles(s)[x]
      BY <3>1, <3>3 DEF Roles
    <3>5. Roles(t) = [Roles(s) EXCEPT ![d] = None]
      BY <3>4 DEF Roles
    <3> QED
      BY <3>5 DEF t
  <2> QED
    BY <2>1, <2>2
<1> QED
  BY <1>1, <1>2

(* What the registry has for a group.                                      *)
LEMMA ShownIs ==
  ASSUME NEW r \in Record
  PROVE  /\ Shown(r) = [role |-> Roles(r.state), profile |-> r.state.profile,
                        policy |-> r.state.policy, version |-> r.version]
         /\ Shown(r) \in Entry /\ Shown(r) # None /\ r # None
<1>1. r # None
  BY GroupsAssumption
<1>2. r.state \in State /\ r.version \in Nat \ {0}
  BY DEF Record
<1>3. r.state.members \in [Did -> Member \cup {None}] /\ r.state.profile \in Map /\ r.state.policy \in Map
  BY <1>2 DEF State
<1>4. Roles(r.state) \in [Did -> {"owner", "member", None}]
  BY <1>3 DEF Roles, Member
<1>5. Shown(r) = [role |-> Roles(r.state), profile |-> r.state.profile,
                  policy |-> r.state.policy, version |-> r.version]
  BY <1>1 DEF Shown
<1>6. Shown(r) \in Entry
  BY <1>2, <1>3, <1>4, <1>5 DEF Entry
<1> QED
  BY <1>1, <1>5, <1>6, GroupsAssumption

(* Nobody hears of a version before the request is served.                 *)
Quiet == \A p \in Proc : pc[p] \in {"idle", "ask"} => reply[p].version = 0

(* What is served is the registry's new state, and the request is done.    *)
LEMMA ServeDone ==
  ASSUME IInv, NEW p \in Proc, NEW g \in Group, NEW r \in Record, Serve(p, g, r),
         \A q \in Proc : q # p => cmd'[q] = cmd[q]
  PROVE  /\ Registered' = [Registered EXCEPT ![g] = Shown(r)]
         /\ Kept!Done(p, r.version)
         /\ Pending[p] = cmd[p]
<1>0. /\ cmd \in [Proc -> Cmd] /\ reply \in [Proc -> Reply]
      /\ pc \in [Proc -> {"idle", "ask", "answer", "shown"}]
      /\ group \in [Group -> Record \cup {None}]
  BY DEF IInv, Types, TypeOK
<1>1. /\ pc[p] = "ask" /\ pc' = [pc EXCEPT ![p] = "answer"]
      /\ group' = [group EXCEPT ![g] = r]
      /\ reply' = [reply EXCEPT ![p] = [version |-> r.version, listed |-> Listed(r.state)]]
      /\ bound' = bound
  BY DEF Serve, Goto, handles
<1>2. Registered' = [Registered EXCEPT ![g] = Shown(r)]
  BY <1>0, <1>1 DEF Registered
<1>3. Pending[p] = cmd[p] /\ Pending[p] # None
  BY <1>0, <1>1, GroupsAssumption DEF Pending
<1>4. Pending' = [Pending EXCEPT ![p] = None]
  <2>1. \A q \in Proc : Pending'[q] = IF q = p THEN None ELSE Pending[q]
    BY <1>0, <1>1 DEF Pending
  <2> QED
    BY <2>1 DEF Pending
<1>5. Told' = [Told EXCEPT ![p] = r.version]
  BY <1>0, <1>1 DEF Told
<1> QED
  BY <1>1, <1>2, <1>3, <1>4, <1>5 DEF Kept!Done

(* group.create.                                                           *)
LEMMA CreateRefines ==
  ASSUME IInv, NEW p \in Proc, Create(p)
  PROVE  Kept!Create(p)
<1>0. cmd \in [Proc -> Cmd]
  BY DEF IInv, Types
<1> DEFINE s == [NoView EXCEPT !.members[cmd[p].me] = [role |-> "owner", status |-> "active"]]
           r == [state |-> s, version |-> 1, seq |-> 0]
<1>1. PICK g \in Group :
        /\ Asked(p, "create") /\ group[g] = None
        /\ cmd' = [cmd EXCEPT ![p].group = g]
        /\ Serve(p, g, r)
  BY DEF Create, CreateAt
<1>2. cmd[p].me \in Did /\ cmd[p].op = "create"
  BY <1>1 DEF IInv, CmdAt, Asked
<1>3. s = Upserted(NoView, cmd[p].me, "owner") /\ NoView \in State
  BY NewValues DEF Upserted
<1>4. s \in State
  BY <1>2, <1>3, UpsertedState DEF Successor
<1>5. /\ s.profile = Empty /\ s.policy = Empty
      /\ Roles(s) = [d \in Did |-> IF d = cmd[p].me THEN "owner" ELSE None]
  <2>1. Roles(s) = [Roles(NoView) EXCEPT ![cmd[p].me] = "owner"]
    BY <1>2, <1>3, RolesChange
  <2>2. Roles(NoView) = [d \in Did |-> None]
    BY DEF Roles, NoView
  <2>3. s.profile = Empty /\ s.policy = Empty
    BY DEF NoView
  <2> QED
    BY <2>1, <2>2, <2>3
<1> HIDE DEF s
<1>6. r \in Record /\ r.state = s /\ r.version = 1
  BY <1>4 DEF Record
<1> HIDE DEF r
<1>7. \A q \in Proc : q # p => cmd'[q] = cmd[q]
  BY <1>0, <1>1
<1>8. /\ Registered' = [Registered EXCEPT ![g] = Shown(r)] /\ Kept!Done(p, 1)
      /\ Pending[p] = cmd[p]
  BY <1>1, <1>6, <1>7, ServeDone
<1>9. Shown(r) = [role |-> [d \in Did |-> IF d = cmd[p].me THEN "owner" ELSE None],
                  profile |-> [k \in Key |-> None], policy |-> [k \in Key |-> None],
                  version |-> 1]
  BY <1>5, <1>6, ShownIs DEF Empty
<1>10. Registered[g] = None
  BY <1>1 DEF Registered, Shown
<1>11. Pending[p] # None
  BY <1>8 DEF Kept!Done
<1> QED
  BY <1>2, <1>8, <1>9, <1>10, <1>11 DEF Kept!Create

(* A request that changes the group's state.                               *)
LEMMA ChangeRefines ==
  ASSUME IInv, NEW p \in Proc, NEW op \in Change, NEW s \in State,
         ServeChange(p, op, s, Rec(p).version + 1),
         op = "add" => Kept!Whom(cmd[p]) # None,
         [role |-> Roles(s), profile |-> s.profile, policy |-> s.policy,
          version |-> Rec(p).version + 1] = Kept!Changed(cmd[p], Shown(Rec(p)))
  PROVE  Kept!Change(p)
<1> DEFINE g == cmd[p].group
           v == Rec(p).version + 1
           r == [Rec(p) EXCEPT !.state = s, !.version = v]
<1>1. /\ Asked(p, op) /\ Rec(p) # None /\ Serve(p, g, r) /\ cmd' = cmd
  BY DEF ServeChange
<1>2. cmd[p].op = op /\ g \in Group /\ Rec(p) = group[g]
  BY <1>1 DEF Asked, IInv, CmdAt, Change, Rec
<1>3. Rec(p) \in Record /\ Rec(p).version \in Nat \ {0}
  BY <1>1, <1>2 DEF IInv, Types, TypeOK, Record
<1>4. r \in Record /\ r.state = s /\ r.version = v
  <2>1. v \in Nat \ {0}
    BY <1>3
  <2> HIDE DEF v
  <2> QED
    BY <1>3, <2>1 DEF Record
<1> HIDE DEF r
<1>5. /\ Registered' = [Registered EXCEPT ![g] = Shown(r)] /\ Kept!Done(p, v)
      /\ Pending[p] = cmd[p] /\ Pending[p] # None
  <2>1. \A q \in Proc : q # p => cmd'[q] = cmd[q]
    BY <1>1
  <2>2. /\ Registered' = [Registered EXCEPT ![g] = Shown(r)] /\ Kept!Done(p, r.version)
        /\ Pending[p] = cmd[p]
    BY <1>1, <1>2, <1>4, <2>1, ServeDone
  <2> QED
    BY <1>4, <2>2 DEF Kept!Done
<1>6. Registered[g] = Shown(Rec(p)) /\ Registered[g] # None /\ Registered[g].version = Rec(p).version
  BY <1>2, <1>3, ShownIs DEF Registered
<1>7. Shown(r) = Kept!Changed(cmd[p], Registered[g])
  BY <1>4, <1>6, ShownIs
<1> QED
  BY <1>2, <1>5, <1>6, <1>7 DEF Kept!Change, Change

(* What the registry has for a group that a request names.                 *)
LEMMA NamedIs ==
  ASSUME IInv, NEW p \in Proc, NEW op \in Op \ {"create"}, Asked(p, op), Rec(p) # None
  PROVE  /\ cmd[p] \in Cmd /\ cmd[p].op = op /\ cmd[p].group \in Group /\ cmd[p].me \in Did
         /\ op = "remove" => cmd[p].did \in Did
         /\ op = "add" => cmd[p].did = None \/ cmd[p].handle = None
         /\ Rec(p) \in Record /\ Rec(p).state \in State /\ Rec(p).version \in Nat
         /\ Rec(p) = group[cmd[p].group]
         /\ Shown(Rec(p)) =
              [role |-> Roles(Rec(p).state), profile |-> Rec(p).state.profile,
               policy |-> Rec(p).state.policy, version |-> Rec(p).version]
<1>1. /\ cmd[p] \in Cmd /\ cmd[p].op = op /\ cmd[p].group \in Group /\ cmd[p].me \in Did
      /\ op = "remove" => cmd[p].did \in Did
      /\ op = "add" => cmd[p].did = None \/ cmd[p].handle = None
  BY DEF IInv, Types, CmdAt, Asked
<1>2. Rec(p) = group[cmd[p].group] /\ Rec(p) \in Record
  BY <1>1 DEF IInv, Types, TypeOK, Rec
<1>3. Rec(p).state \in State /\ Rec(p).version \in Nat
  BY <1>2 DEF Record
<1> QED
  BY <1>1, <1>2, <1>3, ShownIs

(* group.get_info and group.send.                                          *)
LEMMA LookRefines ==
  ASSUME IInv, NEW p \in Proc, GetInfo(p) \/ Send(p)
  PROVE  Kept!Look(p)
<1>1. ASSUME NEW op \in {"info", "send"}, Asked(p, op), Rec(p) # None, NEW r,
             Serve(p, cmd[p].group, r), cmd' = cmd,
             r = Rec(p) \/ r = [Rec(p) EXCEPT !.seq = Rec(p).seq + 1]
      PROVE  Kept!Look(p)
  <2>1. /\ cmd[p].op = op /\ cmd[p].group \in Group /\ Rec(p) \in Record
        /\ Rec(p) = group[cmd[p].group]
    BY <1>1, NamedIs DEF Op
  <2>2. r \in Record /\ r.state = Rec(p).state /\ r.version = Rec(p).version
    BY <1>1, <2>1 DEF Record
  <2>3. /\ Shown(r) = Shown(Rec(p)) /\ Shown(Rec(p)) # None
        /\ Shown(Rec(p)).version = Rec(p).version
    BY <2>1, <2>2, ShownIs
  <2>4. /\ Registered' = [Registered EXCEPT ![cmd[p].group] = Shown(r)]
        /\ Kept!Done(p, r.version) /\ Pending[p] = cmd[p]
    BY <1>1, <2>1, <2>2, ServeDone
  <2>5. Registered[cmd[p].group] = Shown(Rec(p))
    BY <2>1 DEF Registered
  <2>6. Registered' = Registered
    BY <2>3, <2>4, <2>5 DEF Registered
  <2>7. Pending[p] # None
    BY <2>4 DEF Kept!Done
  <2> QED
    BY <1>1, <2>1, <2>2, <2>3, <2>4, <2>5, <2>6, <2>7 DEF Kept!Look
<1>2. CASE GetInfo(p)
  BY <1>1, <1>2 DEF GetInfo
<1>3. CASE Send(p)
  BY <1>1, <1>3 DEF Send
<1> QED
  BY <1>2, <1>3

(* A request that changes somebody's role.                                 *)
LEMMA RoleRefines ==
  ASSUME IInv, NEW p \in Proc, NEW op \in Change, NEW s, NEW d \in Did,
         NEW r \in {"owner", "member", None},
         ServeChange(p, op, s, Rec(p).version + 1), Kept!Whom(cmd[p]) = d,
         \/ op \in {"remove", "leave"} /\ s = Removed(Rec(p).state, d) /\ r = None
         \/ op = "join" /\ s = Upserted(Rec(p).state, d, r) /\ r = "member"
         \/ op = "add" /\ s = Upserted(Rec(p).state, d, r) /\ r = cmd[p].role
  PROVE  Kept!Change(p)
<1>1. Asked(p, op) /\ Rec(p) # None
  BY DEF ServeChange
<1>2. /\ cmd[p] \in Cmd /\ cmd[p].op = op
      /\ Rec(p).state \in State /\ Rec(p).version \in Nat
      /\ Shown(Rec(p)) =
           [role |-> Roles(Rec(p).state), profile |-> Rec(p).state.profile,
            policy |-> Rec(p).state.policy, version |-> Rec(p).version]
  BY <1>1, NamedIs DEF Op, Change
<1>3. d # None
  BY GroupsAssumption
<1>4. /\ s \in State /\ s.profile = Rec(p).state.profile /\ s.policy = Rec(p).state.policy
      /\ Roles(s) = [Roles(Rec(p).state) EXCEPT ![d] = r]
  <2>1. CASE op \in {"remove", "leave"}
    <3>1. s = Removed(Rec(p).state, d) /\ r = None
      BY <2>1
    <3>2. s \in State /\ Roles(s) = [Roles(Rec(p).state) EXCEPT ![d] = None]
      BY <1>2, <3>1, RemovedState, RolesChange DEF Successor
    <3>3. s.profile = Rec(p).state.profile /\ s.policy = Rec(p).state.policy
      BY <1>2, <3>1 DEF Removed, State
    <3> QED
      BY <3>1, <3>2, <3>3
  <2>2. CASE op \in {"join", "add"}
    <3>1. s = Upserted(Rec(p).state, d, r) /\ r \in {"owner", "member"}
      BY <1>2, <2>2 DEF Cmd
    <3>2. s \in State /\ Roles(s) = [Roles(Rec(p).state) EXCEPT ![d] = r]
      BY <1>2, <3>1, UpsertedState, RolesChange DEF Successor
    <3>3. s.profile = Rec(p).state.profile /\ s.policy = Rec(p).state.policy
      BY <1>2, <3>1 DEF Upserted, State
    <3> QED
      BY <3>2, <3>3
  <2> QED
    BY <2>1, <2>2
<1>5. Kept!Changed(cmd[p], Shown(Rec(p))) =
        [role |-> [Roles(Rec(p).state) EXCEPT ![d] = r], profile |-> Rec(p).state.profile,
         policy |-> Rec(p).state.policy, version |-> Rec(p).version + 1]
  <2> DEFINE old == Rec(p).state
             v == Rec(p).version + 1
             next == [role |-> Roles(old), profile |-> old.profile,
                      policy |-> old.policy, version |-> v]
  <2>1. [Shown(Rec(p)) EXCEPT !.version = Shown(Rec(p)).version + 1] = next
    BY <1>2
  <2>2. [next EXCEPT !.role[d] = r] =
          [role |-> [Roles(old) EXCEPT ![d] = r], profile |-> old.profile,
           policy |-> old.policy, version |-> v]
    OBVIOUS
  <2> HIDE DEF next
  <2>3. CASE op \in {"remove", "leave"}
    BY <1>2, <2>1, <2>2, <2>3 DEF Kept!Changed
  <2>4. CASE op = "join"
    BY <1>2, <2>1, <2>2, <2>4 DEF Kept!Changed
  <2>5. CASE op = "add"
    BY <1>2, <2>1, <2>2, <2>5 DEF Kept!Changed
  <2> QED
    BY <2>3, <2>4, <2>5
<1> QED
  BY <1>3, <1>4, <1>5, ChangeRefines

(* A request that changes the profile or the policy.                       *)
LEMMA PatchRefines ==
  ASSUME IInv, NEW p \in Proc, UpdateProfile(p) \/ UpdatePolicy(p)
  PROVE  Kept!Change(p)
<1> DEFINE old == Rec(p).state
           v == Rec(p).version + 1
<1>1. ASSUME NEW op \in {"update", "policy"}, NEW s,
             ServeChange(p, op, s, Rec(p).version + 1)
      PROVE  /\ cmd[p] \in Cmd /\ cmd[p].op = op /\ old \in State
             /\ [Shown(Rec(p)) EXCEPT !.version = Shown(Rec(p)).version + 1] =
                  [role |-> Roles(old), profile |-> old.profile, policy |-> old.policy,
                   version |-> v]
  <2>1. Asked(p, op) /\ Rec(p) # None
    BY <1>1 DEF ServeChange
  <2> QED
    BY <2>1, NamedIs DEF Op, Change
<1>2. CASE UpdateProfile(p)
  <2> DEFINE s == [old EXCEPT !.profile = Merged(old.profile, cmd[p].patch)]
  <2>1. ServeChange(p, "update", s, Rec(p).version + 1)
    BY <1>2 DEF UpdateProfile
  <2>2. /\ cmd[p] \in Cmd /\ cmd[p].op = "update" /\ old \in State
        /\ [Shown(Rec(p)) EXCEPT !.version = Shown(Rec(p)).version + 1] =
             [role |-> Roles(old), profile |-> old.profile, policy |-> old.policy, version |-> v]
    BY <1>1, <2>1
  <2>3. s \in State
    BY <2>2, MergedState DEF Successor
  <2>4. /\ s.members = old.members /\ s.policy = old.policy
        /\ s.profile = Kept!Patched(old.profile, cmd[p].patch)
    BY <2>2 DEF State, Merged, Kept!Patched
  <2>5. Roles(s) = Roles(old)
    BY <2>4 DEF Roles
  <2> HIDE DEF s
  <2>6. Kept!Changed(cmd[p], Shown(Rec(p))) =
          [role |-> Roles(s), profile |-> s.profile, policy |-> s.policy, version |-> v]
    BY <2>2, <2>4, <2>5 DEF Kept!Changed
  <2> QED
    BY <2>1, <2>3, <2>6, ChangeRefines DEF Change
<1>3. CASE UpdatePolicy(p)
  <2> DEFINE s == [old EXCEPT !.policy = Merged(old.policy, cmd[p].patch)]
  <2>1. ServeChange(p, "policy", s, Rec(p).version + 1)
    BY <1>3 DEF UpdatePolicy
  <2>2. /\ cmd[p] \in Cmd /\ cmd[p].op = "policy" /\ old \in State
        /\ [Shown(Rec(p)) EXCEPT !.version = Shown(Rec(p)).version + 1] =
             [role |-> Roles(old), profile |-> old.profile, policy |-> old.policy, version |-> v]
    BY <1>1, <2>1
  <2>3. s \in State
    BY <2>2, MergedState DEF Successor
  <2>4. /\ s.members = old.members /\ s.profile = old.profile
        /\ s.policy = Kept!Patched(old.policy, cmd[p].patch)
    BY <2>2 DEF State, Merged, Kept!Patched
  <2>5. Roles(s) = Roles(old)
    BY <2>4 DEF Roles
  <2> HIDE DEF s
  <2>6. Kept!Changed(cmd[p], Shown(Rec(p))) =
          [role |-> Roles(s), profile |-> s.profile, policy |-> s.policy, version |-> v]
    BY <2>2, <2>4, <2>5 DEF Kept!Changed
  <2> QED
    BY <2>1, <2>3, <2>6, ChangeRefines DEF Change
<1> QED
  BY <1>2, <1>3

(* The requests, one by one.                                               *)
LEMMA DispatchRefines ==
  ASSUME IInv, NEW p \in Proc,
         \/ Create(p) \/ GetInfo(p) \/ Join(p) \/ AddMember(p) \/ AddByHandle(p)
         \/ RemoveMember(p) \/ Leave(p) \/ UpdateProfile(p) \/ UpdatePolicy(p) \/ Send(p)
  PROVE  Kept!Next
<1>1. ASSUME NEW op \in Change, NEW s, NEW v, ServeChange(p, op, s, v)
      PROVE  /\ cmd[p] \in Cmd /\ cmd[p].op = op /\ cmd[p].me \in Did
             /\ op = "remove" => cmd[p].did \in Did
             /\ op = "add" => cmd[p].did = None \/ cmd[p].handle = None
  BY <1>1, NamedIs DEF ServeChange, Op, Change
<1>2. CASE Join(p)
  <2>1. ServeChange(p, "join", Upserted(Rec(p).state, cmd[p].me, "member"), Rec(p).version + 1)
    BY <1>2 DEF Join
  <2>2. cmd[p].op = "join" /\ cmd[p].me \in Did
    BY <1>1, <2>1 DEF Change
  <2>3. Kept!Whom(cmd[p]) = cmd[p].me
    BY <2>2 DEF Kept!Whom
  <2> QED
    BY <2>1, <2>2, <2>3, RoleRefines DEF Change, Kept!Next
<1>3. CASE AddMember(p)
  <2>1. /\ cmd[p].did # None
        /\ ServeChange(p, "add", Upserted(Rec(p).state, cmd[p].did, cmd[p].role),
                       Rec(p).version + 1)
    BY <1>3 DEF AddMember
  <2>2. /\ cmd[p].op = "add" /\ cmd[p].did \in Did /\ cmd[p].handle = None
        /\ cmd[p].role \in {"owner", "member"}
    BY <1>1, <2>1 DEF Change, Cmd
  <2>3. Kept!Whom(cmd[p]) = cmd[p].did
    BY <2>2 DEF Kept!Whom
  <2> QED
    BY <2>1, <2>2, <2>3, RoleRefines DEF Change, Kept!Next
<1>4. CASE AddByHandle(p)
  <2> DEFINE d == bound[cmd[p].handle]
  <2>1. /\ cmd[p].handle # None /\ d # None
        /\ ServeChange(p, "add", Upserted(Rec(p).state, d, cmd[p].role), Rec(p).version + 1)
    BY <1>4 DEF AddByHandle
  <2>2. /\ cmd[p].op = "add" /\ cmd[p].handle \in Handle /\ cmd[p].role \in {"owner", "member"}
    BY <1>1, <2>1 DEF Change, Cmd
  <2>3. d \in Did
    BY <2>1, <2>2 DEF IInv, Types, TypeOK, H!HandlesTypeOK, Did
  <2>4. Kept!Whom(cmd[p]) = d
    BY <2>1, <2>2 DEF Kept!Whom
  <2> QED
    BY <2>1, <2>2, <2>3, <2>4, RoleRefines DEF Change, Kept!Next
<1>5. CASE RemoveMember(p)
  <2>1. ServeChange(p, "remove", Removed(Rec(p).state, cmd[p].did), Rec(p).version + 1)
    BY <1>5 DEF RemoveMember
  <2>2. cmd[p].op = "remove" /\ cmd[p].did \in Did
    BY <1>1, <2>1 DEF Change
  <2>3. Kept!Whom(cmd[p]) = cmd[p].did
    BY <2>2 DEF Kept!Whom
  <2> QED
    BY <2>1, <2>2, <2>3, RoleRefines DEF Change, Kept!Next
<1>6. CASE Leave(p)
  <2>1. ServeChange(p, "leave", Removed(Rec(p).state, cmd[p].me), Rec(p).version + 1)
    BY <1>6 DEF Leave
  <2>2. cmd[p].op = "leave" /\ cmd[p].me \in Did
    BY <1>1, <2>1 DEF Change
  <2>3. Kept!Whom(cmd[p]) = cmd[p].me
    BY <2>2 DEF Kept!Whom
  <2> QED
    BY <2>1, <2>2, <2>3, RoleRefines DEF Change, Kept!Next
<1>7. CASE Create(p) \/ GetInfo(p) \/ Send(p) \/ UpdateProfile(p) \/ UpdatePolicy(p)
  BY <1>7, CreateRefines, LookRefines, PatchRefines DEF Kept!Next
<1> QED
  BY <1>2, <1>3, <1>4, <1>5, <1>6, <1>7

(* A command that starts is a call.                                        *)
LEMMA BeginRefines ==
  ASSUME IInv, IInv', Quiet, NEW p \in Proc, Begin(p)
  PROVE  Kept!Call(p)
<1>0. /\ cmd \in [Proc -> Cmd] /\ cmd' \in [Proc -> Cmd] /\ reply \in [Proc -> Reply]
      /\ pc \in [Proc -> {"idle", "ask", "answer", "shown"}]
  BY DEF IInv, Types, TypeOK
<1>1. ASSUME NEW c, Start(p, c)
      PROVE  /\ pc[p] = "idle" /\ pc' = [pc EXCEPT ![p] = "ask"]
             /\ \A q \in Proc : q # p => cmd'[q] = cmd[q]
             /\ UNCHANGED <<handles, group, reply>>
  BY <1>0, <1>1 DEF Start, Goto, backend
<1>2. /\ pc[p] = "idle" /\ pc' = [pc EXCEPT ![p] = "ask"]
      /\ \A q \in Proc : q # p => cmd'[q] = cmd[q]
      /\ UNCHANGED <<handles, group, reply>>
  <2>1. CASE StartPlain(p)
    BY <1>1, <2>1 DEF StartPlain
  <2>2. CASE StartCreate(p)
    BY <1>1, <2>2 DEF StartCreate
  <2>3. CASE StartAdd(p)
    BY <1>1, <2>3 DEF StartAdd
  <2>4. CASE StartRemove(p)
    BY <1>1, <2>4 DEF StartRemove
  <2>5. CASE StartPatch(p)
    BY <1>1, <2>5 DEF StartPatch
  <2>6. CASE StartSend(p)
    BY <1>1, <2>6 DEF StartSend
  <2> QED
    BY <2>1, <2>2, <2>3, <2>4, <2>5, <2>6 DEF Begin
<1>3. Pending[p] = None /\ Pending'[p] \in Cmd
  BY <1>0, <1>2 DEF Pending
<1>4. Pending' = [Pending EXCEPT ![p] = Pending'[p]]
  <2>1. \A q \in Proc : q # p => Pending'[q] = Pending[q]
    BY <1>0, <1>2 DEF Pending
  <2> QED
    BY <2>1 DEF Pending
<1>5. Told[p] = 0 /\ Told' = Told /\ Registered' = Registered /\ bound' = bound
  BY <1>2 DEF Quiet, Told, Registered, handles
<1> QED
  BY <1>3, <1>4, <1>5 DEF Kept!Call

(* A command that ends without an answer, or after one.                    *)
LEMMA EndRefines ==
  ASSUME IInv, Quiet, NEW p \in Proc, NEW from, End(p, from), from # "idle",
         bound' = bound, group' = group
  PROVE  Kept!Next
<1>0. /\ cmd \in [Proc -> Cmd] /\ reply \in [Proc -> Reply]
      /\ pc \in [Proc -> {"idle", "ask", "answer", "shown"}]
  BY DEF IInv, Types, TypeOK
<1>1. /\ pc[p] = from /\ pc' = [pc EXCEPT ![p] = "idle"]
      /\ cmd' = [cmd EXCEPT ![p] = NoCmd] /\ reply' = [reply EXCEPT ![p] = NoReply]
  BY DEF End, Goto
<1>2. Pending' = [Pending EXCEPT ![p] = None]
  <2>1. \A q \in Proc : Pending'[q] = IF q = p THEN None ELSE Pending[q]
    BY <1>0, <1>1 DEF Pending
  <2> QED
    BY <2>1 DEF Pending
<1>3. Told' = [Told EXCEPT ![p] = 0]
  BY <1>0, <1>1 DEF Told, NoReply
<1>4. Registered' = Registered
  BY DEF Registered
<1>5. CASE from = "ask"
  <2>1. Pending[p] # None
    BY <1>0, <1>1, <1>5, GroupsAssumption DEF Pending
  <2> QED
    BY <1>2, <1>3, <1>4, <2>1 DEF Kept!Next, Kept!Drop, Kept!Done
<1>6. CASE from \in {"answer", "shown"}
  <2>1. Pending[p] = None
    BY <1>0, <1>1, <1>6 DEF Pending
  <2>2. Pending' = Pending
    BY <1>2, <2>1 DEF Pending
  <2>3. Told[p] # 0
    <3>1. reply[p].version \in 1..Len(log[cmd[p].group])
      BY <1>1, <1>6 DEF IInv, AnswerAt
    <3> QED
      BY <3>1 DEF Told
  <2> QED
    BY <1>3, <1>4, <2>2, <2>3 DEF Kept!Next, Kept!Return
<1> QED
  BY <1>0, <1>1, <1>5, <1>6

(* Answers, and what ends a command without one.                           *)
LEMMA AnswerRefines ==
  ASSUME IInv, Quiet, NEW p \in Proc, Refused(p) \/ Answer(p)
  PROVE  Kept!Next \/ UNCHANGED <<Registered, bound, Pending, Told>>
<1>1. ASSUME NEW from, End(p, from), from # "idle", UNCHANGED <<handles, group>>
      PROVE  Kept!Next
  BY <1>1, EndRefines DEF handles
<1>2. CASE Refused(p)
  BY <1>1, <1>2 DEF Refused, backend
<1>3. CASE Race(p)
  BY <1>1, <1>3 DEF Race
<1>4. CASE Return(p)
  BY <1>1, <1>4 DEF Return, backend
<1>5. CASE Fail(p)
  BY <1>1, <1>5 DEF Fail, backend
<1>6. CASE Encode(p)
  <2>1. /\ pc[p] = "answer" /\ pc' = [pc EXCEPT ![p] = "shown"]
        /\ cmd' = cmd /\ reply' = reply /\ group' = group /\ bound' = bound
    BY <1>6 DEF Encode, EncodeListing, Goto, backend, handles
  <2>2. \A q \in Proc : pc'[q] = "ask" <=> pc[q] = "ask"
    BY <2>1 DEF IInv, Types, TypeOK
  <2> QED
    BY <2>1, <2>2 DEF Registered, Pending, Told
<1> QED
  BY <1>2, <1>3, <1>4, <1>5, <1>6 DEF Answer

(* Handles that are registered, and messages that are received.            *)
LEMMA AroundRefines ==
  ASSUME IInv, Handling \/ Receive
  PROVE  Kept!Next
<1>0. HInv
  BY DEF IInv
<1>1. BoundStays
  <2>1. CASE Handling
    BY <1>0, <2>1, HandlesStep, NewIdentityStep DEF Handling
  <2>2. CASE Receive
    BY <2>2 DEF Receive, handles, BoundStays
  <2> QED
    BY <2>1, <2>2
<1>2. UNCHANGED <<group, pc, cmd, reply>>
  BY DEF Handling, Receive, backend, process
<1>3. UNCHANGED <<Registered, Pending, Told>>
  BY <1>2 DEF Registered, Pending, Told
<1> QED
  BY <1>1, <1>3 DEF BoundStays, Kept!Next, Kept!Bind

(* Nobody hears of a version before the request is served.                 *)
LEMMA QuietStep ==
  ASSUME IInv, Quiet, [Next]_vars
  PROVE  Quiet'
<1>0. /\ reply \in [Proc -> Reply]
      /\ pc \in [Proc -> {"idle", "ask", "answer", "shown"}]
  BY DEF IInv, Types, TypeOK
<1>1. ASSUME NEW p \in Proc, NEW c, Start(p, c)
      PROVE  Quiet'
  BY <1>0, <1>1 DEF Start, Goto, Quiet
<1>2. ASSUME NEW p \in Proc, Begin(p)
      PROVE  Quiet'
  <2>1. CASE StartPlain(p)
    BY <1>1, <2>1 DEF StartPlain
  <2>2. CASE StartCreate(p)
    BY <1>1, <2>2 DEF StartCreate
  <2>3. CASE StartAdd(p)
    BY <1>1, <2>3 DEF StartAdd
  <2>4. CASE StartRemove(p)
    BY <1>1, <2>4 DEF StartRemove
  <2>5. CASE StartPatch(p)
    BY <1>1, <2>5 DEF StartPatch
  <2>6. CASE StartSend(p)
    BY <1>1, <2>6 DEF StartSend
  <2> QED
    BY <1>2, <2>1, <2>2, <2>3, <2>4, <2>5, <2>6 DEF Begin
<1>3. ASSUME NEW p \in Proc, NEW from, End(p, from)
      PROVE  Quiet'
  BY <1>0, <1>3 DEF End, Goto, NoReply, Quiet
<1>4. ASSUME NEW p \in Proc, NEW g, NEW r, Serve(p, g, r)
      PROVE  Quiet'
  BY <1>0, <1>4 DEF Serve, Goto, Quiet
<1>5. ASSUME NEW p \in Proc, Dispatch(p) \/ Answer(p)
      PROVE  Quiet'
  <2>1. CASE Refused(p) \/ Race(p) \/ Return(p) \/ Fail(p)
    BY <1>3, <2>1 DEF Refused, Race, Return, Fail
  <2>2. CASE Encode(p)
    BY <1>0, <2>2 DEF Encode, EncodeListing, Goto, Quiet
  <2>3. CASE \/ Create(p) \/ GetInfo(p) \/ Join(p) \/ AddMember(p) \/ AddByHandle(p)
             \/ RemoveMember(p) \/ Leave(p) \/ UpdateProfile(p) \/ UpdatePolicy(p) \/ Send(p)
    BY <1>4, <2>3, DispatchStep DEF Serves
  <2> QED
    BY <1>5, <2>1, <2>2, <2>3 DEF Dispatch, Answer
<1>6. CASE Handling \/ Receive \/ UNCHANGED vars
  BY <1>6 DEF Handling, Receive, vars, process, Quiet
<1> QED
  BY <1>2, <1>5, <1>6 DEF Next

(* mock.go 170-250, 297-505: the groups are those of GroupRegistry. Every  *)
(* request takes effect once or not at all, in one step between the call   *)
(* and its answer, as it was asked, and whoever made it is told the        *)
(* version it made, under any interleaving of the commands, the handles    *)
(* registered meanwhile and the calls that fail.                           *)
THEOREM ImplementsGroupRegistry == Spec => RegistrySpec
<1>1. Init => Kept!Init /\ Quiet
  <2> SUFFICES ASSUME Init PROVE Kept!Init /\ Quiet
    OBVIOUS
  <2>1. /\ Registered = [g \in Group |-> None] /\ Pending = [p \in Proc |-> None]
        /\ Told = [p \in Proc |-> 0] /\ Quiet
    BY DEF Init, Registered, Shown, Pending, Told, NoReply, Quiet
  <2>2. bound = [h \in Handle |-> None]
    BY DEF Init, H!HandlesInit
  <2> QED
    BY <2>1, <2>2 DEF Kept!Init
<1>2. IInv /\ Quiet /\ [Next]_vars => Quiet'
  BY QuietStep
<1>3. ASSUME IInv, IInv', Quiet, [Next]_vars
      PROVE  [Kept!Next]_<<Registered, bound, Pending, Told>>
  <2>1. CASE UNCHANGED vars
    BY <2>1 DEF vars, handles, backend, process, Registered, Pending, Told
  <2>2. CASE Handling \/ Receive
    BY <1>3, <2>2, AroundRefines
  <2>3. ASSUME NEW p \in Proc, Begin(p)
        PROVE  Kept!Next
    BY <1>3, <2>3, BeginRefines DEF Kept!Next
  <2>4. ASSUME NEW p \in Proc, Dispatch(p) \/ Answer(p)
        PROVE  Kept!Next \/ UNCHANGED <<Registered, bound, Pending, Told>>
    <3>1. CASE Refused(p) \/ Answer(p)
      BY <1>3, <3>1, AnswerRefines
    <3>2. CASE ~Refused(p) /\ Dispatch(p)
      BY <1>3, <3>2, DispatchRefines DEF Dispatch
    <3> QED
      BY <2>4, <3>1, <3>2
  <2> QED
    BY <1>3, <2>1, <2>2, <2>3, <2>4 DEF Next
<1> QED
  BY <1>1, <1>2, <1>3, InductiveInvariant, PTL DEF Spec, RegistrySpec, Kept!Spec
=============================================================================
