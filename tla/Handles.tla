------------------------------ MODULE Handles ------------------------------
(***************************************************************************)
(* Binding a handle to an identity: `id register` (identity.Service's      *)
(* RegisterHandle) asks the backend first and records the handle and the   *)
(* contact data in the store afterwards; `id recover` only asks.  The      *)
(* store is its abstract specification, IdentityRegistry: each call of it  *)
(* is one step.                                                            *)
(***************************************************************************)
EXTENDS Backend

CONSTANTS
  Registrar, \* processes that run `id register`, `id recover`, `init`, `id use`
  Name,      \* local identity names
  Gen,       \* the DIDs that may be generated
  Handle,    \* WNS handles
  Email,     \* what --email may be given
  Peer,      \* DIDs of other workspaces
  MaxFaults, \* how many calls and writes may fail here
  None       \* no value

VARIABLES
  entry,   \* the store: entry[n]: the identity called n, or None
  current, \* the store: the default identity's name, or None
  known,   \* backend: the DIDs whose document is registered
  bound,   \* backend: bound[h]: the DID that has the handle h, or None
  at,      \* at[p]: what process p does next
  doing,   \* doing[p]: its command: the identity it loaded, the flags
  failed   \* failures so far

store == <<entry, current>>
handleVars == <<entry, current, known, bound, at, doing, failed>>

Registry == INSTANCE IdentityRegistry WITH Phone <- {}
-----------------------------------------------------------------------------
Idle == [name |-> None, did |-> None, handle |-> None, email |-> None]
Existing == {n \in Name : entry[n] # None}

HandlesInit ==
  /\ Registry!Init
  /\ known = {}
  /\ bound = [h \in Handle |-> None]
  /\ at = [p \in Registrar |-> "idle"]
  /\ doing = [p \in Registrar |-> Idle]
  /\ failed = 0

Step(p, from, to) ==
  /\ at[p] = from
  /\ at' = [at EXCEPT ![p] = to]

Done(p, from) ==
  /\ Step(p, from, "idle")
  /\ doing' = [doing EXCEPT ![p] = Idle]

\* `init` and `id use`, which other modules take apart.
NewIdentity ==
  /\ \E n \in Name, g \in Gen :
       (\A k \in Existing : entry[k].did # g) /\ Registry!Create(n, g)
  /\ UNCHANGED <<known, bound, at, doing, failed>>

UseIdentity ==
  /\ \E n \in Name : n # current /\ Registry!Select(n)
  /\ UNCHANGED <<known, bound, at, doing, failed>>

\* did.register_document, by whichever command sends it.
RegisterDocument ==
  /\ \E d \in {entry[n].did : n \in Existing} \cup Peer : known' = known \cup {d}
  /\ UNCHANGED <<store, bound, at, doing, failed>>

\* registerHandle loads the configured identity and keeps it.
StartRegister(p) ==
  /\ current # None
  /\ Step(p, "idle", "ask")
  /\ \E h \in Handle, e \in Email \cup {None} :
       doing' = [doing EXCEPT ![p] = [name |-> current, did |-> entry[current].did,
                                      handle |-> h, email |-> e]]
  /\ UNCHANGED <<store, known, bound, failed>>

\* A handle bound to a different DID is taken; the same DID may ask again.
MayHave(h, d) == bound[h] \in {None, d}
Grant(h, d) == bound' = [bound EXCEPT ![h] = d]

AskIf(p, free) ==
  LET c == doing[p] IN
  /\ Step(p, "ask", "handle")
  /\ Accepts(known, c.did) /\ free
  /\ Grant(c.handle, c.did)
  /\ UNCHANGED <<store, known, doing, failed>>

\* A mutant: the last one to ask has the handle.
AskTaking(p) == AskIf(p, TRUE)
Ask(p) == AskIf(p, MayHave(doing[p].handle, doing[p].did))

Refused(p) ==
  /\ Done(p, "ask")
  /\ ~(Accepts(known, doing[p].did) /\ MayHave(doing[p].handle, doing[p].did))
  /\ UNCHANGED <<store, known, bound, failed>>

SetHandleOf(p, n) ==
  /\ Step(p, "handle", "contact")
  /\ Registry!BindHandle(n, doing[p].handle)
  /\ UNCHANGED <<known, bound, doing, failed>>

\* A mutant: the handle goes to whoever is the default by then.
SetHandleOfCurrent(p) == SetHandleOf(p, current)
SetHandle(p) == SetHandleOf(p, doing[p].name)

SetContact(p) ==
  /\ Done(p, "contact")
  /\ Registry!SetContact(doing[p].name, doing[p].email, None)
  /\ UNCHANGED <<known, bound, failed>>

\* A peer's client registers a handle for itself.
PeerRegisters ==
  /\ \E h \in Handle, d \in Peer : Accepts(known, d) /\ MayHave(h, d) /\ Grant(h, d)
  /\ UNCHANGED <<store, known, at, doing, failed>>

\* The call, SetHandle or SetContact fails, or the process dies; a call may
\* have been answered before that.
Fail(p) ==
  /\ failed < MaxFaults /\ failed' = failed + 1
  /\ at[p] # "idle"
  /\ Done(p, at[p])
  /\ \/ UNCHANGED bound
     \/ /\ at[p] = "ask"
        /\ Accepts(known, doing[p].did) /\ MayHave(doing[p].handle, doing[p].did)
        /\ Grant(doing[p].handle, doing[p].did)
  /\ UNCHANGED <<store, known>>

HandlesNext ==
  \/ NewIdentity \/ UseIdentity \/ RegisterDocument \/ PeerRegisters
  \/ \E p \in Registrar : StartRegister(p) \/ Ask(p) \/ Refused(p)
                          \/ SetHandle(p) \/ SetContact(p) \/ Fail(p)
-----------------------------------------------------------------------------
(* Properties. *)

HandlesTypeOK ==
  /\ entry \in [Name -> Registry!Identity \cup {None}]
  /\ current \in Name \cup {None}
  /\ known \subseteq Gen \cup Peer
  /\ bound \in [Handle -> Gen \cup Peer \cup {None}]
  /\ at \in [Registrar -> {"idle", "ask", "handle", "contact"}]
  /\ doing \in [Registrar -> [name : Name \cup {None}, did : Gen \cup {None},
                              handle : Handle \cup {None}, email : Email \cup {None}]]
  /\ failed \in 0..MaxFaults

(* A handle that an identity shows is its own at the backend, whichever    *)
(* identity was the default when and whatever failed: the store is told    *)
(* only after the backend, and about the identity the command had loaded   *)
(* (service.go 135-155, mock.go 798-803).                                  *)
HandlesAreOurs ==
  \A n \in Existing : entry[n].handle # None => bound[entry[n].handle] = entry[n].did
=============================================================================
