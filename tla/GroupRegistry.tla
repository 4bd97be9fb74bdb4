--------------------------- MODULE GroupRegistry ---------------------------
(***************************************************************************)
(* What the backend promises to those who run group commands: each request *)
(* takes effect once or not at all, in one step between the call and its   *)
(* answer, as it was asked and on the group as it is then; and the answer  *)
(* gives the version that the group has there.  Groups.tla is shown to     *)
(* implement this specification.                                           *)
(***************************************************************************)
EXTENDS Integers

CONSTANTS
  Proc,    \* who asks, one request at a time
  Request, \* requests: an op, who asks, the group, whom or what it is about
  Group,   \* group DIDs
  Did,     \* identities
  Handle,  \* WNS handles
  Key,     \* what a profile or a policy is made of
  None     \* no value

VARIABLES
  registry, \* registry[g]: who is in the group g and as what, its profile, its
            \* policy and its version, or None
  owner,    \* owner[h]: the DID that has the handle h, or None
  asked,    \* asked[p]: the request of p that nothing has been done about, or None
  answer    \* answer[p]: the version that p is being told, or 0

Init == /\ registry = [g \in Group |-> None]
        /\ owner = [h \in Handle |-> None]
        /\ asked = [p \in Proc |-> None]
        /\ answer = [p \in Proc |-> 0]

\* A handle that is taken stays with its owner.
Bind ==
  /\ \A h \in Handle : owner[h] # None => owner'[h] = owner[h]
  /\ UNCHANGED <<registry, asked, answer>>

Call(p) ==
  /\ asked[p] = None /\ answer[p] = 0
  /\ asked'[p] \in Request
  /\ asked' = [asked EXCEPT ![p] = asked'[p]]
  /\ UNCHANGED <<registry, owner, answer>>

\* The request of p is done, and p is to hear of version v.
Done(p, v) ==
  /\ asked[p] # None
  /\ asked' = [asked EXCEPT ![p] = None]
  /\ answer' = [answer EXCEPT ![p] = v]
  /\ UNCHANGED owner

Create(p) ==
  /\ asked[p] # None /\ asked[p].op = "create"
  /\ \E g \in Group :
       /\ registry[g] = None
       /\ registry' = [registry EXCEPT ![g] =
            [role |-> [d \in Did |-> IF d = asked[p].me THEN "owner" ELSE None],
             profile |-> [k \in Key |-> None], policy |-> [k \in Key |-> None], version |-> 1]]
  /\ Done(p, 1)

\* Whom the request c is about.
Whom(c) == CASE c.op \in {"join", "leave"} -> c.me
             [] c.op = "add" /\ c.handle # None -> owner[c.handle]
             [] OTHER -> c.did

\* A map with the keys of a patch replaced.
Patched(map, patch) == [k \in Key |-> IF k \in DOMAIN patch THEN patch[k] ELSE map[k]]

\* The group s as the request c changes it: its next version.
Changed(c, s) ==
  LET next == [s EXCEPT !.version = s.version + 1] IN
  CASE c.op = "join" -> [next EXCEPT !.role[Whom(c)] = "member"]
    [] c.op = "add" -> [next EXCEPT !.role[Whom(c)] = c.role]
    [] c.op \in {"remove", "leave"} -> [next EXCEPT !.role[Whom(c)] = None]
    [] c.op = "update" -> [next EXCEPT !.profile = Patched(@, c.patch)]
    [] c.op = "policy" -> [next EXCEPT !.policy = Patched(@, c.patch)]

Change(p) ==
  LET c == asked[p] IN
  /\ c # None /\ c.op \in {"join", "add", "remove", "leave", "update", "policy"}
  /\ registry[c.group] # None
  /\ c.op = "add" => Whom(c) # None
  /\ registry' = [registry EXCEPT ![c.group] = Changed(c, registry[c.group])]
  /\ Done(p, registry[c.group].version + 1)

\* Reading a group and sending to it leave it as it is.
Look(p) ==
  LET c == asked[p] IN
  /\ c # None /\ c.op \in {"info", "send"}
  /\ registry[c.group] # None
  /\ Done(p, registry[c.group].version)
  /\ UNCHANGED registry

\* A request that is refused, or never arrives.
Drop(p) ==
  /\ Done(p, 0)
  /\ UNCHANGED registry

\* The answer arrives, or is lost.
Return(p) ==
  /\ answer[p] # 0
  /\ answer' = [answer EXCEPT ![p] = 0]
  /\ UNCHANGED <<registry, owner, asked>>

Next == \/ Bind
        \/ \E p \in Proc : Call(p) \/ Create(p) \/ Change(p) \/ Look(p) \/ Drop(p) \/ Return(p)

Spec == Init /\ [][Next]_<<registry, owner, asked, answer>>
=============================================================================
