------------------------------- MODULE Groups -------------------------------
(***************************************************************************)
(* `group create`, `info`, `members`, `join`, `add`, `remove`, `leave`,    *)
(* `update`, `policy` and `send` (internal/cli/group.go, internal/group)   *)
(* against the groups that internal/testutil/mockbackend keeps, while      *)
(* handles are being registered (Handles) and with the mentions a message  *)
(* carries (Mentions).                                                     *)
(*                                                                         *)
(* Each command is one call. The backend serves it under its mutex and     *)
(* encodes the answer after releasing it; what the answer shares with the  *)
(* group's own maps is read then.                                          *)
(***************************************************************************)
EXTENDS Backend, Mentions

CONSTANTS
  Proc,      \* processes that run group commands, one at a time
  Registrar, Name, Gen, Handle, Email, Peer, \* as in Handles
  Group,     \* group DIDs
  Key, Val,  \* what a profile or a policy is made of
  Scenario,  \* the commands that are run, whether one at a time, whether handles
             \* are registered meanwhile, how many versions a group gets, and
             \* what `group send` is given
  MaxFaults  \* how many calls may fail

VARIABLES
  may,       \* the scenario
  entry, current, known, bound, at, doing, failed, \* as in Handles
  group,     \* backend: group[g]: its record, or None
  log,       \* history: log[g][v]: what the group g was at its version v
  up,        \* whether the backend is there
  post,      \* backend: the messages sent to groups
  row,       \* databases: the group messages received
  pc,        \* pc[p]: what process p does next
  cmd,       \* cmd[p]: its command
  reply,     \* reply[p]: what the answer to it holds as the mutex is released
  view       \* view[p]: what the answer shows when it is encoded

H == INSTANCE Handles

handles == <<entry, current, known, bound, at, doing, failed>>
backend == <<group, log, up, post, row>>
process == <<pc, cmd, reply, view>>
vars == <<may, handles, backend, process>>

Change == {"join", "add", "remove", "leave", "update", "policy"}
Op == Change \cup {"create", "info", "send"}
Did == Gen \cup Peer
Member == [role : {"owner", "member"}, status : {"active", "removed"}]
Map == [Key -> Val \cup {None}]
State == [members : [Did -> Member \cup {None}], profile : Map, policy : Map]
Patch == UNION {[K -> Val \cup {None}] : K \in SUBSET Key}
Record == [state : State, version : Nat \ {0}, seq : Nat]
Cmd == [role : {"owner", "member"}, group : Group \cup {None}, op : Op \cup {"none"},
        me : Did \cup {None}, did : Did \cup {None}, handle : Handle \cup {None},
        patch : Patch]
\* A group as its members see it (see RegistrySpec).
Entry == [role : [Did -> {"owner", "member", None}], profile : Map, policy : Map,
          version : Nat \ {0}]

ASSUME GroupsAssumption ==
  /\ MaxFaults \in Nat
  /\ \A s \in Scenario : s.commands \subseteq Op /\ s.versions \in Nat \ {0}
  /\ None \notin Name \cup Did \cup Handle
  /\ None \notin H!Registry!Identity \cup Member \cup Record \cup Cmd \cup Entry

\* A draft is text, and well-formed specifications.
ASSUME DraftAssumption ==
  /\ Utf8
  /\ \A s \in Scenario :
       /\ s.draft.text \in Seq(CodePoint)
       /\ \A i \in DOMAIN s.draft.raws : WellFormed(s.draft.raws[i])

Empty == [k \in Key |-> None]
NoCmd == [role |-> "member", group |-> None, op |-> "none", me |-> None, did |-> None,
          handle |-> None, patch |-> [k \in {} |-> None]]
NoReply == [version |-> 0, listed |-> {}]
NoView == [members |-> [d \in Did |-> None], profile |-> Empty, policy |-> Empty]

Init ==
  /\ may \in Scenario
  /\ H!HandlesInit
  /\ group = [g \in Group |-> None]
  /\ log = [g \in Group |-> <<>>]
  /\ up = TRUE
  /\ post = <<>>
  /\ row = {}
  /\ pc = [p \in Proc |-> "idle"]
  /\ cmd = [p \in Proc |-> NoCmd]
  /\ reply = [p \in Proc |-> NoReply]
  /\ view = [p \in Proc |-> NoView]

Goto(p, from, to) ==
  /\ pc[p] = from
  /\ pc' = [pc EXCEPT ![p] = to]

End(p, from) ==
  /\ Goto(p, from, "idle")
  /\ cmd' = [cmd EXCEPT ![p] = NoCmd]
  /\ reply' = [reply EXCEPT ![p] = NoReply]
  /\ view' = [view EXCEPT ![p] = NoView]
-----------------------------------------------------------------------------
(* Commands, of this workspace's default identity or of a peer's client.   *)

Acting == Peer \cup (IF current = None THEN {} ELSE {entry[current].did})

Start(p, c) ==
  /\ c.op \in may.commands
  /\ may.alone => \A q \in Proc : pc[q] = "idle"
  /\ Goto(p, "idle", "ask")
  /\ c.me \in Acting
  /\ cmd' = [cmd EXCEPT ![p] = c]
  /\ UNCHANGED <<may, handles, backend, reply, view>>

\* The commands that name a group and nothing else.
StartPlain(p) ==
  \E o \in {"info", "join", "leave"}, d \in Acting, g \in Group :
    Start(p, [NoCmd EXCEPT !.op = o, !.me = d, !.group = g])

StartCreate(p) ==
  \E d \in Acting : Start(p, [NoCmd EXCEPT !.op = "create", !.me = d])

StartAdd(p) ==
  \E d \in Acting, g \in Group, r \in {"owner", "member"},
     to \in IF may.handles THEN [did : {None}, handle : Handle]
            ELSE [did : Did, handle : {None}] :
    Start(p, [NoCmd EXCEPT !.op = "add", !.me = d, !.group = g, !.role = r,
                           !.did = to.did, !.handle = to.handle])

StartRemove(p) ==
  \E d \in Acting, g \in Group, m \in Did :
    Start(p, [NoCmd EXCEPT !.op = "remove", !.me = d, !.group = g, !.did = m])

\* A JSON merge patch, of any keys or none: null deletes one.
StartPatch(p) ==
  \E o \in {"update", "policy"}, d \in Acting, g \in Group, f \in Patch :
    Start(p, [NoCmd EXCEPT !.op = o, !.me = d, !.group = g, !.patch = f])

\* The mentions are built before anything is sent; mentions, a payload or a
\* text that is not blank make the body.
Mentioned == BuildMentions(may.draft.text, may.draft.raws)
Body ==
  CASE may.draft.raws # <<>> -> [text |-> may.draft.text, mentions |-> Mentioned]
    [] may.draft.payload # None -> [text |-> may.draft.payload, mentions |-> <<>>]
    [] OTHER -> [text |-> may.draft.text, mentions |-> <<>>]

StartSend(p) ==
  /\ Mentioned # None
  /\ may.draft.payload # None \/ may.draft.text # <<>>
  /\ \E d \in Acting, g \in Group :
       Start(p, [NoCmd EXCEPT !.op = "send", !.me = d, !.group = g])
-----------------------------------------------------------------------------
(* The backend, one request at a time. *)

Rec(p) == group[cmd[p].group]
Listed(s) == {d \in Did : s.members[d] # None}

Asked(p, op) == up /\ pc[p] = "ask" /\ cmd[p].op = op /\ Accepts(known, cmd[p].me)

\* The group g becomes r, and p's answer is drawn from it.
Serve(p, g, r) ==
  /\ Goto(p, "ask", "answer")
  /\ group' = [group EXCEPT ![g] = r]
  /\ log' = IF Len(log[g]) < r.version THEN [log EXCEPT ![g] = Append(@, r.state)] ELSE log
  /\ reply' = [reply EXCEPT ![p] = [version |-> r.version, listed |-> Listed(r.state)]]
  /\ UNCHANGED <<may, handles, up, row, view>>

CreateAt(p, v) ==
  \E g \in Group :
    /\ Asked(p, "create") /\ group[g] = None
    /\ cmd' = [cmd EXCEPT ![p].group = g]
    /\ Serve(p, g, [state |-> [NoView EXCEPT !.members[cmd[p].me] =
                                 [role |-> "owner", status |-> "active"]],
                    version |-> v, seq |-> 0])
    /\ UNCHANGED post

\* A mutant: the version is left at its zero value.
CreateUnversioned(p) == CreateAt(p, 0)
Create(p) == CreateAt(p, 1)

GetInfo(p) ==
  /\ Asked(p, "info") /\ Rec(p) # None
  /\ Serve(p, cmd[p].group, Rec(p))
  /\ UNCHANGED <<cmd, post>>

\* Every change of the state is a new version.
ServeChange(p, op, s, v) ==
  /\ Asked(p, op) /\ Rec(p) # None
  /\ Rec(p).version < may.versions
  /\ Serve(p, cmd[p].group, [Rec(p) EXCEPT !.state = s, !.version = v])
  /\ UNCHANGED <<cmd, post>>

Upserted(s, d, r) == [s EXCEPT !.members[d] = [role |-> r, status |-> "active"]]
Removed(s, d) == IF s.members[d] = None THEN s ELSE [s EXCEPT !.members[d].status = "removed"]

\* A mutant: whoever joins becomes an owner.
JoinAsOwner(p) ==
  ServeChange(p, "join", Upserted(Rec(p).state, cmd[p].me, "owner"), Rec(p).version + 1)
Join(p) ==
  ServeChange(p, "join", Upserted(Rec(p).state, cmd[p].me, "member"), Rec(p).version + 1)

AddMember(p) ==
  /\ cmd[p].did # None
  /\ ServeChange(p, "add", Upserted(Rec(p).state, cmd[p].did, cmd[p].role), Rec(p).version + 1)

\* The handle is looked up by the backend.
AddByHandle(p) ==
  /\ cmd[p].handle # None /\ bound[cmd[p].handle] # None
  /\ ServeChange(p, "add", Upserted(Rec(p).state, bound[cmd[p].handle], cmd[p].role),
                 Rec(p).version + 1)

RemoveMember(p) ==
  ServeChange(p, "remove", Removed(Rec(p).state, cmd[p].did), Rec(p).version + 1)

\* A mutant: the version stays.
LeaveQuietly(p) == ServeChange(p, "leave", Removed(Rec(p).state, cmd[p].me), Rec(p).version)
Leave(p) ==
  ServeChange(p, "leave", Removed(Rec(p).state, cmd[p].me), Rec(p).version + 1)

\* mergePatch
Merged(map, patch) == [k \in Key |-> IF k \in DOMAIN patch THEN patch[k] ELSE map[k]]

\* A mutant: the patch replaces the profile.
UpdateReplacing(p) ==
  ServeChange(p, "update", [Rec(p).state EXCEPT !.profile = Merged(Empty, cmd[p].patch)],
              Rec(p).version + 1)
UpdateProfile(p) ==
  ServeChange(p, "update", [Rec(p).state EXCEPT !.profile = Merged(@, cmd[p].patch)],
              Rec(p).version + 1)
UpdatePolicy(p) ==
  ServeChange(p, "policy", [Rec(p).state EXCEPT !.policy = Merged(@, cmd[p].patch)],
              Rec(p).version + 1)

\* A message is an event, not a change of the state.
Send(p) ==
  /\ Asked(p, "send") /\ Rec(p) # None
  /\ post = <<>> \* a bound: one message
  /\ Serve(p, cmd[p].group, [Rec(p) EXCEPT !.seq = @ + 1])
  /\ post' = Append(post, Body)
  /\ UNCHANGED cmd

\* An unknown sender, group or handle, or one of the bounds.
Refused(p) ==
  LET c == cmd[p] IN
  /\ up /\ End(p, "ask")
  /\ \/ ~Accepts(known, c.me)
     \/ c.op = "create" /\ \A g \in Group : group[g] # None
     \/ c.op # "create" /\ Rec(p) = None
     \/ c.handle # None /\ bound[c.handle] = None
     \/ c.op \in Change /\ Rec(p) # None /\ Rec(p).version = may.versions
     \/ c.op = "send" /\ post # <<>>
  /\ UNCHANGED <<may, handles, backend>>

\* What the answer to op shares with the group's record.
Shares(op) == CASE op = "info" -> {"members", "profile", "policy"}
                [] op = "create" -> {"profile", "policy"}
                [] op = "update" -> {"profile"}
                [] op = "policy" -> {"policy"}
                [] OTHER -> {}

\* writeJSON, after dispatch has released the mutex: the members are those
\* of the answer, everything about them what it is by now. (The code reads
\* one map after the other; the properties judge each on its own.)
EncodeListing(p, listed) ==
  LET s == Rec(p).state
      shared == Shares(cmd[p].op)
  IN
  /\ up /\ Goto(p, "answer", "shown")
  /\ view' = [view EXCEPT ![p] =
       [members |-> [d \in Did |-> IF "members" \in shared /\ d \in listed
                                   THEN s.members[d] ELSE None],
        profile |-> IF "profile" \in shared THEN s.profile ELSE Empty,
        policy |-> IF "policy" \in shared THEN s.policy ELSE Empty]]
  /\ UNCHANGED <<may, handles, backend, cmd, reply>>

\* A mutant: of a group's members, those that are still active.
EncodeActive(p) ==
  EncodeListing(p, {d \in reply[p].listed : Rec(p).state.members[d].status = "active"})
Encode(p) == EncodeListing(p, reply[p].listed)

\* A map written while it is being encoded: the Go runtime ends the backend.
\* A new member is a new map.
Whom(c) == CASE c.op \in {"join", "leave"} -> c.me
             [] c.handle # None -> bound[c.handle]
             [] OTHER -> c.did
Writes(c, listed) ==
  CASE c.op = "update" /\ DOMAIN c.patch # {} -> {"profile"}
    [] c.op = "policy" /\ DOMAIN c.patch # {} -> {"policy"}
    [] c.op \in Change /\ Whom(c) \in listed -> {"members"}
    [] OTHER -> {}
Race(p) ==
  /\ up /\ pc[p] = "ask" /\ Accepts(known, cmd[p].me)
  /\ \E q \in Proc : /\ pc[q] = "answer" /\ cmd[q].group = cmd[p].group
                     /\ Shares(cmd[q].op) \cap Writes(cmd[p], reply[q].listed) # {}
  /\ up' = FALSE
  /\ End(p, "ask")
  /\ UNCHANGED <<may, handles, group, log, post, row>>

Return(p) ==
  /\ End(p, "shown")
  /\ UNCHANGED <<may, handles, backend>>

\* No answer: the call is not made, or its answer is lost.
Fail(p) ==
  /\ pc[p] \in {"ask", "answer"}
  /\ End(p, pc[p])
  /\ UNCHANGED <<may, handles, backend>>

\* The group part of a member's Sync (Messaging has its steps): a payload's
\* text is the text, and what has none is dropped.
Receive ==
  /\ \E i \in DOMAIN post : post[i].text # <<>> /\ row' = row \cup {post[i]}
  /\ UNCHANGED <<may, handles, group, log, up, post, process>>

Handling == /\ IF may.handles THEN H!HandlesNext ELSE current = None /\ H!NewIdentity
            /\ UNCHANGED <<may, backend, process>>

Begin(p) == \/ StartPlain(p) \/ StartCreate(p) \/ StartAdd(p) \/ StartRemove(p)
            \/ StartPatch(p) \/ StartSend(p)
Dispatch(p) == \/ Create(p) \/ GetInfo(p) \/ Join(p) \/ AddMember(p) \/ AddByHandle(p)
               \/ RemoveMember(p) \/ Leave(p) \/ UpdateProfile(p) \/ UpdatePolicy(p) \/ Send(p)
               \/ Refused(p)
Answer(p) == Encode(p) \/ Race(p) \/ Return(p) \/ Fail(p)

Next == Handling \/ Receive \/ \E p \in Proc : Begin(p) \/ Dispatch(p) \/ Answer(p)

Spec == Init /\ [][Next]_vars
-----------------------------------------------------------------------------
(* Properties. *)

TypeOK ==
  /\ may \in Scenario
  /\ H!HandlesTypeOK
  /\ group \in [Group -> Record \cup {None}]
  /\ log \in [Group -> Seq(State)]
  /\ up \in BOOLEAN
  /\ Len(post) <= 1
  /\ pc \in [Proc -> {"idle", "ask", "answer", "shown"}]
  /\ \A p \in Proc : cmd[p].op \in Op \cup {"none"} /\ cmd[p].me \in Did \cup {None}
  /\ \A p \in Proc : reply[p].version <= may.versions /\ reply[p].listed \subseteq Did
  /\ view \in [Proc -> State]

HandlesAreOurs == H!HandlesAreOurs

(* `group add --member-handle` adds the identity that shows the handle:    *)
(* registration, store and group agree on whose it is, whichever process   *)
(* registers it, under whichever default identity (mock.go 381-395,        *)
(* identity/service.go 135-155).                                           *)
MembersByHandle ==
  \A p \in Proc, n \in Name :
    /\ pc[p] \in {"answer", "shown"} /\ cmd[p].op = "add" /\ cmd[p].handle # None
    /\ entry[n] # None /\ entry[n].handle = cmd[p].handle
    => log[cmd[p].group][reply[p].version].members[entry[n].did] =
         [role |-> cmd[p].role, status |-> "active"]

(* group_state_version tells states apart: what a group is now is what it  *)
(* was at its version; from each version to the next only one member is    *)
(* different, or only the profile, or only the policy; and no two changes  *)
(* that are being answered have one version. So changes that are made at   *)
(* once by different clients are all kept, and each is one version (mock.go*)
(* 355-473, 694-703).                                                      *)
OneChange(s, t) ==
  \/ \E d \in Did : t = [s EXCEPT !.members[d] = t.members[d]]
  \/ t = [s EXCEPT !.profile = t.profile]
  \/ t = [s EXCEPT !.policy = t.policy]
Changing(p, g) == pc[p] \in {"answer", "shown"} /\ cmd[p].op \in Change /\ cmd[p].group = g
VersionsTellStates ==
  \A g \in Group : group[g] # None =>
    /\ Len(log[g]) = group[g].version
    /\ log[g][group[g].version] = group[g].state
    /\ \A v \in 2..Len(log[g]) : OneChange(log[g][v - 1], log[g][v])
    /\ \A p, q \in Proc : p # q /\ Changing(p, g) /\ Changing(q, g) =>
         reply[p].version # reply[q].version

(* What an answer shows is never older than the version it gives: everyone *)
(* who was a member or had been one is listed, as at that version or some  *)
(* later one, and so is each key. It may well be newer, which is what the  *)
(* mutex around dispatch alone leaves open (mock.go 170-177, 201-203,      *)
(* 331-353).                                                               *)
KeepsUp(p) ==
  LET l == log[cmd[p].group]
      since == reply[p].version .. Len(l)
  IN
  /\ cmd[p].op = "info" =>
       \A d \in Did :
         /\ view[p].members[d] = None <=> l[reply[p].version].members[d] = None
         /\ view[p].members[d] # None =>
              \E v \in since : l[v].members[d] = view[p].members[d]
  /\ cmd[p].op \in {"info", "update"} =>
       \A k \in Key : \E v \in since : l[v].profile[k] = view[p].profile[k]
  /\ cmd[p].op \in {"info", "policy"} =>
       \A k \in Key : \E v \in since : l[v].policy[k] = view[p].policy[k]
AnswersKeepUp == \A p \in Proc : pc[p] = "shown" => KeepsUp(p)

(* A group is what GroupRegistry promises, whoever asks for what and when: *)
(* who is in it and as what, its profile, policy and version change by     *)
(* each request once, in one step between the call and its answer, or not  *)
(* at all, and the answer gives the version it made (mock.go 170-250,      *)
(* 297-505).                                                               *)
Roles(s) == [d \in Did |-> IF s.members[d] = None \/ s.members[d].status = "removed" THEN None
                           ELSE s.members[d].role]
Shown(r) == IF r = None THEN None
            ELSE [role |-> Roles(r.state), profile |-> r.state.profile,
                  policy |-> r.state.policy, version |-> r.version]
Registered == [g \in Group |-> Shown(group[g])]
Pending == [p \in Proc |-> IF pc[p] = "ask" THEN cmd[p] ELSE None]
Told == [p \in Proc |-> reply[p].version]

Kept == INSTANCE GroupRegistry WITH Request <- Cmd, registry <- Registered, owner <- bound,
                                    asked <- Pending, answer <- Told

RegistrySpec == Kept!Spec

(* "Each mention carries a Unicode-code-point range locating the surface   *)
(* text (including a leading "@") inside the message text" (mention.go     *)
(* 1-4): in what the members of the group store, each surface that was to  *)
(* be located is where its range says, and nowhere before, and no range    *)
(* ends after the text. (A range given explicitly is taken as it is, a     *)
(* negative start included.)                                               *)
MentionsPoint ==
  \A r \in row : \A i \in DOMAIN r.mentions :
    LET spec == ParseMentionSpec(may.draft.raws[i])
        range == r.mentions[i].range
    IN
    /\ range[2] <= Len(r.text)
    /\ HasSurface(spec) /\ spec.range = None =>
         /\ SubSeq(r.text, range[1] + 1, range[2]) = Needle(spec.surface)
         /\ range[1] = FirstPlace(r.text, spec.surface)
=============================================================================
