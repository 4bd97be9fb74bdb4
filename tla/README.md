# TLA+ specifications of anp-cli

anp-cli is a command-line client for the Agent Network Protocol: it keeps
identities (DIDs with their keys) in a workspace directory, sends and receives
messages and attachments through a backend, and keeps a local SQLite database.
Most commands are short processes; `runtime listen` is a long one that polls.
Several of them share one workspace, and what they share is files: that is where
the code is hard to test, and what these specifications are about.

All paths below are under `src/`. Line numbers are in `PROJECT.json` ("map").

## The system

| Component | State | Operations | Hard behaviour | What makes it correct |
|---|---|---|---|---|
| Identity store (`internal/identity/store.go`, `internal/fslock`) | `index.json`, `<name>/did.json`, four key files per identity, a lock file | Save, SetCurrent, SetHandle, SetContact under the lock; Load, SignerFor without | interleaved processes, death between two files, lock that fails instead of waiting (Windows) | identities whole, never overwritten; index truthful; loads consistent; each index change atomic |
| Configuration (`internal/config`, `internal/cli/root.go`, `id.go`, `app.go`) | `config.yaml` and its own lock | Resolve (no lock), UpdateFile (`id use`, `config set`), WriteFile (`init`) | check and write apart, two locks for one decision | no lost setting, the two defaults agree, the configured identity exists |
| Messages (`internal/message`, `internal/cli/msg.go`) | rows and contacts in the database, documents and envelopes at the backend | Send (register, deliver, store), Sync (fetch, row by row), History | lost answers, repeated delivery, failure in the middle, several writers | the database shows what was exchanged, once, and in the end all of it |
| Receiver (`internal/cli/runtime.go`, `daemon.go`) | a ticker, a context, the database handle | loop of Sync; Start, Stop | stop while a sync runs | eventually everything visible is stored; nothing that was opened is given up |
| Attachments (`internal/attachment`, `internal/cli/attachment.go`) | slots, objects and tickets at the backend, downloaded files | create_slot, PUT, commit or abort, manifest; ticket, GET, check, write | late PUT, partial failure, lying peers | no hollow manifest, no byte in a file that was not checked, no slot left |
| Groups, mentions (`internal/group`) | members, profile, policy and version at the backend | create, info, join, add, remove, leave, update, policy, send | several clients at once, answers encoded after the mutex, code points against bytes | a version is one state, answers are not older than their version, ranges are those of the text |
| Handles (`internal/identity/service.go`, `internal/cli/id.go`) | bindings at the backend, handle and contact in the index | register, recover | backend first, store afterwards, the default identity may change in between | a handle an identity shows is its own |
| End-to-end encryption (`internal/e2ee`) | sessions and prekeys in files | publish, encrypt, open, acknowledge | a key is used up before the row is stored, acknowledgements are sent once | what is opened is kept, what is accepted can be read, sessions get confirmed |
| Database (`internal/store/open.go`, `dao.go`) | `schema_info`, columns, rows | Open with its migration, upserts | two processes open at once, death between statements | whoever has it open has the schema; the version comes back |
| Discovery (`internal/discovery`) | `discovered_agents` | Crawl, Search | candidates that answer, vanish or change; overlapping crawls | the index holds what was published, where it was |
| Mock backend (`internal/testutil/mockbackend`) | documents, messages, groups, objects, prekeys, handles | JSON-RPC and object transfer | a call's answer lost | the reference for what a backend does |
| Transport (`internal/transport`) | none | Call with a 30 s time-out, no retry | done, but the answer lost | errors are reported |
| Proof, DID generation, catalogue, output | none of interest here | | | not modelled, see below |

Commands reach the identity store through `identity.Service`, the backend through
`transport.Client` with a signer the store provides, and the database through
`internal/store`. A command resolves the configuration first (`app.go`,
`resolveConfig`), and the identity it acts as from that.

## Modules

| Module | Models | Relation |
|---|---|---|
| `IdentityRegistry` | what the store promises: a map from names to identities and a default, each operation atomic | abstract specification |
| `IdentityStore` | the store, file by file, under its lock | implements `IdentityRegistry` (property `RegistrySpec`, theorem `ImplementsRegistry`) |
| `IdentityStoreProofs`, `WorkspaceProofs`, `MessagingProofs`, `SecureMessagingProofs`, `AttachmentProofs`, `DatabaseProofs`, `MentionsProofs`, `GroupsProofs` | the theorems about each component | extend the component's module; `GroupsProofs` extends `MentionsProofs` and is about `Handles` too |
| `Workspace` | `init`, `id use`, `config set`, `whoami` on config.yaml and the index | composes config.yaml with `IdentityRegistry`, one abstract step per store call |
| `Backend` | the signature check and the inbox query of the backend | used by those below |
| `Mailbox` | what the messages promise: sent once, shown to whom they are addressed to, one row each for good, a contact per stored sender | abstract specification |
| `Messaging` | sends, group sends, syncs, the polling loop, the database | extends `Backend`, implements `Mailbox` (`MailboxSpec`, `ImplementsMailbox`) |
| `SecureMailbox` | what the secure messages promise: accepted, opened, acknowledged and recorded once each; sessions begun once, used once the peer was heard | abstract specification |
| `SecureMessaging` | encrypted sends and syncs of several workspaces, and the receivers, in the foreground and as a service | extends `Backend`, implements `SecureMailbox` (`SecureMailboxSpec`, `ImplementsSecureMailbox`) |
| `FileBytes` | what a write(2) leaves in a file | used by the two below |
| `Parcels` | what `attach` promises: a file and the message that tells of it posted at once, for good, and nothing taken but what was posted, from its first byte on | abstract specification |
| `Attachment` | `attach send`, `attach download`, the object service | extends `Backend`, implements `Parcels` (`ParcelsSpec`, `ImplementsParcels`) |
| `Handles` | `id register` and `id recover` with the backend's handles | extends `Backend`, calls the store through `IdentityRegistry` |
| `Mentions` | ParseMentionSpec and BuildMentions, as functions | pure operators |
| `GroupRegistry` | what a group service promises: each request one step on members, profile, policy and version | abstract specification |
| `Groups` | the group commands and the backend's groups | extends `Backend` and `Mentions` (`group send`), composes `Handles` (shared registry), implements `GroupRegistry` (`RegistrySpec`, `ImplementsGroupRegistry`) |
| `Database` | Open step by step, doctor's version, `discovery crawl` | on its own |
| `MC*` | constants and symmetry sets for TLC | one per component |

### IdentityStore

`index`, `indexTmp`, `didFile`, `didTmp` and `keyFile` are the files; `lock` is the
holder of `index.json.lock`. `pc[p]` is the place in the code process p has
reached, `req[p]` its call, `snap[p]` the index it read and changes in memory,
`view[p]` what Load has gathered. A DID document, its DID and its keys are one
value of `Gen`: two generations differ in all of them. Every `os.WriteFile` to a
key file is two steps (truncate, fill), an atomic write is two (temporary file,
rename). `Crash` drops the memory and, as the kernel does with flock, the lock;
`FailWrite` is any file operation's error, which the deferred unlock follows.
CreatedAt and file modes are left out.

A definition with "a mutant" in its comment is not part of the specification: it is
a plausible bug, and PROJECT.json names the property that notices it.

### Workspace

`config` is config.yaml (a `File`, `Malformed`, or `None`), `seen[p]` what the
command's Resolve read, `draft[p]` what it is about to write. `init` is
Save (`Registry!Create`) and then, if `seen[p]` did not parse as a file, WriteFile;
`id use` is SetCurrent and then UpdateFile; `config set` is UpdateFile. A name on the
command line is an element of `Name` if `sanitizeName` leaves it alone and of
`OtherName` otherwise, with `Rewritten` saying what it becomes. The settings
besides `identity` are `Field`s; environment variables are left out.

### Messaging

`known` and `wire` are the backend's documents and envelopes, `inbox[a]` what
msg.inbox shows to `a`; `row` and `contact` are the tables. Send is
`Register`, `Deliver`, `StoreSent`; Sync is `Fetch` and then, per envelope,
`SkipRow` or `StoreRow` and `StoreContact`. An envelope is text or something else
(a payload or a manifest, which Sync drops). `Broadcast` is the mock's inbox, which
shows every message to everybody; the row rules do not depend on it. `Limit` is the
inbox's limit. A handle is an `Alias`, `Bound` what the backend has for it.
`AnswerLost` is the case a test hardly reaches: the backend has done it, the
client has an error. Only text is compared by the tests here, so a row's text is
not part of it (UpsertMessage rewrites it with the same text).

### SecureMessaging

Each DID has a workspace: `session[a]` are the files under `e2ee/`, `opened[a]` the envelopes
whose key is used up there, `row[a]` the messages table. `known`, `bundle`, `wire` and `inbox`
are the backend. `svc[p]` is what `ensureE2EE` keeps, `life[l]` how far a receiver is in
its life. A send is `Register`, `Publish`, then `EncryptInit` or `EncryptCipher`, then
`StoreSent`; a Sync is `Fetch` and, per envelope, `SkipRow` or `Open`, after which an init is
acknowledged (`SendAck`) and a text stored (`StoreRow`). `Stop` cancels a context which only
the loop's `select` looks at (`LoopEnds`); a foreground receiver closes the database after
that, a service in `CloseDB` and `Exit`, which wait for nobody. After `CloseDB` a row is
passed over like any other that cannot be written. `Fetch` sees the oldest `Limit` of the inbox.
The automatic acknowledgement is a send to the peer like any other: it goes through any session with
the peer (`SendAck`), and is refused if that one is pending (`RefusedAck`), which happens only to
whoever has begun a session with that peer itself (`HasBegun`).

The sessions are the ANP SDK's, which is not part of the repository. `Usable`, `Readable`,
`Advanced` and `Kept` state what is assumed of it: an init envelope opens once; the key is used up on
disk before ProcessInbound returns; a session that is pending refuses to send; an envelope
finds its session by id, a send any of those with the peer; opening anything of a session
confirms it. Who may write first is the scenario's `first`: one side, or both. Races of two processes inside one of its
calls are left to the SDK.

### Handles, Mentions, Groups

`Handles` keeps the store as `IdentityRegistry` sees it, since `IdentityStore` implements that,
and adds `bound`, the backend's map. A command remembers the identity it loaded (`doing[p]`) while
`id use` changes the default.

In `Mentions` a code point (`CodePoint`) is the tuple of its UTF-8 bytes, so that `CodepointRange` can
search bytes and count code points as the code does; `FirstPlace` is the reference it is compared with.
A specification is the record of its parts; spaces around them are left out. `Utf8` is what makes
a byte search safe: the first byte of a code point is a later byte of none, and none is a prefix of another.

`group[g]` is a `groupRecord`, `log[g]` its states by version (history). A patch is a map from any
of the keys to values or null (`Patch`). A command is three
steps: the request served under the mutex (`Serve`), the answer encoded afterwards from maps
it shares with the record (`Encode`), the end. `Race` is what the Go runtime does if a map
is written while it is encoded: the backend is gone. Event sequence numbers, display names and the
several spellings of an argument are left out.

### Database

Each statement of `EnsureSchema` is a transaction of its own and a step of its own: `info` are
the rows of `schema_info`, `columns` is the version of the messages table, `tables` stands for
the others. `Crawl` fetches its candidates one after the other from `served`, which changes
meanwhile, and writes one row. `broken` and `told` are history.

### Attachment

`object[a]` is the record of a slot or an object, `arriving` the PUTs between
`handleUpload`'s two critical sections: the client's time-out and its abort may
come between them. A digest is the content it was computed from. A peer's client
(`PeerSends`) may commit or not, and its manifest may name bytes its object does
not hold. `OpenFile` and `WriteFile` are the two steps of `os.WriteFile`; a failure or death at the second
leaves any beginning of the bytes (`LeftAt`). `file[n]` is the bytes of the file, so that two downloads
with one file name truncate and overwrite each other here as they do in the code. `faulty`, chosen
once, says which steps may fail. Object size limits, MIME types, captions and expiry are left out.

## Runs

| Run | Question | Bounds |
|---|---|---|
| `IdentityStore` | do identities stay whole, and is each change atomic, with crashes anywhere? | 2 processes, 2 names, 2 generations, 4 key files; a held lock is waited for or an error |
| `IdentityStoreNoFaults` | without failures: do disk and index agree, does every call return? | 2 processes, 2 key files, fairness |
| `Workspace` | are config.yaml's updates applied to the file they replace, and does the configured identity exist? | 2 processes, 2 names, 1 setting, failures |
| `WorkspaceUpdates` | do `id use` and `config set` lose settings or hang? | 2 processes, fairness |
| `Messaging` | does the database only show real messages, once and for good, as a mailbox in which each step is atomic does, and is nothing of ours lost but by a failure, and then one message? | 2 processes, 2 identities, a peer, a group, a handle, 2 messages, 1 failure |
| `MessagingDelivery` | is everything the inbox shows stored in the end, with its sender, and does no sync leave a gap? | a sender and a receiver, 1 identity, 3 messages in an inbox that shows 2, 1 failure of a sync, fairness |
| `Attachment` | are manifests backed and the bytes of files authentic, as if a file and its message were posted in one step; if only uploads fail, is a failed upload undone, and can what was sent be fetched? | 2 processes, 2 attachments, 3 contents of 2 lengths, 2 of them under one file name, 2 failures |
| `SecureMessaging` | is what was opened stored and acknowledged, can what was accepted be read, does all that the inbox shows arrive and every session get confirmed; does each of these happen once? | 2 workspaces, a command and a receiver, 2 messages with their acknowledgements in an inbox that shows 3, one side or both write first, 1 failure or death, stops and starts, fairness |
| `Groups` | do versions tell states apart, are answers at least as new as their version, are members added by handle the right ones, are ranges right, does each request take effect in one step? | 2 clients, 1 group, 2 identities and a peer, 1 handle, 2 keys, 3 versions; 7 texts of one- and two-byte code points with about 50 mentions |
| `Database` | does whoever opens it have the schema, does the version come back, is the index true? | 2 processes, 3 kinds of database, 2 failures or deaths; 2 URLs, 2 publications; fairness |

`Blocking = FALSE` covers both locks: a process that finds the lock held may stay where it
is, as with flock, or give up, as with LockFileEx.

Two processes are enough for every race in the code that these runs look at: a lock, or its
absence, is between two, and a third process adds no step that a second command of the same
process does not (each process runs any number of commands). Two names let one be
the default and the other take its place. A scenario (`may`) says what the system at hand
does and may suffer: it is chosen in Init and never changes, so that each run covers several settings, none of them
large. Three versions of a group are a state, a change of one client and a change of another.
Three messages in an inbox that shows two are the fewest with one that no sync ever finds.
Two secure messages are an init and a cipher of its session, or two inits, of one side or of both; with their
acknowledgements they are four envelopes, of which the inbox shows three. Four key files is the number the code
writes. One failure hits each step of a command; the second failure hits the
clean-up after the first. Each message and generation id is used once: bounds on
`Msg`, `Att` and `Gen` bound the behaviours, not what a step may do. `RowsAreReal`, `RowsStay`
and the types of `SecureMessaging` and `Attachment` are theorems without a run of their own: `RowsAreReal` is a part of `IInv`, which
the run `Messaging` checks, `MailboxSpec` implies `RowsStay`, and `TypeCorrect` is for every instance. Symmetry is
used in safety runs only, and never over a set whose members the constants tell
apart.

Each property is preceded in its module by what it says and the lines it is about.

### Disagreements

Two runs end in a counterexample to a line of the repository; PROJECT.json quotes it.

- `WorkspaceInitClobbers`: `init` decides to write config.yaml on what it read before
  any lock; a `config set` in between is lost.
- `SecureMessagingStop`: the service's Stop does not wait for the loop. The database is closed
  and the process ends under a Sync that has opened a message, which is possible once: its
  text is never stored.

The same models show further ones when a constant is changed:

- With `OtherName = {other}` the run `Workspace` violates `WhoamiFinds`: `init` writes the name as
  given into config.yaml (`root.go:276`), Save creates the rewritten one
  (`identity/store.go:111`), and no later command finds it.
- Sync passes over the echoes of our own messages as "already stored at send time"
  (`message/service.go:281-284`). They are not after a failure: a direct message whose answer is
  lost, or whose row cannot be written, is delivered, never stored, and its echo skipped
  (`message/service.go:127, 150`). `LossesAreFailures` counts these; with 0 for `faults` in it the run
  `Messaging` violates it. And a group message never is: `group send` stores nothing (`group/service.go:174`);
  without `wire[m].to \notin Group` in `Lost` the run violates the property with no failure at all.
- Two `id use` at once may leave config.yaml and the index with different defaults
  (`cli/id.go:86-98`), and one that fails in between does.
- Once `"init"` is in `Command`, it may replace a config.yaml that exists
  and does not parse (`root.go:274-275`, `config.go:128-134`).
- What was sent to a handle has the handle as its recipient in the database, so that "the local thread with a
  peer" (`message/service.go:432`) does not show it for the peer's DID (`message/service.go:142`).
- With two identities in one workspace and `Broadcast`, the inbox of the mock, a sync as the
  identity that is neither sender nor recipient may come between the delivery and the
  sender's row; it stores the message as one to itself, and the later upsert of the
  sender changes neither the recipient nor the direction (`message/service.go:138-150`, `store/dao.go:63-68`).
- `Acknowledged` fails without `HasBegun` in the scenario in which both sides write first: the acknowledgement may go
  through the pending session of the receiver's own and be refused (`message/service.go:417-425`).
- `OpenedAreStored` fails without `Steady`: a decrypted text whose row cannot be written, or whose
  process dies before it is, is lost (`message/service.go:285-287, 322`).
- `SlotsSettled` fails without `UploadsOnly`: only a failed PUT is undone
  (`cli/attachment.go:91-104`).

Further things the code does which no property denies:

- A group's answer may be newer than the version it gives, and `member_count` may differ from the list:
  the mutex is released before the answer is encoded (`mock.go:170-177, 201-203`).
- Whoever joins a group again becomes an ordinary member, its owner too; no request asks
  for a role (`mock.go:355-473`).
- An explicit mention range may start below zero (`mention.go:255-267`).
- Losing the race for ALTER TABLE fails one Open (`open.go:138`); a process that dies before it
  has inserted the version makes `doctor` report an error until the next Open
  (`open.go:145`, `doctor.go:78-84`).
- Agents without a DID share one row of the index, the last crawl to finish wins, and an
  entry of `interfaces` that is no object makes Crawl panic (`discovery/service.go:67`).

`attach send` makes its first signed call before it registers its document, which
`attach download` does first: a backend that knows others refuses a fresh identity
(`Refused` of `Attachment`).

### Fairness

A running command goes on (weak fairness of its steps): the operating system schedules
processes. flock(2) hands a lock that is released again and again to each waiter sooner
or later (strong fairness of `Acquire`). The receiver's ticker starts the next sync
(weak fairness of `StartSync` of a `Listener`, and of `Tick`: a select whose ticker is
due takes it or ends; in `SecureMessaging` both are `Advances`). A statement on the
database gets its turn (sqlite's busy handler, 5 s). No command has to be started, no
call has to succeed, and nothing is assumed of peers; in the liveness runs the number of
failures is bounded, since a backend that never answers delivers nothing.

## Proofs

Eight modules are checked by TLAPS, for all values of the constants that satisfy the named
assumptions of the modules they are about: any numbers of processes, identities, messages,
attachments, groups, keys and documents, texts of any length in any alphabet, with the failures of
any scenario.

| Module | Theorem | Says |
|---|---|---|
| `IdentityStoreProofs` | `InductiveInvariant`, `TypeCorrect` | `Spec => []IInv`, with the types in it |
| | `IdentityIsWhole`, `IndexIsSound`, `LoadIsConsistent` | the invariants of the run `IdentityStore` (`IndexSound` as a part of `IInv`) |
| | `IdentitiesAreKept`, `OrphansStayOrphans` | no step changes an existing identity; a name burnt by a half-done Save stays burnt |
| | `DiskAndIndexAgree` | if nothing fails (`~MayFail`), disk and index agree whenever the lock is free |
| | `ImplementsRegistry` | `Spec => RegistrySpec` |
| `WorkspaceProofs` | `UpdatesAreApplied` | `id use` and `config set` replace the file that is there by that file with their change |
| | `SettingsAreKept` | without `init` no setting is lost |
| | `InductiveInvariant`, `WhoamiFindsIdentity` | the configured identity exists, for names that `sanitizeName` leaves alone |
| `MessagingProofs` | `InductiveInvariant`, `OnlyExchangedIsShown` | the database shows only what was exchanged |
| | `StoredRowsStay` | a row that is there does not change |
| | `FailuresLoseOne` | a failure loses one direct message of ours at most, and nothing else loses any |
| | `SyncsLeaveNoGaps` | whatever a sync has passed over is stored with its sender, as long as the database accepts rows |
| | `ImplementsMailbox` | `Spec => MailboxSpec` |
| `SecureMessagingProofs` | `InductiveInvariant`, `TypeCorrect` | ids, envelopes and what a process holds; the types |
| | `OpenedTextsAreStored`, `InitsAreAcknowledged` | what is opened is stored, and answered first |
| | `AcceptedTextsCanBeRead` | what was accepted has been opened or can be |
| | `ImplementsSecureMailbox` | `Spec => SecureMailboxSpec` |
| `AttachmentProofs` | `InductiveInvariant`, `TypeCorrect` | who owns which slot; the types |
| | `ManifestsAreNeverHollow`, `DownloadsAreAuthentic` | manifests are backed, every byte of a file is one that a manifest of its name gives |
| | `NoSlotIsLeftBehind`, `WhatWasSentCanBeFetched` | if only uploads fail: nothing stays behind, and downloads of our files succeed |
| | `ImplementsParcels` | `Spec => ParcelsSpec` |
| `DatabaseProofs` | `InductiveInvariant`, `TypeCorrect` | what each place in Open may rely on; the types |
| | `OpenDatabasesAreCurrent` | whoever is given an open database has the schema |
| | `IndexedAgentsWereDescribed` | the index of agents is true |
| `MentionsProofs` | `CodePointsAreCounted` | counting the bytes that begin a code point counts a text's code points |
| | `RangesPoint` | a search of the bytes finds a surface exactly when it is in the text, and its first place there |
| | `BuiltMentionsPoint` | of the mentions that are built none ends after the text, and each that was to be located is where its range says, and nowhere before |
| `GroupsProofs` | `InductiveInvariant`, `TypeCorrect` | answers and histories; the types |
| | `ShownHandlesAreOurs`, `HandlesAddTheirOwners` | a handle is its identity's at the backend, and adds it to a group |
| | `VersionsAreExact`, `AnswersAreNeverStale` | a version is one state and one change, of one member or one map, and one client's; answers are not older than their version |
| | `MessagesAreDrafted`, `MentionsAlwaysPoint` | what is in a group was built from a draft of some client; its mentions point at their surface |
| | `ImplementsGroupRegistry` | `Spec => RegistrySpec` |

### Assumptions

The `ASSUME`s of the modules say that the null values are none of the values they stand
beside, that bounds are natural numbers, that a scenario is made of the steps there are,
and, where a theorem counts (`IsFiniteSet` of the processes that open a database, of the DIDs and keys of
a group), that what is counted is finite. `DraftAssumption` is about the text that `group send` is given:
arguments are valid UTF-8 (`Utf8`), and a specification is what its parser leaves (`WellFormed`: a
surface that is not empty, integers where there is a range). TLC evaluates each of them. Of the environment the models assume that peers draw message ids nobody else
uses (`RemoteSend`; `direct.send` does not check it, `mock.go:266-293`, and `UpsertMessage` would put the second text into
the first row, `store/dao.go:63-68`) and that nobody uses a slot or token but who was given it
(`mock.go:515-544` makes them from its clock). Three theorems and `IInv` of
`Workspace` have a hypothesis of their own, because without it the code does something else
(see Disagreements):

- `WhoamiFindsIdentity` and `InductiveInvariant` of `WorkspaceProofs`: `OtherName = {}`, no name that
  `sanitizeName` rewrites.
- `SettingsAreKept`: `"init" \notin Command`; with it, the run `WorkspaceInitClobbers` is a counterexample.
- `DiskAndIndexAgree`: `~MayFail`, as in the run `IdentityStoreNoFaults`; otherwise there are orphans.

`Steady`, `UploadsOnly`, `"encrypt" \notin may.fail` and, in `NoGaps`, that the database accepts rows
(`RowsAccepted`: nothing has failed yet, or storing does not fail in this scenario) are parts of the properties, about the
scenario at hand. The refinements have no such part: `ImplementsRegistry`, `ImplementsMailbox`,
`ImplementsSecureMailbox`, `ImplementsParcels` and `ImplementsGroupRegistry` hold with every failure the models have.

### The arguments

**IdentityStore.** `KeysComplete` needs to know what a Save
in progress has written (`SaveProgress`), which needs that nobody else is writing
(`WriterAlone`: a process is between Acquire and Release exactly when it holds the lock)
and that the index is still as it was read (`WriterFresh`). `LoadSound` needs what each
reader has seen so far (`LoadProgress`): a reader that found did.json keeps a true view
because that file and its keys never change again, which is `IdentitiesAreKept`; and a
handle it read belongs to that DID because an index item's DID never changes. TLC checks
`IInv` in the run `IdentityStore`. Refinement maps `RenameIndex` to the abstract operation of
the request and every other step to a stutter. An orphan stays one because a name enters the index only
by a Save of that name, which reaches the index only by renaming a did.json that was not there; and
where nothing fails, whoever has renamed it holds the lock until the name is listed (`NoOrphan`).

**Workspace.** The part of `IInv` about the lock (`LockInv`) is inductive by itself and gives
`UpdatesApply`. `WhoamiFinds` needs to follow a name on all its ways to the file: as argument after
the store has it, in what Resolve has read, and in the draft (`NamesExist`). The store never loses a name.

**Messaging.** An id belongs to one command, and to no envelope before that command has delivered
it (`IdsFresh`). Hence what a sender stores is the envelope with that id, and a row, once
there, is never written from another. For `FailuresLoseOne`, `LostStep`
shows that what a process's step adds to `Lost` is the message it was sending, and that the step is a failure; so `Lost` is finite and
grows by one where `faults` does. For `NoGaps`, what a sync still has at hand is a stretch of its inbox, and
stays one while the inbox grows (`OldestGrows`); it moves on by skipping what `Skips` says, or by storing
first the row and then the contact, and whatever is kept stays kept. `MailboxSpec` needs `BoxInv`, that what a process
has in memory is still so elsewhere: what a sync has at hand is in its inbox, within the limit; at "contact" the row is there;
at "store" the envelope is addressed to what the name was resolved to. With it `Deliver` is
`Post`, `StoreSent` is `Record`, `StoreRow` is `Keep` and `StoreContact` is `Meet`, each unless it changes
nothing, and every other step is a stutter.

**SecureMessaging.** Three layers, each relative to the one before. `IInv`: a text's id is one
command's, an acknowledgement is the answer to its init, an opened envelope was sent to who opened it.
`CalmInv`, for `Steady` scenarios without a service: an opened text is stored or at hand in a sync,
an opened init is answered or about to be, or who opened it has begun a session with its sender; that an
acknowledgement is not refused otherwise is `Owned`: a session was begun by its workspace or set up by an init it has opened, and a
pending one is of the first kind. No such sync can be left but by storing, as Stop is looked at
between syncs only. `SessionsInv`: the sender of each envelope has its session, the recipient
of each that is no init has it too, and a confirmed session has both ends. It is inductive because a
cipher is sent only in a confirmed session and nothing removes one. `SecureMailboxSpec`, in every scenario, needs `BoxInv`: what has
been opened is not opened again, so that who is about to acknowledge an init is the only one and the first
(`AckAhead`), a row of what was received follows its opening (`RowsOpened`) and meets no row of what was sent, and a session's id is that of no
send still to be encrypted (`SessionIds`).

**Attachment.** The hard actor is a PUT nobody waits for. `ObjectAt` says for each place of a send what its
slot holds and what may still arrive there: between put and upload only its own bytes, from the commit on
nothing. `Backed` says that a manifest's object is beyond the reach of all that. For `SlotsSettled`,
`Owned`: an object belongs to a send under way or is told of. `Parcels` sees the bytes of an object only
once a message of ours tells of it. By `Backed` those are then the bytes of its digest (`StoredIs`), so that the step that
posts the manifest posts the bytes, and every step on slots, PUTs, commits, aborts and tickets is a stutter. `ParcelInv` adds that a
send's attachment is one that no message tells of (`Apart`), and that a download has in hand only what the inbox shows
(`TakenAt`). For `Authentic`, each beginning of bytes that have passed `Checked`, over others that have, is still such.

**Database.** `OpenAt` says for each place what the statements before it have left for good. The version
rows are counted with the processes at their INSERT, and the sum never exceeds the number of
processes: a DELETE takes all rows away, and an INSERT turns one of those processes into a row.

**Groups.** Two things only grow: who has a handle at the backend, and a group's history. An answer was
drawn from the history at its version, and what it encodes later is the history's end, of that version or
a later one. The map of members only gains keys, so that who was listed still is. `HInv` says that a
registration between the backend and the store still names an identity that owns the handle.
`Registered` shows a group as `GroupRegistry` does: a member is who is in the map and active. A request is
pending until it is served and its version told until the command ends, so that `Serve` is the one step in which it takes effect
and `Encode`, which may see later states, is none; `Quiet` says that nobody hears of a version before that.
For `MentionsPoint`, `Drafted` follows a draft from the command to the group (what is posted
and what is stored is the draft's body, and was built), and `BuiltMentionsPoint` says the rest.

**Mentions.** `Layout` relates a text to its bytes: code point i begins at offset i, which grows with i, and what
begins there is that code point. The bytes of a surface found at some byte begin at an offset, since its first byte begins a
code point, and cover whole code points, since none is a prefix of another; so the search of bytes finds what the search
of code points does. The theorems of the library that do induction take an operator as a parameter and cannot be used; the
inductions here are about a set of natural numbers (`LeastNatural`, `Induction`, from `NatLessThanWellFounded`), and
the functions they are about are defined on `Nat` or on sequences without RECURSIVE.

### Only model-checked

- Liveness (`CallsReturn`, `CommandsEnd`, `Arrives`, `SecureArrives`, `Confirmed`, `VersionReturns`): the
  prover does not reach fairness and `ENABLED`. Of `Arrives` the safety half is proved: no sync leaves a gap (`NoGaps`).
- That the SDK is as `Usable`, `Readable`, `Advanced` and `Kept` say, and that the mock stands for other backends,
  is neither checked nor proved, but assumed.

## Not modelled

- Cryptography, canonical JSON, DID generation, HTTP signatures: the models take a valid
  signature as given and ask only whether the backend knows the signer's document.
- Output, command catalogue, build information: no state. Of `doctor` only the check that opens
  the database; the rest reads files once.
- `runtime install`, `start`, `stop`, `status`: calls to the operating system's service manager,
  which then starts and stops the program as modelled.
- `e2ee status`, `id list`, `id current`, `config show`, `discovery search`, `msg inbox` and `history` read
  once what the models hold. UpsertGroup, ListGroups and DeleteGroup have no caller.
- The SDK's session and prekey files, beyond what is assumed above: one-time prekeys, key
  rotation, two processes inside one SDK call.
- URL validation and body limits of the transport; the backend's HTTP framing.

## Plan

Every safety invariant and every action property of the passing runs has its theorem, and so have the five
refinements. What is left is the safety half of `SecureArrives`, as `NoGaps` is of `Arrives`.
