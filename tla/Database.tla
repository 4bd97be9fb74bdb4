------------------------------ MODULE Database ------------------------------
(***************************************************************************)
(* The workspace database (internal/store/open.go) as every command opens  *)
(* it, and the two commands that come for something other than messages:   *)
(* `doctor`, which reads the schema version, and `discovery crawl`, which  *)
(* indexes an agent (internal/discovery, store/dao.go).                    *)
(*                                                                         *)
(* Open creates, migrates and stamps the database in one statement after   *)
(* the other, each a transaction of its own. Any process may be at any of  *)
(* them when another one opens the same file.                              *)
(***************************************************************************)
EXTENDS Naturals, SequencesExt

CONSTANTS
  Proc,      \* anp-cli processes
  Url,       \* what can be crawled
  AdJson,    \* AdJson[u]: u itself if it ends in "ad.json", else u/ad.json
  Did,       \* the DIDs of agents
  NoDid,     \* the empty string, stored for an agent that gives no DID
  Doc,       \* agent descriptions: the DID they give, and whether their
             \* interfaces are objects
  Scenario,  \* how the database was left, which commands are run, and how many
             \* statements and fetches fail and processes die
  MaxTold,   \* how many descriptions are published
  None       \* no value

SchemaVersion == 2

ASSUME DatabaseAssumption ==
  /\ AdJson \in [Url -> Url] /\ \A u \in Url : AdJson[AdJson[u]] = AdJson[u]
  /\ Scenario \subseteq [left : {"absent", "v1", "v2"}, ops : SUBSET {"doctor", "crawl"},
                   faults : Nat]
  /\ NoDid \notin Did
  /\ Doc \subseteq [did : Did \cup {NoDid}, listed : BOOLEAN]
  /\ IsFiniteSet(Proc)
  /\ None \notin Seq(Nat) \cup {"v1", "v2"}

VARIABLES
  may,     \* the scenario
  info,    \* schema_info: its rows, or None when there is no such table
  columns, \* messages: "v1" or "v2" (with mentions_json), or None
  tables,  \* whether the other tables are there
  agents,  \* discovered_agents: agents[d]: the row of the DID d, or None
  served,  \* the Web: served[u]: the description at u, or None
  told,    \* history: the descriptions that were ever served, with their URLs
  pc,      \* pc[p]: what process p does next
  cmd,     \* cmd[p]: its command; the URLs left to try, the one that answered
  broken,  \* history: whether a process failed between DELETE and INSERT and
           \* nothing has inserted a version since
  faults   \* failures so far

schema == <<info, columns, tables>>
web == <<served, told>>
vars == <<may, schema, agents, web, pc, cmd, broken, faults>>

Row == [url : Url, doc : Doc]
NoCmd == [left |-> <<>>, url |-> None, doc |-> None, op |-> "none"]

\* The statements of Open, in their order, and what follows it.
Statement == {"info", "messages", "rest", "probe", "alter", "delete", "insert"}
Opened == {"opened", "fetch", "index"}
-----------------------------------------------------------------------------
Init ==
  /\ may \in Scenario
  /\ info = CASE may.left = "absent" -> None [] may.left = "v1" -> <<1>> [] OTHER -> <<2>>
  /\ columns = IF may.left = "absent" THEN None ELSE may.left
  /\ tables = (may.left # "absent")
  /\ agents = [d \in Did \cup {NoDid} |-> None]
  /\ served = [u \in Url |-> None]
  /\ told = {}
  /\ pc = [p \in Proc |-> "idle"]
  /\ cmd = [p \in Proc |-> NoCmd]
  /\ broken = FALSE
  /\ faults = 0

Goto(p, from, to) ==
  /\ pc[p] = from
  /\ pc' = [pc EXCEPT ![p] = to]

End(p, from) ==
  /\ Goto(p, from, "idle")
  /\ cmd' = [cmd EXCEPT ![p] = NoCmd]

\* Somebody publishes a description, or takes it away. (Nothing but a crawl
\* that has opened the database can tell when.)
Publish ==
  /\ \E p \in Proc : pc[p] \in {"fetch", "index"}
  /\ \E u \in Url, d \in Doc \cup {None} :
       /\ served' = [served EXCEPT ![u] = d]
       /\ told' = IF d = None THEN told ELSE told \cup {[url |-> u, doc |-> d]}
       /\ Cardinality(told') <= MaxTold
       /\ UNCHANGED <<may, schema, agents, pc, cmd, broken, faults>>

\* Crawl tries the URL as given and then its ad.json.
Candidates(u) == IF AdJson[u] = u THEN <<u>> ELSE <<u, AdJson[u]>>

Start(p) ==
  /\ Goto(p, "idle", "info")
  /\ \E op \in may.ops, u \in Url :
       cmd' = [cmd EXCEPT ![p] = [NoCmd EXCEPT !.op = op,
                                    !.left = IF op = "crawl" THEN Candidates(u) ELSE <<>>]]
  /\ UNCHANGED <<may, schema, agents, web, broken, faults>>
-----------------------------------------------------------------------------
(* Open. *)

\* The tables that are there are left as they are.
CreateInfo(p) ==
  /\ Goto(p, "info", "messages")
  /\ info' = IF info = None THEN <<>> ELSE info
  /\ UNCHANGED <<may, columns, tables, agents, web, cmd, broken, faults>>

CreateMessages(p) ==
  /\ Goto(p, "messages", "rest")
  /\ columns' = IF columns = None THEN "v2" ELSE columns
  /\ UNCHANGED <<may, info, tables, agents, web, cmd, broken, faults>>

CreateRest(p) ==
  /\ Goto(p, "rest", "probe")
  /\ tables' = TRUE
  /\ UNCHANGED <<may, info, columns, agents, web, cmd, broken, faults>>

ProbeFor(p, there) ==
  /\ Goto(p, "probe", IF there THEN "delete" ELSE "alter")
  /\ UNCHANGED <<may, schema, agents, web, cmd, broken, faults>>

\* A mutant: the version is taken for the column.
ProbeVersion(p) == ProbeFor(p, info # <<>>)

\* migrateMessagesMentions: PRAGMA table_info.
Probe(p) == ProbeFor(p, columns = "v2")

Alter(p) ==
  /\ columns = "v1"
  /\ Goto(p, "alter", "delete")
  /\ columns' = "v2"
  /\ UNCHANGED <<may, info, tables, agents, web, cmd, broken, faults>>

\* A second ALTER TABLE finds the column there, and Open fails.
AlterRefused(p) ==
  /\ columns = "v2"
  /\ End(p, "alter")
  /\ UNCHANGED <<may, schema, agents, web, broken, faults>>

\* upsertSchemaVersion
Delete(p) ==
  /\ Goto(p, "delete", "insert")
  /\ info' = <<>>
  /\ UNCHANGED <<may, columns, tables, agents, web, cmd, broken, faults>>

InsertVersion(p, v) ==
  /\ Goto(p, "insert", IF cmd[p].op = "crawl" THEN "fetch" ELSE "opened")
  /\ info' = Append(info, v)
  /\ broken' = FALSE
  /\ UNCHANGED <<may, columns, tables, agents, web, cmd, faults>>

\* A mutant: SchemaVersion was not raised with the schema.
InsertOld(p) == InsertVersion(p, 1)
Insert(p) == InsertVersion(p, SchemaVersion)
-----------------------------------------------------------------------------
(* With an open database. *)

\* The command reads or writes rows (doctor: a version, if there is a row)
\* and closes the database.
Use(p) ==
  /\ End(p, "opened")
  /\ UNCHANGED <<may, schema, agents, web, broken, faults>>

FetchFrom(p, answering) ==
  /\ pc[p] = "fetch" /\ cmd[p].left # <<>>
  /\ LET u == Head(cmd[p].left) IN
     /\ u \in answering
     /\ cmd' = [cmd EXCEPT ![p].left = <<>>, ![p].url = u, ![p].doc = served[u]]
  /\ Goto(p, "fetch", "index")
  /\ UNCHANGED <<may, schema, agents, web, broken, faults>>

\* A mutant: an error page is taken for a description.
FetchAnything(p) == FetchFrom(p, Url)

\* FetchJSON of the next candidate.
Fetch(p) == FetchFrom(p, {u \in Url : served[u] # None})

\* It is not there, or the network fails.
Skip(p) ==
  /\ pc[p] = "fetch" /\ cmd[p].left # <<>>
  /\ IF served[Head(cmd[p].left)] = None THEN UNCHANGED faults
     ELSE faults < may.faults /\ faults' = faults + 1
  /\ cmd' = [cmd EXCEPT ![p].left = Tail(@)]
  /\ UNCHANGED <<may, schema, agents, web, pc, broken>>

\* No candidate has answered.
Nowhere(p) ==
  /\ cmd[p].left = <<>>
  /\ End(p, "fetch")
  /\ UNCHANGED <<may, schema, agents, web, broken, faults>>

IndexAs(p, d, u) ==
  /\ End(p, "index")
  /\ cmd[p].doc.listed
  /\ agents' = [agents EXCEPT ![d] = [url |-> u, doc |-> cmd[p].doc]]
  /\ UNCHANGED <<may, schema, web, broken, faults>>

\* A mutant: the ad.json's address is recorded whichever candidate answered.
IndexAdJson(p) == pc[p] = "index" /\ IndexAs(p, cmd[p].doc.did, AdJson[cmd[p].url])

\* UpsertDiscoveredAgent, keyed by the DID; agents without one share a row.
Index(p) == pc[p] = "index" /\ IndexAs(p, cmd[p].doc.did, cmd[p].url)

\* An entry of "interfaces" that is not an object ends the process.
Panic(p) ==
  /\ pc[p] = "index" /\ ~cmd[p].doc.listed
  /\ End(p, "index")
  /\ UNCHANGED <<may, schema, agents, web, broken, faults>>

\* A statement fails (the database is busy for 5 s, say) or the process dies.
Fail(p) ==
  /\ faults < may.faults /\ faults' = faults + 1
  /\ pc[p] # "idle"
  /\ End(p, pc[p])
  /\ broken' = (broken \/ (pc[p] = "insert" /\ info = <<>>))
  /\ UNCHANGED <<may, schema, agents, web>>

Open(p) == \/ CreateInfo(p) \/ CreateMessages(p) \/ CreateRest(p) \/ Probe(p) \/ Alter(p)
           \/ AlterRefused(p) \/ Delete(p) \/ Insert(p)
Go(p) == Open(p) \/ Use(p) \/ Fetch(p) \/ Skip(p) \/ Nowhere(p) \/ Index(p) \/ Panic(p)

Next == Publish \/ \E p \in Proc : Start(p) \/ Go(p) \/ Fail(p)

Spec == Init /\ [][Next]_vars

\* A running command goes on; sqlite's busy handler gives everyone a turn.
Fairness == \A p \in Proc : WF_vars(Go(p))
FairSpec == Spec /\ Fairness
-----------------------------------------------------------------------------
(* Properties. *)

TypeOK ==
  /\ may \in Scenario
  /\ info # None => info \in Seq({1, SchemaVersion})
  /\ columns \in {None, "v1", "v2"}
  /\ tables \in BOOLEAN
  /\ \A d \in Did \cup {NoDid} : agents[d] # None => agents[d] \in Row
  /\ served \in [Url -> Doc \cup {None}]
  /\ told \subseteq Row
  /\ pc \in [Proc -> Statement \cup Opened \cup {"idle"}]
  /\ \A p \in Proc : pc[p] # "idle" => cmd[p].op \in may.ops
  /\ \A p \in Proc : pc[p] = "index" => [url |-> cmd[p].url, doc |-> cmd[p].doc] \in Row
  /\ broken \in BOOLEAN
  /\ faults \in 0..may.faults

(* Whoever is given an open database has all its tables, with the column   *)
(* the messages need, whichever schema it had, whoever creates or migrates *)
(* it at the same time and wherever they die. The version it gives is      *)
(* SchemaVersion, or, while some other process is between its DELETE and   *)
(* its INSERT or after it has failed there, none at all, which `doctor`    *)
(* calls an error; and there are never more rows of it than processes that *)
(* open the database at once (open.go 53-156, doctor.go 78-84).            *)
OpenedIsCurrent ==
  \A p \in Proc : pc[p] \in Opened =>
    /\ info # None /\ columns = "v2" /\ tables
    /\ Range(info) \subseteq {SchemaVersion} /\ Len(info) <= Cardinality(Proc)
    /\ info = <<>> => broken \/ \E q \in Proc : pc[q] = "insert"

(* An agent of the local index is one that was described, under the DID of *)
(* the row and at the row's URL, whichever candidate answered and however  *)
(* descriptions change and crawls overlap (discovery/service.go 29-95,     *)
(* dao.go 218-232).                                                        *)
IndexIsTrue ==
  \A d \in Did \cup {NoDid} : agents[d] # None =>
    agents[d] \in told /\ agents[d].doc.did = d

(* A version that a crash has taken away comes back: once failures have    *)
(* stopped, whoever begins to open the database, and however the others    *)
(* open it at the same time, the version is there eventually, put there by *)
(* the process itself or by the one that won the race for ALTER TABLE      *)
(* (open.go 99-105, 133-150).                                              *)
Stamped == info # None /\ SchemaVersion \in Range(info)
VersionReturns == \A p \in Proc : (pc[p] = "info" /\ faults = may.faults) ~> Stamped
=============================================================================
