--------------------------- MODULE DatabaseProofs ---------------------------
(***************************************************************************)
(* Proofs about Database: what a process that is given an open database    *)
(* finds in it, whoever opens, creates or migrates the file meanwhile, and *)
(* what the index of agents holds.                                         *)
(*                                                                         *)
(* The invariant says, for each place in Open, what the statements before  *)
(* it have left behind for good: tables that stay, a column that stays,    *)
(* and, from the DELETE on, a schema_info that nobody fills with anything  *)
(* but SchemaVersion. It has one row at most for each process that has yet *)
(* to leave the INSERT behind.                                             *)
(***************************************************************************)
EXTENDS Database, FiniteSetTheorems, SequenceTheorems, TLAPS

Inserting == {p \in Proc : pc[p] = "insert"}

AfterDelete == {"insert"} \cup Opened
AfterAlter == {"delete"} \cup AfterDelete
AfterRest == {"probe", "alter"} \cup AfterAlter
AfterMessages == {"rest"} \cup AfterRest
AfterInfo == {"messages"} \cup AfterMessages

OpenAt(p) ==
  /\ pc[p] \in AfterInfo => info # None
  /\ pc[p] \in AfterMessages => columns # None
  /\ pc[p] \in AfterRest => tables
  /\ pc[p] \in AfterAlter => columns = "v2"
  /\ pc[p] \in AfterDelete => /\ Range(info) \subseteq {SchemaVersion}
                              /\ Len(info) + Cardinality(Inserting) <= Cardinality(Proc)
  /\ pc[p] \in Opened /\ info = <<>> => broken \/ Inserting # {}
Opens == \A p \in Proc : OpenAt(p)

Cmd == [left : Seq(Url), url : Url \cup {None}, doc : Doc \cup {None},
        op : {"none", "doctor", "crawl"}]

(* A crawl at "index" has a description that was served at its URL.        *)
Described ==
  /\ \A u \in Url : served[u] # None => [url |-> u, doc |-> served[u]] \in told
  /\ \A p \in Proc : pc[p] = "index" => [url |-> cmd[p].url, doc |-> cmd[p].doc] \in told

IInv == TypeOK /\ cmd \in [Proc -> Cmd] /\ agents \in [Did \cup {NoDid} -> Row \cup {None}]
        /\ Opens /\ Described /\ IndexIsTrue

ProcStep(p) == Start(p) \/ Go(p) \/ Fail(p)

(* The options of a scenario.                                              *)
LEMMA ScenarioType ==
  ASSUME TypeOK
  PROVE  /\ may.left \in {"absent", "v1", "v2"} /\ may.ops \subseteq {"doctor", "crawl"}
         /\ may.faults \in Nat
BY DatabaseAssumption DEF TypeOK

(* A process that runs no command holds one like any other.              *)
LEMMA NoCmdType == NoCmd \in Cmd /\ NoCmd.op = "none"
BY EmptySeq DEF NoCmd, Cmd

(* No statement takes back what an earlier one has made: nothing drops a   *)
(* table or a column (open.go 53-156).                                     *)
LEMMA SchemaStays ==
  ASSUME TypeOK, NEW p \in Proc, ProcStep(p)
  PROVE  /\ info # None => info' # None
         /\ columns # None => columns' # None
         /\ columns = "v2" => columns' = "v2"
         /\ tables => tables'
<1> USE DEF schema
<1>1. CASE CreateInfo(p) \/ CreateMessages(p) \/ CreateRest(p) \/ Probe(p) \/ Alter(p)
           \/ AlterRefused(p)
  BY <1>1, DatabaseAssumption
     DEF CreateInfo, CreateMessages, CreateRest, Probe, ProbeFor, Alter, AlterRefused
<1>2. CASE Delete(p)
  <2>1. <<>> # None
    BY EmptySeq, DatabaseAssumption
  <2> QED
    BY <1>2, <2>1 DEF Delete
<1>3. CASE Insert(p)
  <2>1. info # None => Append(info, SchemaVersion) \in Seq(Nat)
    <3>1. info # None => info \in Seq(Nat)
      BY SeqMonotonic DEF TypeOK, SchemaVersion
    <3> QED
      BY <3>1, AppendProperties DEF SchemaVersion
  <2> QED
    BY <1>3, <2>1, DatabaseAssumption DEF Insert, InsertVersion
<1>4. CASE Start(p) \/ Use(p) \/ Fetch(p) \/ Skip(p) \/ Nowhere(p) \/ Index(p) \/ Panic(p)
           \/ Fail(p)
  <2>1. info' = info /\ columns' = columns /\ tables' = tables
    BY <1>4 DEF Start, Use, Fetch, FetchFrom, Skip, Nowhere, Index, IndexAs, Panic, Fail
  <2> QED
    BY <2>1, Zenon
<1> QED
  BY <1>1, <1>2, <1>3, <1>4 DEF ProcStep, Go, Open

(* Each process has a program counter and a command of its own.            *)
LEMMA OthersKeep ==
  ASSUME TypeOK, cmd \in [Proc -> Cmd], NEW p \in Proc, ProcStep(p), NEW q \in Proc, q # p
  PROVE  pc'[q] = pc[q] /\ cmd'[q] = cmd[q]
<1> USE DEF TypeOK, Goto, End
<1>1. CASE \/ Start(p) \/ CreateInfo(p) \/ CreateMessages(p) \/ CreateRest(p) \/ Probe(p)
           \/ Alter(p) \/ AlterRefused(p) \/ Delete(p) \/ Insert(p)
  BY <1>1 DEF Start, CreateInfo, CreateMessages, CreateRest, Probe, ProbeFor, Alter,
     AlterRefused, Delete, Insert, InsertVersion
<1>2. CASE \/ Use(p) \/ Fetch(p) \/ Skip(p) \/ Nowhere(p) \/ Index(p) \/ Panic(p) \/ Fail(p)
  BY <1>2 DEF Use, Fetch, FetchFrom, Skip, Nowhere, Index, IndexAs, Panic, Fail
<1> QED
  BY <1>1, <1>2 DEF ProcStep, Go, Open

(* Who is between DELETE and INSERT.                                       *)
LEMMA InsertingStep ==
  ASSUME TypeOK, cmd \in [Proc -> Cmd], NEW p \in Proc, ProcStep(p)
  PROVE  /\ IsFiniteSet(Inserting) /\ Cardinality(Inserting) \in Nat
         /\ Cardinality(Proc) \in Nat
         /\ Inserting' = IF pc'[p] = "insert" THEN Inserting \cup {p} ELSE Inserting \ {p}
         /\ Cardinality(Inserting') <= Cardinality(Proc)
         /\ Cardinality(Inserting') \in Nat
         /\ pc'[p] # "insert" => Cardinality(Inserting') <= Cardinality(Inserting)
         /\ pc'[p] # "insert" /\ pc[p] = "insert" =>
              Cardinality(Inserting') + 1 = Cardinality(Inserting)
<1>1. IsFiniteSet(Proc) /\ Inserting \in SUBSET Proc /\ Inserting' \in SUBSET Proc
  BY DatabaseAssumption DEF Inserting
<1>2. /\ IsFiniteSet(Inserting) /\ Cardinality(Inserting') <= Cardinality(Proc)
      /\ IsFiniteSet(Inserting')
  BY <1>1, FS_Subset
<1>3. /\ Cardinality(Proc) \in Nat /\ Cardinality(Inserting) \in Nat
      /\ Cardinality(Inserting') \in Nat
  BY <1>1, <1>2, FS_CardinalityType
<1>4. \A q \in Proc : q # p => pc'[q] = pc[q]
  BY OthersKeep
<1>5. Inserting' = IF pc'[p] = "insert" THEN Inserting \cup {p} ELSE Inserting \ {p}
  BY <1>4 DEF Inserting
<1>6. /\ p \in Inserting <=> pc[p] = "insert"
      /\ Cardinality(Inserting \ {p}) =
           IF p \in Inserting THEN Cardinality(Inserting) - 1 ELSE Cardinality(Inserting)
  BY <1>2, FS_RemoveElement DEF Inserting
<1> QED
  BY <1>2, <1>3, <1>5, <1>6

(* What has been made is there for the others while one process acts.      *)
LEMMA OpenStep ==
  ASSUME IInv, NEW p \in Proc, ProcStep(p)
  PROVE  Opens'
<1> DEFINE n == Cardinality(Inserting)
           n2 == Cardinality(Inserting')
<1>0. TypeOK /\ cmd \in [Proc -> Cmd] /\ Opens /\ OpenAt(p)
  BY DEF IInv, Opens
<1>1. /\ info # None => info' # None
      /\ columns # None => columns' # None
      /\ columns = "v2" => columns' = "v2"
      /\ tables => tables'
  BY <1>0, SchemaStays
<1>2. /\ n \in Nat /\ n2 \in Nat /\ Cardinality(Proc) \in Nat /\ n2 <= Cardinality(Proc)
      /\ Inserting' = IF pc'[p] = "insert" THEN Inserting \cup {p} ELSE Inserting \ {p}
      /\ pc'[p] # "insert" => n2 <= n
      /\ pc'[p] # "insert" /\ pc[p] = "insert" => n2 + 1 = n
  BY <1>0, InsertingStep
<1> HIDE DEF n, n2
<1>3. /\ Len(<<>>) = 0 /\ <<>> \in Seq({1, SchemaVersion}) /\ Range(<<>>) = {}
  BY EmptySeq DEF Range
<1>4. info # None => info \in Seq({1, SchemaVersion}) /\ Len(info) \in Nat
  BY <1>0, LenProperties DEF TypeOK
\* What a step does to schema_info, and who may be there to see it.
<1>5. \/ /\ pc'[p] # "insert" /\ (info' = info \/ info = None)
         /\ pc'[p] \in Opened => pc[p] \in Opened
         /\ broken => broken'
         /\ pc[p] = "insert" /\ info = <<>> => broken'
      \/ pc[p] = "delete" /\ pc'[p] = "insert" /\ info' = <<>> /\ UNCHANGED broken
      \/ /\ pc[p] = "insert" /\ pc'[p] \in {"fetch", "opened"}
         /\ info' = Append(info, SchemaVersion)
  <2> USE DEF Goto, End, schema, TypeOK, Opened
  <2>1. CASE Start(p) \/ CreateInfo(p) \/ CreateMessages(p) \/ CreateRest(p) \/ Probe(p)
             \/ Alter(p) \/ AlterRefused(p)
    BY <1>0, <2>1 DEF Start, CreateInfo, CreateMessages, CreateRest, Probe, ProbeFor, Alter,
       AlterRefused
  <2>2. CASE Delete(p) \/ Insert(p)
    BY <1>0, <2>2 DEF Delete, Insert, InsertVersion
  <2>3. CASE Use(p) \/ Fetch(p) \/ Skip(p) \/ Nowhere(p) \/ Index(p) \/ Panic(p)
    BY <1>0, <2>3 DEF Use, Fetch, FetchFrom, Skip, Nowhere, Index, IndexAs, Panic
  <2>4. CASE Fail(p)
    <3>1. broken' = (broken \/ (pc[p] = "insert" /\ info = <<>>))
      BY <2>4 DEF Fail
    <3>2. (broken => broken') /\ (pc[p] = "insert" /\ info = <<>> => broken')
      BY <3>1, Zenon
    <3>3. info' = info /\ pc'[p] = "idle"
      BY <1>0, <2>4 DEF Fail
    <3> QED
      BY <3>2, <3>3
  <2> QED
    BY <2>1, <2>2, <2>3, <2>4 DEF ProcStep, Go, Open
<1>6. ASSUME NEW q \in Proc, pc'[q] \in AfterDelete,
             q # p => pc[q] \in AfterDelete,
             info # None
      PROVE  Range(info') \subseteq {SchemaVersion} /\ Len(info') + n2 <= Cardinality(Proc)
  <2>1. CASE info' = <<>>
    BY <1>2, <1>3, <2>1
  <2>2. CASE pc[p] = "insert" /\ pc'[p] # "insert" /\ info' = Append(info, SchemaVersion)
    <3>1. Range(info) \subseteq {SchemaVersion} /\ Len(info) + n <= Cardinality(Proc)
      BY <1>0, <2>2 DEF OpenAt, AfterDelete, n
    <3>2. /\ Len(info') = Len(info) + 1
          /\ Range(info') \subseteq Range(info) \cup {SchemaVersion}
      BY <1>4, <1>6, <2>2, AppendProperties DEF Range
    <3> QED
      BY <1>2, <1>4, <1>6, <2>2, <3>1, <3>2
  <2>3. CASE /\ pc'[p] # "insert" /\ info' = info /\ (pc'[p] \in Opened => pc[p] \in Opened)
    <3>1. pc[q] \in AfterDelete
      BY <1>6, <2>3 DEF AfterDelete
    <3>2. Range(info) \subseteq {SchemaVersion} /\ Len(info) + n <= Cardinality(Proc)
      BY <1>0, <3>1 DEF OpenAt, Opens, n
    <3> QED
      BY <1>2, <1>4, <1>6, <2>3, <3>2
  <2> QED
    BY <1>5, <1>6, <2>1, <2>2, <2>3 DEF Opened
<1>7. ASSUME NEW q \in Proc, pc'[q] \in Opened, q # p => pc[q] \in Opened,
             info # None, info' = <<>>
      PROVE  broken' \/ Inserting' # {}
  <2>1. CASE pc'[p] = "insert"
    BY <1>2, <2>1
  <2>2. CASE pc[p] = "insert" /\ info' = Append(info, SchemaVersion)
    BY <1>4, <1>7, <2>2, AppendProperties, EmptySeq
  <2>3. CASE /\ pc'[p] # "insert" /\ info' = info /\ (pc'[p] \in Opened => pc[p] \in Opened)
             /\ broken => broken'
             /\ pc[p] = "insert" /\ info = <<>> => broken'
    <3>1. broken \/ Inserting # {}
      BY <1>0, <1>7, <2>3 DEF Opens, OpenAt
    <3>2. pc[p] # "insert" => Inserting' = Inserting
      BY <1>2, <2>3 DEF Inserting
    <3> QED
      BY <1>7, <2>3, <3>1, <3>2
  <2> QED
    BY <1>5, <1>7, <2>1, <2>2, <2>3
<1>8. ASSUME NEW q \in Proc, q # p
      PROVE  OpenAt(q)'
  <2>1. pc'[q] = pc[q] /\ OpenAt(q)
    BY <1>0, <1>8, OthersKeep DEF Opens
  <2>2. pc'[q] \in AfterInfo => info # None
    BY <2>1 DEF OpenAt
  <2>3. pc'[q] \in AfterDelete => /\ Range(info') \subseteq {SchemaVersion}
                                  /\ Len(info') + n2 <= Cardinality(Proc)
    BY <1>6, <2>1, <2>2 DEF AfterDelete, AfterAlter, AfterRest, AfterMessages, AfterInfo
  <2>4. pc'[q] \in Opened /\ info' = <<>> => broken' \/ Inserting' # {}
    BY <1>7, <2>1, <2>2 DEF AfterDelete, AfterAlter, AfterRest, AfterMessages, AfterInfo
  <2> QED
    BY <1>1, <2>1, <2>3, <2>4 DEF OpenAt, n2
<1>9. OpenAt(p)'
  <2>1. /\ pc'[p] \in AfterInfo => info' # None
        /\ pc'[p] \in AfterMessages => columns' # None
        /\ pc'[p] \in AfterRest => tables'
        /\ pc'[p] \in AfterAlter => columns' = "v2"
        /\ pc'[p] \in AfterDelete => info # None
    <3> USE DEF Goto, End, schema, TypeOK, OpenAt, Opened,
                AfterDelete, AfterAlter, AfterRest, AfterMessages, AfterInfo
    <3>1. CASE CreateInfo(p)
      <4>1. <<>> # None
        BY EmptySeq, DatabaseAssumption
      <4> QED
        BY <1>0, <3>1, <4>1 DEF CreateInfo
    <3>2. CASE CreateMessages(p)
      BY <1>0, <1>1, <3>2, DatabaseAssumption DEF CreateMessages
    <3>3. CASE CreateRest(p)
      BY <1>0, <1>1, <3>3 DEF CreateRest
    <3>4. CASE Probe(p)
      BY <1>0, <1>1, <3>4 DEF Probe, ProbeFor
    <3>5. CASE Alter(p)
      BY <1>0, <1>1, <3>5 DEF Alter
    <3>6. CASE Delete(p)
      BY <1>0, <1>1, <3>6 DEF Delete
    <3>7. CASE Insert(p)
      BY <1>0, <1>1, <3>7 DEF Insert, InsertVersion
    <3>8. CASE Start(p) \/ AlterRefused(p) \/ Use(p) \/ Nowhere(p) \/ Index(p) \/ Panic(p)
               \/ Fail(p)
      BY <1>0, <3>8 DEF Start, AlterRefused, Use, Nowhere, Index, IndexAs, Panic, Fail
    <3>9. CASE Fetch(p) \/ Skip(p)
      BY <1>0, <1>1, <3>9 DEF Fetch, FetchFrom, Skip
    <3> QED
      BY <3>1, <3>2, <3>3, <3>4, <3>5, <3>6, <3>7, <3>8, <3>9 DEF ProcStep, Go, Open
  <2>2. pc'[p] \in AfterDelete => /\ Range(info') \subseteq {SchemaVersion}
                                  /\ Len(info') + n2 <= Cardinality(Proc)
    BY <1>6, <2>1
  <2>3. pc'[p] \in Opened /\ info' = <<>> => broken' \/ Inserting' # {}
    BY <1>7, <2>1 DEF AfterDelete
  <2> QED
    BY <2>1, <2>2, <2>3 DEF OpenAt, n2
<1> QED
  BY <1>8, <1>9 DEF Opens

(* What an index step needs and does.                                      *)
LEMMA IndexStep ==
  ASSUME IInv, NEW p \in Proc, ProcStep(p)
  PROVE  /\ agents' \in [Did \cup {NoDid} -> Row \cup {None}]
         /\ IndexIsTrue'
<1>0. TypeOK /\ agents \in [Did \cup {NoDid} -> Row \cup {None}] /\ Described /\ IndexIsTrue
  BY DEF IInv
<1>1. told' = told
  BY DEF ProcStep, Go, Open, web, Start, CreateInfo, CreateMessages, CreateRest, Probe,
     ProbeFor, Alter, AlterRefused, Delete, Insert, InsertVersion, Use, Fetch, FetchFrom,
     Skip, Nowhere, Index, IndexAs, Panic, Fail
<1>2. CASE Index(p)
  <2> DEFINE row == [url |-> cmd[p].url, doc |-> cmd[p].doc]
  <2>1. row \in Row /\ row \in told /\ cmd[p].doc \in Doc
    BY <1>0, <1>2 DEF Index, TypeOK, Described, Row
  <2>2. cmd[p].doc.did \in Did \cup {NoDid} /\ row.doc = cmd[p].doc
    BY <2>1, DatabaseAssumption
  <2>3. agents' = [agents EXCEPT ![cmd[p].doc.did] = row]
    BY <1>2 DEF Index, IndexAs
  <2> HIDE DEF row
  <2>4. /\ agents'[cmd[p].doc.did] = row
        /\ \A d \in Did \cup {NoDid} : d # cmd[p].doc.did => agents'[d] = agents[d]
        /\ agents' \in [Did \cup {NoDid} -> Row \cup {None}]
    BY <1>0, <2>1, <2>2, <2>3
  <2> QED
    BY <1>0, <1>1, <2>1, <2>2, <2>4 DEF IndexIsTrue
<1>3. CASE UNCHANGED agents
  BY <1>0, <1>1, <1>3 DEF IndexIsTrue
<1> QED
  BY <1>2, <1>3 DEF ProcStep, Go, Open, Start, CreateInfo, CreateMessages, CreateRest,
     Probe, ProbeFor, Alter, AlterRefused, Delete, Insert, InsertVersion, Use, Fetch,
     FetchFrom, Skip, Nowhere, Panic, Fail

(* A command, and where a crawl's description comes from.                  *)
LEMMA CmdStep ==
  ASSUME IInv, NEW p \in Proc, ProcStep(p)
  PROVE  /\ cmd' \in [Proc -> Cmd] /\ pc' \in [Proc -> Statement \cup Opened \cup {"idle"}]
         /\ pc'[p] # "idle" => cmd'[p].op \in may.ops
         /\ pc'[p] = "index" => /\ [url |-> cmd'[p].url, doc |-> cmd'[p].doc] \in Row
                                /\ [url |-> cmd'[p].url, doc |-> cmd'[p].doc] \in told
<1>0. TypeOK /\ cmd \in [Proc -> Cmd] /\ Described /\ cmd[p] \in Cmd
  BY DEF IInv
<1> USE DEF Goto
<1>1. CASE \E from : End(p, from)
  BY <1>0, <1>1, NoCmdType DEF End, TypeOK
<1>2. CASE Start(p)
  <2>1. PICK op \in may.ops, u \in Url :
          cmd' = [cmd EXCEPT ![p] =
            [NoCmd EXCEPT !.op = op, !.left = IF op = "crawl" THEN Candidates(u) ELSE <<>>]]
    BY <1>2 DEF Start
  <2> DEFINE left == IF op = "crawl" THEN Candidates(u) ELSE <<>>
             c == [NoCmd EXCEPT !.op = op, !.left = left]
  <2>2. AdJson[u] \in Url
    BY DatabaseAssumption
  <2>3. Candidates(u) \in Seq(Url)
    BY <2>2 DEF Candidates
  <2>4. left \in Seq(Url)
    BY <2>3, EmptySeq
  <2>5. op \in {"doctor", "crawl"}
    BY <1>0, ScenarioType
  <2> HIDE DEF left
  <2>6. c \in Cmd /\ c.op = op
    BY <2>4, <2>5 DEF Cmd, NoCmd
  <2>7. cmd' = [cmd EXCEPT ![p] = c]
    BY <2>1 DEF left
  <2> HIDE DEF c
  <2>8. pc' = [pc EXCEPT ![p] = "info"]
    BY <1>2 DEF Start
  <2> QED
    BY <1>0, <2>6, <2>7, <2>8 DEF TypeOK, Statement
<1>3. CASE Fetch(p)
  <2> DEFINE u == Head(cmd[p].left)
  <2>1. /\ u \in Url /\ served[u] # None /\ pc[p] = "fetch"
        /\ cmd' = [cmd EXCEPT ![p].left = <<>>, ![p].url = u, ![p].doc = served[u]]
        /\ pc' = [pc EXCEPT ![p] = "index"]
    BY <1>3 DEF Fetch, FetchFrom
  <2> HIDE DEF u
  <2>2. served[u] \in Doc
    BY <1>0, <2>1 DEF TypeOK
  <2>3. [url |-> u, doc |-> served[u]] \in told
    BY <1>0, <2>1 DEF Described
  <2> DEFINE c == [cmd[p] EXCEPT !.left = <<>>, !.url = u, !.doc = served[u]]
  <2>4. c \in Cmd /\ c.op = cmd[p].op /\ c.url = u /\ c.doc = served[u]
    BY <1>0, <2>1, <2>2, EmptySeq DEF Cmd
  <2>5. cmd' = [cmd EXCEPT ![p] = c]
    BY <1>0, <2>1
  <2> HIDE DEF c
  <2>6. [url |-> u, doc |-> served[u]] \in Row
    BY <2>1, <2>2 DEF Row
  <2>7. cmd' \in [Proc -> Cmd] /\ cmd'[p] = c
    BY <1>0, <2>4, <2>5
  <2>8. /\ pc' \in [Proc -> Statement \cup Opened \cup {"idle"}]
        /\ cmd[p].op \in may.ops
    BY <1>0, <2>1 DEF TypeOK, Opened
  <2>9. cmd'[p].op = cmd[p].op /\ cmd'[p].url = u /\ cmd'[p].doc = served[u]
    BY <2>4, <2>7
  <2> QED
    BY <2>3, <2>6, <2>7, <2>8, <2>9
<1>4. CASE Skip(p)
  <2>1. /\ pc[p] = "fetch" /\ cmd[p].left # <<>> /\ pc' = pc
        /\ cmd' = [cmd EXCEPT ![p].left = Tail(cmd[p].left)]
    BY <1>4 DEF Skip
  <2>2. cmd[p].left \in Seq(Url)
    BY <1>0 DEF Cmd
  <2>3. Tail(cmd[p].left) \in Seq(Url)
    BY <2>1, <2>2, HeadTailProperties
  <2> DEFINE c == [cmd[p] EXCEPT !.left = Tail(cmd[p].left)]
  <2>4. c \in Cmd /\ c.op = cmd[p].op
    BY <1>0, <2>3 DEF Cmd
  <2>5. cmd' = [cmd EXCEPT ![p] = c]
    BY <1>0, <2>1
  <2> HIDE DEF c
  <2> QED
    BY <1>0, <2>1, <2>4, <2>5 DEF TypeOK
<1>5. CASE \/ CreateInfo(p) \/ CreateMessages(p) \/ CreateRest(p) \/ Probe(p) \/ Alter(p)
           \/ Delete(p) \/ Insert(p)
  BY <1>0, <1>5 DEF CreateInfo, CreateMessages, CreateRest, Probe, ProbeFor, Alter, Delete,
     Insert, InsertVersion, TypeOK, Statement, Opened
<1>6. CASE AlterRefused(p) \/ Use(p) \/ Nowhere(p) \/ Index(p) \/ Panic(p) \/ Fail(p)
  BY <1>1, <1>6 DEF AlterRefused, Use, Nowhere, Index, IndexAs, Panic, Fail
<1> QED
  BY <1>2, <1>3, <1>4, <1>5, <1>6 DEF ProcStep, Go, Open

(* The rest of the types.                                                  *)
LEMMA SchemaType ==
  ASSUME IInv, NEW p \in Proc, ProcStep(p)
  PROVE  /\ info' # None => info' \in Seq({1, SchemaVersion})
         /\ columns' \in {None, "v1", "v2"}
         /\ tables' \in BOOLEAN /\ broken' \in BOOLEAN
         /\ may' = may /\ faults' \in 0..may.faults
         /\ UNCHANGED <<served, told>>
<1>0. TypeOK
  BY DEF IInv
<1> USE DEF schema, web
<1>1. CASE Insert(p)
  <2>1. PICK s \in Seq({1, SchemaVersion}) : info' = Append(s, SchemaVersion)
    <3>1. info # None
      BY <1>1 DEF IInv, Opens, OpenAt, Insert, InsertVersion, Goto, AfterInfo, AfterMessages,
         AfterRest, AfterAlter, AfterDelete
    <3> QED
      BY <1>0, <1>1, <3>1 DEF TypeOK, Insert, InsertVersion
  <2>2. info' \in Seq({1, SchemaVersion})
    BY <2>1, AppendProperties
  <2> QED
    BY <1>0, <1>1, <2>2 DEF TypeOK, Insert, InsertVersion
<1>2. CASE CreateInfo(p) \/ Delete(p)
  <2>1. <<>> \in Seq({1, SchemaVersion})
    BY EmptySeq
  <2> QED
    BY <1>0, <1>2, <2>1 DEF CreateInfo, Delete, TypeOK
<1>3. CASE CreateMessages(p) \/ CreateRest(p) \/ Probe(p) \/ Alter(p) \/ AlterRefused(p)
  BY <1>0, <1>3 DEF CreateMessages, CreateRest, Probe, ProbeFor, Alter, AlterRefused, TypeOK
<1>4. CASE Start(p) \/ Use(p) \/ Fetch(p) \/ Nowhere(p) \/ Index(p) \/ Panic(p)
  BY <1>0, <1>4 DEF Start, Use, Fetch, FetchFrom, Nowhere, Index, IndexAs, Panic, TypeOK
<1>5. CASE Skip(p) \/ Fail(p)
  <2>1. UNCHANGED <<info, columns, tables, may, served, told>>
        /\ (faults' = faults \/ (faults < may.faults /\ faults' = faults + 1))
    BY <1>5 DEF Skip, Fail
  <2>2. broken' \in BOOLEAN
    BY <1>0, <1>5 DEF Skip, Fail, TypeOK
  <2>3. faults' \in 0..may.faults
    BY <1>0, <2>1, ScenarioType DEF TypeOK
  <2> QED
    BY <1>0, <2>1, <2>2, <2>3 DEF TypeOK
<1> QED
  BY <1>1, <1>2, <1>3, <1>4, <1>5 DEF ProcStep, Go, Open

(* A process's step keeps the invariant.                                 *)
LEMMA ProcStepIInv ==
  ASSUME IInv, NEW p \in Proc, ProcStep(p)
  PROVE  IInv'
<1>0. TypeOK /\ cmd \in [Proc -> Cmd] /\ Described
  BY DEF IInv
<1>1. \A q \in Proc : q # p => pc'[q] = pc[q] /\ cmd'[q] = cmd[q]
  BY <1>0, OthersKeep
<1>2. may' = may /\ UNCHANGED <<served, told>>
  BY SchemaType
<1>3. \A q \in Proc : pc'[q] # "idle" => cmd'[q].op \in may'.ops
  BY <1>0, <1>1, <1>2, CmdStep DEF TypeOK
<1>4. \A q \in Proc : pc'[q] = "index" =>
         /\ [url |-> cmd'[q].url, doc |-> cmd'[q].doc] \in Row
         /\ [url |-> cmd'[q].url, doc |-> cmd'[q].doc] \in told
  BY <1>0, <1>1, CmdStep DEF TypeOK, Described
<1>5. TypeOK'
  BY <1>0, <1>2, <1>3, <1>4, SchemaType, CmdStep, IndexStep DEF TypeOK
<1>6. Described'
  BY <1>0, <1>2, <1>4 DEF Described
<1> QED
  BY <1>5, <1>6, CmdStep, IndexStep, OpenStep DEF IInv

(* Publishing adds to what was ever described.                             *)
LEMMA PublishIInv ==
  ASSUME IInv, Publish
  PROVE  IInv'
<1>0. TypeOK /\ Described /\ IndexIsTrue
  BY DEF IInv
<1>1. /\ UNCHANGED <<may, info, columns, tables, agents, pc, cmd, broken, faults>>
      /\ \E u \in Url, d \in Doc \cup {None} :
           /\ served' = [served EXCEPT ![u] = d]
           /\ told' = IF d = None THEN told ELSE told \cup {[url |-> u, doc |-> d]}
  BY DEF Publish, schema
<1>2. PICK u \in Url, d \in Doc \cup {None} :
        /\ served' = [served EXCEPT ![u] = d]
        /\ told' = IF d = None THEN told ELSE told \cup {[url |-> u, doc |-> d]}
  BY <1>1
<1>3. /\ served' \in [Url -> Doc \cup {None}] /\ served'[u] = d
      /\ \A v \in Url : v # u => served'[v] = served[v]
  BY <1>0, <1>2 DEF TypeOK
<1>4. told \subseteq told' /\ told' \subseteq Row
  BY <1>0, <1>2 DEF TypeOK, Row
<1>5. \A v \in Url : served'[v] # None => [url |-> v, doc |-> served'[v]] \in told'
  BY <1>0, <1>2, <1>3, <1>4 DEF Described
<1>6. TypeOK'
  BY <1>0, <1>1, <1>3, <1>4 DEF TypeOK
<1>7. Described' /\ IndexIsTrue'
  BY <1>0, <1>1, <1>4, <1>5 DEF Described, IndexIsTrue
<1>8. Opens'
  BY <1>1 DEF IInv, Opens, OpenAt, Inserting
<1> QED
  BY <1>1, <1>6, <1>7, <1>8 DEF IInv

(* The invariant holds of every state.                                   *)
THEOREM InductiveInvariant == Spec => []IInv
<1>1. ASSUME Init PROVE IInv
  <2>1. /\ may \in Scenario /\ may.left \in {"absent", "v1", "v2"} /\ may.faults \in Nat
    BY <1>1, DatabaseAssumption DEF Init
  <2>2. <<1>> \in Seq({1, SchemaVersion}) /\ <<2>> \in Seq({1, SchemaVersion})
    BY DEF SchemaVersion
  <2>3. info # None => info \in Seq({1, SchemaVersion})
    BY <1>1, <2>1, <2>2 DEF Init
  <2>4. TypeOK
    <3>1. columns \in {None, "v1", "v2"}
      BY <1>1, <2>1 DEF Init
    <3>2. tables \in BOOLEAN
      BY <1>1 DEF Init
    <3>3. faults \in 0..may.faults
      BY <1>1, <2>1 DEF Init
    <3>4. /\ served \in [Url -> Doc \cup {None}]
          /\ pc \in [Proc -> Statement \cup Opened \cup {"idle"}]
      BY <1>1 DEF Init
    <3>5. /\ told \subseteq Row /\ broken \in BOOLEAN
          /\ \A d \in Did \cup {NoDid} : agents[d] = None
          /\ \A p \in Proc : pc[p] = "idle"
      BY <1>1 DEF Init
    <3> QED
      BY <2>1, <2>3, <3>1, <3>2, <3>3, <3>4, <3>5 DEF TypeOK
  <2>5. Opens
    BY <1>1 DEF Init, Opens, OpenAt, Opened, AfterInfo, AfterMessages, AfterRest, AfterAlter,
       AfterDelete
  <2> QED
    BY <1>1, <2>4, <2>5, NoCmdType DEF Init, IInv, Described, IndexIsTrue
<1>2. IInv /\ [Next]_vars => IInv'
  <2> SUFFICES ASSUME IInv, [Next]_vars PROVE IInv'
    OBVIOUS
  <2>1. CASE UNCHANGED vars
    BY <2>1 DEF vars, schema, web, IInv, TypeOK, Opens, OpenAt, Inserting, Described,
       IndexIsTrue
  <2> QED
    BY <2>1, PublishIInv, ProcStepIInv DEF Next, ProcStep
<1> QED
  BY <1>1, <1>2, PTL DEF Spec

(* The types, for any processes, URLs and documents.                     *)
THEOREM TypeCorrect == Spec => []TypeOK
<1>1. IInv => TypeOK
  BY DEF IInv
<1> QED
  BY <1>1, InductiveInvariant, PTL

(* open.go 53-156: whoever is given an open database has its tables, its *)
(* column and, unless somebody is between DELETE and INSERT or has       *)
(* failed there, its version; with at most one row of it per process.    *)
(* For any number of processes that create or migrate the file at once   *)
(* and die anywhere.                                                     *)
THEOREM OpenDatabasesAreCurrent == Spec => []OpenedIsCurrent
<1>1. ASSUME IInv PROVE OpenedIsCurrent
  <2> SUFFICES ASSUME NEW p \in Proc, pc[p] \in Opened
               PROVE  /\ info # None /\ columns = "v2" /\ tables
                      /\ Range(info) \subseteq {SchemaVersion}
                      /\ Len(info) <= Cardinality(Proc)
                      /\ info = <<>> => broken \/ \E q \in Proc : pc[q] = "insert"
    BY DEF OpenedIsCurrent
  <2>1. OpenAt(p)
    BY <1>1 DEF IInv, Opens
  <2>2. /\ info # None /\ columns = "v2" /\ tables /\ Range(info) \subseteq {SchemaVersion}
        /\ Len(info) + Cardinality(Inserting) <= Cardinality(Proc)
        /\ info = <<>> => broken \/ Inserting # {}
    BY <2>1 DEF OpenAt, AfterInfo, AfterMessages, AfterRest, AfterAlter, AfterDelete
  <2>3. Inserting \in SUBSET Proc /\ IsFiniteSet(Proc)
    BY DatabaseAssumption DEF Inserting
  <2>4. Cardinality(Inserting) \in Nat /\ Cardinality(Proc) \in Nat
    BY <2>3, FS_Subset, FS_CardinalityType
  <2>5. Len(info) \in Nat
    BY <1>1, <2>2, LenProperties DEF IInv, TypeOK
  <2>6. Len(info) <= Cardinality(Proc)
    BY <2>2, <2>4, <2>5
  <2> QED
    BY <2>2, <2>6 DEF Inserting
<1> QED
  BY <1>1, InductiveInvariant, PTL

(* discovery/service.go 29-95, dao.go 218-232: an agent of the index was *)
(* described at its row's URL under its row's DID, however crawls        *)
(* overlap and descriptions change.                                      *)
THEOREM IndexedAgentsWereDescribed == Spec => []IndexIsTrue
<1>1. IInv => IndexIsTrue
  BY DEF IInv
<1> QED
  BY <1>1, InductiveInvariant, PTL
=============================================================================
