----------------------------- MODULE MCDatabase -----------------------------
EXTENDS Database
CONSTANTS u1, u2, d1
\* u2 is u1/ad.json.
MCAdJson == [u \in Url |-> u2]
MCDoc == {[did |-> d1, listed |-> TRUE], [did |-> d1, listed |-> FALSE],
          [did |-> NoDid, listed |-> TRUE]}
MCScenario == [left : {"absent", "v1", "v2"}, ops : {{"doctor"}}, faults : {2}]
              \cup [left : {"v2"}, ops : {{"crawl"}}, faults : {1}]
=============================================================================
