------------------------- MODULE MCSecureMessaging -------------------------
EXTENDS SecureMessaging, TLC
CONSTANTS a1, a2, l1
Of(a) == l1 :> a
\* Anything fails; only what a sync can do again fails; both write first, and
\* nothing fails; services are stopped.
MCScenario ==
  {[first |-> {a1}, fail |-> Step, die |-> {"encrypt", "ack", "row"}, service |-> {},
    home |-> Of(a2)],
   [first |-> {a1, a2}, fail |-> {}, die |-> {}, service |-> {}, home |-> Of(a2)],
   [first |-> {a1}, fail |-> {}, die |-> {}, service |-> {l1}, home |-> Of(a2)]}
  \cup {[first |-> {a1}, fail |-> {"fetch", "rows"}, die |-> {"fetch", "rows", "wait"},
         service |-> {}, home |-> Of(a)] : a \in {a1, a2}}
MCStopped ==
  {[first |-> {a1}, fail |-> {}, die |-> {}, service |-> {l1}, home |-> Of(a2)]}
=============================================================================
