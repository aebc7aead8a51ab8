---------------------------- MODULE PeriodLog ----------------------------
(***************************************************************************)
(* What honas-gather promises its users, without processes, files, starts  *)
(* and stops: lookups are collected in one open period at a time; a period *)
(* is sealed and then published, once, with everything collected in it;    *)
(* periods end in the order in which they were opened.                     *)
(***************************************************************************)
EXTENDS Naturals

VARIABLES
  open,      \* the period being filled: at most one
  sealed,    \* finished periods that are not yet published
  log,       \* published periods
  next,      \* the next lookup
  harmed     \* what faults may have destroyed: "open", "sealed"

vars == <<open, sealed, log, next, harmed>>

Periods == [end : Nat, lookups : SUBSET Nat]

\* A period that may be opened once the periods in ps are over.
Fresh(p, ps) == p.lookups = {} /\ \A q \in ps : q.end < p.end

Init ==
  /\ open = {}
  /\ sealed = {}
  /\ log = {}
  /\ next = 1
  /\ harmed = {}

Register ==
  /\ \E p \in open : open' = {[p EXCEPT !.lookups = @ \cup {next}]}
  /\ next' = next + 1
  /\ UNCHANGED <<sealed, log, harmed>>

\* After a fault had destroyed the open period, or at the very first start.
Open ==
  /\ open = {}
  /\ \E p \in open' : open' = {p} /\ Fresh(p, sealed \cup log)
  /\ UNCHANGED <<sealed, log, next, harmed>>

\* The open period is over; the next one may be opened at the same time.
Seal ==
  /\ open # {}
  /\ sealed' = sealed \cup open
  /\ \/ open' = {}
     \/ \E p \in open' : open' = {p} /\ Fresh(p, sealed \cup log \cup open)
  /\ UNCHANGED <<log, next, harmed>>

Publish ==
  /\ \E p \in sealed : sealed' = sealed \ {p} /\ log' = log \cup {p}
  /\ UNCHANGED <<open, next, harmed>>

\* A fault: the open period is gone, or some of those that are not published
\* yet, but only if faults of a kind that may destroy them have struck.
Lose ==
  /\ harmed \subseteq harmed'
  /\ open' = open \/ (open' = {} /\ "open" \in harmed')
  /\ sealed' = sealed \/ (sealed' \subseteq sealed /\ "sealed" \in harmed')
  /\ UNCHANGED <<log, next>>

Next == Register \/ Open \/ Seal \/ Publish \/ Lose

Spec == Init /\ [][Next]_vars

\* Every sealed period is published in the end.
FairSpec == Spec /\ WF_vars(Publish)

=============================================================================
