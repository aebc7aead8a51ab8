------------------------------- MODULE DryRun -------------------------------
(***************************************************************************)
(* The dry run of honas-gather: two hyperloglogs count the distinct names  *)
(* of the running hour and day, two timers take their estimates and start  *)
(* them anew, and the largest estimates become the advice on the size of   *)
(* Bloom filters.                                                          *)
(*                                                                         *)
(* The timers run from the start of the process; advice is also given at   *)
(* the midnight of UTC, by the hourly timer.  The formulas of advice.c and *)
(* the log are left out: advice is a function of the two maxima.           *)
(***************************************************************************)
EXTENDS HyperLogLog

CONSTANTS
  Estimate(_),    \* hllCount(): the estimate that belongs to a histogram
  Lookups,        \* lookups: the hashes they add, and whether they ask for PTR
  HoursPerDay,    \* 24
  MaxHours,       \* bound: hours the process runs
  MaxQueries      \* bound: total queries of a day

ASSUME DryRunAssumption ==
  /\ Lookups \subseteq [hashes : SUBSET Hashes, ptr : BOOLEAN]
  /\ HoursPerDay \in Nat \ {0, 1}
  /\ MaxHours \in Nat
  /\ MaxQueries \in Nat

Periods == {"hourly", "daily"}

VARIABLES
  dryPc,      \* "off": no dry run; "start"; "measuring"; "unlogged"; "stopped"; "dead"
  global,     \* hourly_global and daily_global
  total,      \* hourly_total_queries and daily_total_queries
  maximum,    \* hourly_maximum and daily_maximum
  due,        \* timers that have expired and whose handler is still to run
  hours,      \* hours since the start
  startHour,  \* the hour of the day, in UTC, at the start
  current,    \* history: registers of what was looked up in the running periods
  finished    \* history: the largest estimate that a finished period should have had

dryVars == <<dryPc, global, total, maximum, due, hours, startHour, current, finished>>

\* A structure that was only zeroed: the dense encoding without registers.
Zeroed == [hllInitFromBuffer(NoBits) EXCEPT !.card = hllInit.card]

DryInit ==
  /\ dryPc \in {"off", "start"}
  /\ global = [p \in Periods |-> Zeroed]
  /\ total = [p \in Periods |-> 0]
  /\ maximum = [p \in Periods |-> 0]
  /\ due = {}
  /\ hours = 0
  /\ startHour \in 0..(HoursPerDay - 1)
  /\ current = [p \in Periods |-> NoRegs]
  /\ finished = [p \in Periods |-> 0]

init_dry_run_dumps ==
  /\ dryPc = "start"
  /\ dryPc' = "measuring"
  /\ global' = [p \in Periods |-> hllInit]
  /\ UNCHANGED <<total, maximum, due, hours, startHour, current, finished>>

\* The log cannot be opened: no timers and no hyperloglogs, but the process goes on.
OpenLogFails ==
  /\ dryPc = "start"
  /\ dryPc' = "unlogged"
  /\ UNCHANGED <<global, total, maximum, due, hours, startHour, current, finished>>

\* Then the next lookup adds to registers that are a null pointer, and the advice
\* at the end prints to a file that is one.
NullPointer ==
  /\ dryPc = "unlogged"
  /\ dryPc' = "dead"
  /\ UNCHANGED <<global, total, maximum, due, hours, startHour, current, finished>>

\* honas_state_register_host_name_lookup(): the name, its labels and its SLD.TLD;
\* queries for PTR are not counted.
Lookup(l) ==
  LET hashes == SetToSeq(l.hashes)
  IN  /\ dryPc = "measuring"
      /\ total["daily"] < MaxQueries
      /\ global' = [p \in Periods |-> hllAddAll(global[p], hashes)]
      /\ total' = IF l.ptr THEN total ELSE [p \in Periods |-> total[p] + 1]
      /\ current' = [p \in Periods |-> ExactAddAll(current[p], hashes)]
      /\ UNCHANGED <<dryPc, maximum, due, hours, startHour, finished>>

\* An hour passes; the handlers of an hour ago have run.
Tick ==
  /\ dryPc = "measuring"
  /\ due = {}
  /\ hours < MaxHours
  /\ hours' = hours + 1
  /\ due' = {"hourly"} \cup (IF hours' % HoursPerDay = 0 THEN {"daily"} ELSE {})
  /\ UNCHANGED <<dryPc, global, total, maximum, startHour, current, finished>>

Counted(h) == Estimate(hllCount(h).card[1])

\* dry_run_advice(): the maxima, with what the running periods have so far.
Advised(max, gl) == [p \in Periods |-> Larger(max[p], Counted(gl[p]))]

Midnight == (startHour + hours) % HoursPerDay = 0

\* As it would be if the structure were started anew before it is counted.
RestartedFirst(p, gl) ==
  /\ due' = due \ {p}
  /\ global' = [gl EXCEPT ![p] = hllInit]
  /\ maximum' = [maximum EXCEPT ![p] = Larger(@, Counted(global'[p]))]

\* Both handlers: the estimate, its maximum, and a new structure.  At midnight
\* the hourly one gives advice with what it leaves.
Restarted(p, gl) ==
  LET new == [gl EXCEPT ![p] = hllInit]
      max == [maximum EXCEPT ![p] = Larger(@, Counted(gl[p]))]
  IN  /\ due' = due \ {p}
      /\ IF p = "hourly" /\ Midnight
         THEN /\ maximum' = Advised(max, new)
              /\ global' = [q \in Periods |-> hllCount(new[q])]
         ELSE /\ maximum' = max
              /\ global' = new

Expected(regs) == Estimate(Histogram(regs))

\* dry_run_hourly_event(), dry_run_daily_event()
TimerEvent(p) ==
  /\ dryPc = "measuring"
  /\ p \in due
  /\ Restarted(p, global)
  /\ total' = [total EXCEPT ![p] = 0]
  /\ finished' = [finished EXCEPT ![p] = Larger(@, Expected(current[p]))]
  /\ current' = [current EXCEPT ![p] = NoRegs]
  /\ UNCHANGED <<dryPc, hours, startHour>>

\* main(), after the event loop: advice, then the structures are freed.
Stop ==
  /\ dryPc = "measuring"
  /\ dryPc' = "stopped"
  /\ maximum' = Advised(maximum, global)
  /\ global' = [p \in Periods |-> Zeroed]
  /\ due' = {}
  /\ UNCHANGED <<total, hours, startHour, current, finished>>

DryNext ==
  \/ init_dry_run_dumps
  \/ OpenLogFails
  \/ NullPointer
  \/ \E l \in Lookups : Lookup(l)
  \/ Tick
  \/ \E p \in Periods : TimerEvent(p)
  \/ Stop

DrySpec == DryInit /\ [][DryNext]_dryVars

----------------------------------------------------------------------------
(* Properties.                                                             *)

\* The advice is based on the largest number of names of any hour and of any day:
\* no period is left out or counted into the next one, in whatever order the
\* timers of the same moment run and wherever midnight falls, an advice given
\* in the middle of a day only anticipates that day's count, and at the end the
\* running periods count too.  For an estimate that no name makes smaller:
\* hllCount() has a small step down where it leaves LINEARCOUNTING, and advice
\* given just before it may be above the count of the finished day.
MaximaRight ==
  \A p \in Periods :
    LET running == Larger(finished[p], Expected(current[p]))
    IN  /\ maximum[p] \in finished[p]..running
        /\ dryPc = "stopped" => maximum[p] = running

=============================================================================
