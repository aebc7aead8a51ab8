------------------------- MODULE GatherLifecycle -------------------------
(***************************************************************************)
(* The life of the honas-gather process (src/src/bin/honas_gather.c) and   *)
(* of the states it fills: start-up from a left-over active_state file,    *)
(* registration of lookups, rotation at the end of a period with a forked  *)
(* child that saves the finished state, reload of the configuration, clean *)
(* shutdown, and the failures that can hit each of these steps.            *)
(*                                                                         *)
(* A lookup is a number handed out in the order of registration; what a    *)
(* state does with it is modelled in HonasState.  The clock is the one     *)
(* time(NULL) reads and never runs backwards.                              *)
(***************************************************************************)
EXTENDS Naturals, FiniteSets

CONSTANTS
  Dirs,        \* directories bloomfilter_path may name
  Lengths,     \* values of period_length that pass the check `value > 0`
  Faults,      \* kinds of fault that may happen
  Chunks,      \* write(2) calls it takes to write a state file
  MaxTime,     \* bound on the clock
  MaxLookups,  \* bound on the registered lookups
  MaxStarts,   \* bound on the number of times the process is started
  MaxFaults    \* bound on the number of kinds of fault in one behaviour

\* The first five come from outside.  The last two are ways in which the
\* program itself ends in the event loop without saving its state: a query
\* whose client has no address, and a dry run whose log cannot be opened.
FaultKinds == {"kill", "power", "save", "unlink", "bind", "address", "dryrun"}

\* The kinds that can reach a save under way, or the removal of a loaded file.
SaveFaults == {"power", "save", "unlink"}

ASSUME LifecycleAssumption ==
  /\ Dirs # {}
  /\ Lengths \subseteq Nat \ {0}
  /\ Lengths # {}
  /\ Faults \subseteq FaultKinds
  /\ Chunks \in Nat \ {0}
  /\ MaxTime \in Nat
  /\ MaxLookups \in Nat
  /\ MaxStarts \in Nat
  /\ MaxFaults \in Nat

VARIABLES
  clock,    \* the time
  pc,       \* where the process is
  cfg,      \* `config`: the configuration in effect; cfg.dir is the cwd
  mem,      \* `current_active_state`, meaningful while HasState
  savers,   \* executions of honas_state_persist under way
  entries,  \* directory entries: the complete files other programs can open
  next,     \* the next lookup to be registered
  stop,     \* event_base_loopexit() has been called by shutdown_handler()
  starts,   \* number of starts
  faults    \* kinds of fault that have happened

vars == <<clock, pc, cfg, mem, savers, entries, next, stop, starts, faults>>

(***************************************************************************)
(* active_state_file_name; 0 is never the end of a period, so the files of *)
(* finished periods are named by the number that strftime() formats.       *)
(***************************************************************************)
ActiveName == 0

\* What `config` may hold, and what it holds before it is read.
Confs    == [dir : Dirs, len : Lengths]
NoConfig == [dir |-> CHOOSE d \in Dirs : TRUE, len |-> 0]

States == [begin : Nat, end : Nat, lookups : SUBSET Nat]
Savers == [dir : Dirs, name : Nat, st : States, written : 0..Chunks, child : BOOLEAN]
Entries == [dir : Dirs, name : Nat, st : States, size : 0..Chunks]

\* A destroyed state: honas_state_destroy() leaves no header and no data.
Destroyed == [begin |-> 0, end |-> 0, lookups |-> {}]

PCs == {"down", "configured", "loaded", "checking", "binding", "running", "closing"}

HasState == pc \in {"loaded", "checking", "binding", "running"}

Exists(dir, name) == \E f \in entries : f.dir = dir /\ f.name = name

(***************************************************************************)
(* One kind of state per directory entry is enough for the properties:     *)
(* finished periods and the state left behind by a clean shutdown.         *)
(***************************************************************************)
PeriodFiles == {f \in entries : f.name # ActiveName}
ActiveFiles == {f \in entries : f.name = ActiveName}

Init ==
  /\ clock = 0
  /\ pc = "down"
  /\ cfg = NoConfig
  /\ mem = Destroyed
  /\ savers = {}
  /\ entries = {}
  /\ next = 1
  /\ stop = FALSE
  /\ starts = 0
  /\ faults = {}

----------------------------------------------------------------------------
(***************************************************************************)
(* Creating, finishing and saving a state.                                 *)
(***************************************************************************)

\* Mutant: the end of the period that has just begun is not moved forward.
PeriodEndStuck(begin, len) == begin - (begin % len)

\* create_state(): the period ends on the next multiple of its length.
PeriodEnd(begin, len) == begin - (begin % len) + len

\* create_state()
create_state(len, begin) ==
  [begin |-> begin, end |-> PeriodEnd(begin, len), lookups |-> {}]

\* Mutant: the timer handler rotates up to two ticks early.
ExpiredEarly == mem.end <= clock + 2

\* recheck_handler(): wait = period_end - now <= 0
Expired == mem.end <= clock

\* honas_state_persist() before its first write: blocking in this process,
\* or in a forked child.  The child keeps the cwd; it shares the mapping of the
\* state with its parent, which unmaps it before it does anything else.
Saver(name, child) ==
  [dir |-> cfg.dir, name |-> name, st |-> mem, written |-> 0, child |-> child]

\* Mutant: the name of the finished state is the begin of its period.
finalize_state_begin == savers' = savers \cup {Saver(mem.begin, TRUE)}

\* finalize_state(): the file is named after the end of the period.
finalize_state == savers' = savers \cup {Saver(mem.end, TRUE)}

\* A fault of kind k happens.
Fault(k) ==
  /\ k \in Faults
  /\ faults' = faults \cup {k}
  /\ Cardinality(faults') <= MaxFaults

\* What is left of a process that exits or is killed.
Exit ==
  /\ pc' = "down"
  /\ mem' = Destroyed
  /\ cfg' = NoConfig
  /\ stop' = FALSE

\* Mutant: the write loop is left after the first write.
FullyWrittenShort(s) == s.written >= 1

\* total_written reaches state->size: the loop around write(2) ends.
FullyWritten(s) == s.written = Chunks

\* Mutant: a write that does not advance total_written.
PersistWriteStuck(s) ==
  /\ ~FullyWritten(s)
  /\ savers' = savers
  /\ UNCHANGED <<clock, pc, cfg, mem, entries, next, stop, starts, faults>>

\* One write(2) into the unnamed O_TMPFILE.
PersistWrite(s) ==
  /\ ~FullyWritten(s)
  /\ savers' = (savers \ {s}) \cup {[s EXCEPT !.written = @ + 1]}
  /\ UNCHANGED <<clock, pc, cfg, mem, entries, next, stop, starts, faults>>

\* The process that was saving ends: the child always, this one on shutdown.
SaverEnds(s) ==
  /\ savers' = savers \ {s}
  /\ IF s.child THEN UNCHANGED <<pc, cfg, mem, stop>> ELSE Exit

Entry(s) == [dir |-> s.dir, name |-> s.name, st |-> s.st, size |-> s.written]

\* Mutant: the file is given its name with rename(2), which replaces.
PersistRename(s) ==
  /\ FullyWritten(s)
  /\ entries' = {f \in entries : f.dir # s.dir \/ f.name # s.name} \cup {Entry(s)}
  /\ SaverEnds(s)
  /\ UNCHANGED <<clock, next, starts, faults>>

\* linkat() gives the complete file its name.
PersistLink(s) ==
  /\ FullyWritten(s)
  /\ ~Exists(s.dir, s.name)
  /\ entries' = entries \cup {Entry(s)}
  /\ SaverEnds(s)
  /\ UNCHANGED <<clock, next, starts, faults>>

\* linkat() fails with EEXIST: log_passert() ends the saving process.
PersistExists(s) ==
  /\ FullyWritten(s)
  /\ Exists(s.dir, s.name)
  /\ SaverEnds(s)
  /\ UNCHANGED <<clock, entries, next, starts, faults>>

----------------------------------------------------------------------------
(***************************************************************************)
(* recheck_handler(): run once at start-up and then by the minute timer.   *)
(* An expired state is handed to a child, the configuration is read again  *)
(* and a new state begins.  A configuration that cannot be read ends the   *)
(* process, after the finished state was handed over.                      *)
(***************************************************************************)
\* load_gather_config() and create_state(): any configuration the operator may
\* have written by now.
NewPeriod(after) ==
  /\ \E c \in Confs : cfg' = c /\ mem' = create_state(c.len, clock)
  /\ pc' = after
  /\ UNCHANGED stop

\* Mutant: the configuration is read before the finished state is saved.
RotateReloadFirst(after) ==
  /\ Expired
  /\ \/ Exit /\ UNCHANGED savers
     \/ NewPeriod(after) /\ finalize_state
  /\ UNCHANGED <<clock, entries, next, starts, faults>>

Rotate(after) ==
  /\ Expired
  /\ finalize_state
  /\ Exit \/ NewPeriod(after)
  /\ UNCHANGED <<clock, entries, next, starts, faults>>

\* The timer fires in the event loop; before the period's end it does nothing.
recheck_handler ==
  /\ pc = "running"
  /\ Rotate("running")

----------------------------------------------------------------------------
(***************************************************************************)
(* main() up to the event loop.                                            *)
(***************************************************************************)

\* Signal handlers, honas_gather_config_init/load/finalize.  A configuration
\* that is rejected ends the process before it touched anything.
Start ==
  /\ pc = "down"
  /\ starts < MaxStarts
  /\ starts' = starts + 1
  /\ cfg' \in Confs
  /\ pc' = "configured"
  /\ UNCHANGED <<clock, mem, savers, entries, next, stop, faults>>

\* try_open_active_state() finds no file: a new state is created.
CreateAtStart ==
  /\ pc = "configured"
  /\ ~Exists(cfg.dir, ActiveName)
  /\ mem' = create_state(cfg.len, clock)
  /\ pc' = "checking"
  /\ UNCHANGED <<clock, cfg, savers, entries, next, stop, starts, faults>>

\* try_open_active_state() loads the file; a truncated file ends the process.
LoadActiveState ==
  /\ pc = "configured"
  /\ \E f \in ActiveFiles :
       /\ f.dir = cfg.dir
       /\ IF f.size = Chunks
          THEN mem' = f.st /\ pc' = "loaded" /\ UNCHANGED <<cfg, stop>>
          ELSE Exit
  /\ UNCHANGED <<clock, savers, entries, next, starts, faults>>

\* Mutant: the loaded file is left in place.
UnlinkActiveStateSkipped ==
  /\ pc = "loaded"
  /\ pc' = "checking"
  /\ UNCHANGED <<clock, cfg, mem, savers, entries, next, stop, starts, faults>>

\* try_open_active_state() removes the file it has loaded.
UnlinkActiveState ==
  /\ pc = "loaded"
  /\ entries' = {f \in entries : f.dir # cfg.dir \/ f.name # ActiveName}
  /\ pc' = "checking"
  /\ UNCHANGED <<clock, cfg, mem, savers, next, stop, starts, faults>>

\* The unlink fails, which is only logged.
UnlinkFails ==
  /\ pc = "loaded"
  /\ Fault("unlink")
  /\ pc' = "checking"
  /\ UNCHANGED <<clock, cfg, mem, savers, entries, next, stop, starts>>

\* The call of recheck_handler() in main(), for an expired loaded state ...
StartupRotate ==
  /\ pc = "checking"
  /\ Rotate("binding")

\* ... and for one that has not expired.
StartupKeep ==
  /\ pc = "checking"
  /\ ~Expired
  /\ pc' = "binding"
  /\ UNCHANGED <<clock, cfg, mem, savers, entries, next, stop, starts, faults>>

\* init_dnstap_input() and the rest of main() before event_base_dispatch().
init_dnstap_input ==
  /\ pc = "binding"
  /\ pc' = "running"
  /\ UNCHANGED <<clock, cfg, mem, savers, entries, next, stop, starts, faults>>

\* init_dnstap_input() fails: main() returns without close_state().
BindFails ==
  /\ pc = "binding"
  /\ Fault("bind")
  /\ Exit
  /\ UNCHANGED <<clock, savers, entries, next, starts>>

----------------------------------------------------------------------------
(***************************************************************************)
(* The event loop and the clean shutdown.                                  *)
(***************************************************************************)

\* decode_dnstap_message() registers a lookup in current_active_state.
RegisterLookup ==
  /\ pc = "running"
  /\ next <= MaxLookups
  /\ mem' = [mem EXCEPT !.lookups = @ \cup {next}]
  /\ next' = next + 1
  /\ UNCHANGED <<clock, pc, cfg, savers, entries, stop, starts, faults>>

\* A query to be registered came without an address of 4 or 16 bytes:
\* honas_state_register_host_name_lookup() ends the process with log_die(), and
\* close_state() is not reached.
RegisterDies ==
  /\ pc = "running"
  /\ Fault("address")
  /\ Exit
  /\ UNCHANGED <<clock, savers, entries, next, starts>>

\* A dry run without a log follows a null pointer: at the first lookup, which
\* adds to hyperloglogs that were never initialised, or in dry_run_advice(),
\* which main() calls before close_state().
DryRunDies ==
  /\ pc = "running"
  /\ Fault("dryrun")
  /\ Exit
  /\ UNCHANGED <<clock, savers, entries, next, starts>>

\* shutdown_handler(): before ev_base exists the signal has no effect.
shutdown_handler ==
  /\ pc = "running"
  /\ ~stop
  /\ stop' = TRUE
  /\ UNCHANGED <<clock, pc, cfg, mem, savers, entries, next, starts, faults>>

\* Mutant: the process leaves the loop and exits without saving.
close_state_skipped ==
  /\ pc = "running"
  /\ stop
  /\ Exit
  /\ UNCHANGED <<clock, savers, entries, next, starts, faults>>

\* event_base_dispatch() returns and close_state() saves to active_state.
close_state ==
  /\ pc = "running"
  /\ stop
  /\ pc' = "closing"
  /\ savers' = savers \cup {Saver(ActiveName, FALSE)}
  /\ mem' = Destroyed
  /\ stop' = FALSE
  /\ UNCHANGED <<clock, cfg, entries, next, starts, faults>>

----------------------------------------------------------------------------
(***************************************************************************)
(* The environment: time and faults.                                       *)
(***************************************************************************)

Tick ==
  /\ clock < MaxTime
  /\ clock' = clock + 1
  /\ UNCHANGED <<pc, cfg, mem, savers, entries, next, stop, starts, faults>>

\* The process alone is killed, or dies of a failed fork(): its children live on.
Kill ==
  /\ Fault("kill")
  /\ pc # "down"
  /\ Exit
  /\ savers' = {s \in savers : s.child}
  /\ UNCHANGED <<clock, entries, next, starts>>

\* The machine stops: unnamed temporary files are gone, entries survive.
PowerFail ==
  /\ Fault("power")
  /\ Exit
  /\ savers' = {}
  /\ UNCHANGED <<clock, entries, next, starts>>

\* open, fallocate or write fails: log_passert() ends the saving process.
SaveFails(s) ==
  /\ Fault("save")
  /\ SaverEnds(s)
  /\ UNCHANGED <<clock, entries, next, starts>>

----------------------------------------------------------------------------
Persist(s) == PersistWrite(s) \/ PersistLink(s) \/ PersistExists(s)

Startup ==
  \/ CreateAtStart
  \/ LoadActiveState
  \/ UnlinkActiveState
  \/ UnlinkFails
  \/ StartupRotate
  \/ StartupKeep
  \/ init_dnstap_input
  \/ BindFails

Next ==
  \/ Start
  \/ Startup
  \/ recheck_handler
  \/ RegisterLookup
  \/ RegisterDies
  \/ DryRunDies
  \/ shutdown_handler
  \/ close_state
  \/ \E s \in savers : Persist(s) \/ SaveFails(s)
  \/ Tick
  \/ Kill
  \/ PowerFail

Spec == Init /\ [][Next]_vars

(***************************************************************************)
(* The kernel runs the savers and delivers the timer and the termination   *)
(* of the loop, and main() runs to its event loop.  Nothing obliges the    *)
(* operator, the clients, the clock or the faults.                         *)
(***************************************************************************)
Fairness ==
  /\ WF_vars(Startup)
  /\ WF_vars(recheck_handler)
  /\ WF_vars(close_state)
  /\ WF_vars(\E s \in savers : Persist(s))

FairSpec == Spec /\ Fairness

----------------------------------------------------------------------------
(***************************************************************************)
(* Properties.                                                             *)
(***************************************************************************)

\* Type correctness of the process, the savers and the directory.
TypeOK ==
  /\ clock \in Nat
  /\ pc \in PCs
  /\ cfg \in Confs \cup {NoConfig}
  /\ pc # "down" => cfg \in Confs
  /\ mem \in States
  /\ savers \subseteq Savers
  /\ entries \subseteq Entries
  /\ next \in Nat \ {0}
  /\ stop \in BOOLEAN
  /\ starts \in Nat
  /\ faults \subseteq FaultKinds

OneDir == \A a, b \in Dirs : a = b

Registered == 1..(next - 1)

\* Everything with a name, taken or about to be taken: saves under way and
\* files.  Both kinds of record have a name and a state.
Kept == savers \cup entries

\* Lookup i has not been lost.
Held(i) ==
  \/ HasState /\ i \in mem.lookups
  \/ \E x \in Kept : i \in x.st.lookups

\* With one state directory, as long as no fault has struck and the program has
\* not ended itself over a query without an address or a dry run without a log,
\* no lookup is lost: at every moment, through rotation, reload of a broken
\* configuration, shutdown and restart, each registered lookup is in memory,
\* with a saver or in a file.
NoLoss == OneDir /\ faults = {} => \A i \in Registered : Held(i)

\* States that will be, or are, published as the file of a period, and the
\* one that is being filled or was saved to be filled further.
Finished   == {x.st : x \in {y \in Kept : y.name # ActiveName}}
Unfinished == {x.st : x \in {y \in Kept : y.name = ActiveName}}
                \cup (IF HasState THEN {mem} ELSE {})

\* Before(a, b): sorting by end of period puts a before b, and rightly so.
Before(a, b) ==
  /\ a.end < b.end
  /\ \A i \in a.lookups, j \in b.lookups : i < j

\* Sorting the files of a directory by name sorts their lookups in time, and
\* whatever is still being filled sorts after them, even though crashes,
\* restarts and changes of period_length come between
\* (README: "simply sorting the state files alphabetically will order them
\* correctly in time").
OrderedInTime ==
  OneDir /\ "unlink" \notin faults =>
    /\ \A a, b \in Finished : a = b \/ Before(a, b) \/ Before(b, a)
    /\ \A a \in Finished, b \in Unfinished : Before(a, b)
    /\ \A a, b \in Unfinished : a = b

\* A save never finds its name taken: neither a finished period's nor, while
\* the process runs, active_state.  linkat() would fail and the state be lost.
NameFree ==
  OneDir /\ "unlink" \notin faults =>
    /\ \A s \in savers : ~Exists(s.dir, s.name)
    /\ \A s, t \in savers : s.name = t.name => s = t
    /\ pc \in {"checking", "binding", "running", "closing"} => ActiveFiles = {}

\* What other programs can open is complete: no crash and no failed write
\* leaves a truncated file under a name they look at.
EntriesComplete == \A f \in entries : f.size = Chunks

\* A published file is never changed, replaced or removed by the process; the
\* one file it removes is the active_state it has just loaded into memory.
OnlyLoadedIsRemoved ==
  [][\A f \in entries \ entries' : f.name = ActiveName /\ HasState /\ mem = f.st]_vars

\* "Clean shutdown; persist active current state" (honas_gather.c, end of
\* main()): a shutdown that no fault disturbs leaves the state in active_state.
ShutdownKeepsState ==
  [][\A s \in savers \ savers' :
       ~s.child /\ FullyWritten(s) /\ faults = {} => Entry(s) \in entries']_vars

\* "skipped (invalid and irrelevant) queries" (instrumentation.h): a relevant query
\* without an address of its client costs no lookup but itself.
InvalidIsSkipped ==
  OneDir /\ faults \subseteq {"address"} => \A i \in Registered : Held(i)

\* A running process whose period is over eventually publishes that period's
\* lookups, unless the process stops first or a fault strikes its save.
RotationPublishes ==
  \A i \in 1..MaxLookups :
    (pc = "running" /\ Expired /\ i \in mem.lookups)
      ~> (\/ \E f \in PeriodFiles : i \in f.st.lookups
          \/ pc = "down"
          \/ faults \cap SaveFaults # {})

\* A finished period that a child is saving is published whatever the process
\* that forked the child does meanwhile, and however it ends.
SaverPublishes ==
  \A i \in 1..MaxLookups :
    (\E s \in savers : s.child /\ i \in s.st.lookups)
      ~> (\/ \E f \in PeriodFiles : i \in f.st.lookups
          \/ faults \cap SaveFaults # {})

\* A period that has ended gets its file: from the process as long as that
\* runs, and from the saving child on in any case.
PeriodIsPublished == RotationPublishes /\ SaverPublishes

\* A shutdown signal received in the event loop ends the process.
ShutdownEnds == stop ~> (pc = "down")

----------------------------------------------------------------------------
(***************************************************************************)
(* The inductive invariant behind the safety properties.                   *)
(***************************************************************************)

\* What holds in any number of directories and under any fault: a save in the
\* process itself is the one of close_state(), names are those of active_state
\* or of the end of a period, named files are complete, no name is used twice,
\* and a state that was loaded and not yet unlinked is the one in the file.
Shape ==
  /\ HasState => mem.end > 0
  /\ \A x \in Kept : x.st.end > 0
  /\ \A s \in savers : s.name = IF s.child THEN s.st.end ELSE ActiveName
  /\ \A s \in savers : ~s.child => pc = "closing"
  /\ \A s, t \in savers : ~s.child /\ ~t.child => s = t
  /\ \A f \in entries : f.name \in {ActiveName, f.st.end} /\ f.size = Chunks
  /\ \A f, g \in entries : f.dir = g.dir /\ f.name = g.name => f = g
  /\ pc = "loaded" =>
       \A f \in entries : f.dir = cfg.dir /\ f.name = ActiveName => f.st = mem

Apart(a, b) == Before(a, b) \/ Before(b, a)

\* The time line of one directory: finished periods are over and apart, and
\* before the unfinished one, of which there is one copy (two between the load
\* of active_state and its removal).
Timeline ==
  /\ \A x \in Kept : \A i \in x.st.lookups : i < next
  /\ HasState => \A i \in mem.lookups : i < next
  /\ \A x \in Kept : x.name # ActiveName => x.st.end <= clock
  /\ \A x, y \in Kept :
       x.name # ActiveName /\ y.name # ActiveName /\ x # y => Apart(x.st, y.st)
  /\ \A x, y \in Kept :
       x.name # ActiveName /\ y.name = ActiveName => Before(x.st, y.st)
  /\ HasState => \A x \in Kept : x.name # ActiveName => Before(x.st, mem)
  /\ \A x, y \in Kept : x.name = ActiveName /\ y.name = ActiveName => x = y
  /\ pc \in {"checking", "binding", "running"} =>
       \A x \in Kept : x.name # ActiveName
  /\ pc = "closing" => \A f \in entries : f.name # ActiveName

IInv ==
  /\ TypeOK
  /\ Shape
  /\ OneDir /\ "unlink" \notin faults => Timeline

----------------------------------------------------------------------------
(***************************************************************************)
(* The promise kept: stopping, starting, loading, unlinking, forking and   *)
(* writing are invisible; only registering, sealing and publishing remain. *)
(***************************************************************************)
Period(st) == [end |-> st.end, lookups |-> st.lookups]

\* The period being filled, wherever it is kept at the moment.
OpenPeriod ==
  IF HasState
  THEN {Period(mem)}
  ELSE {Period(s.st) : s \in {x \in savers : ~x.child}}
         \cup {Period(f.st) : f \in ActiveFiles}

\* What the faults so far may have destroyed.  Every kind but a failed unlink can
\* end the process and with it the open period; a finished period, whose save is
\* a process of its own, is only lost with the machine or by a failing save.
Harmed ==
  (IF faults # {} THEN {"open"} ELSE {})
    \cup (IF faults \cap SaveFaults # {} THEN {"sealed"} ELSE {})

PL == INSTANCE PeriodLog WITH
        harmed <- Harmed,
        open   <- OpenPeriod,
        sealed <- {Period(s.st) : s \in {x \in savers : x.child}},
        log    <- {Period(f.st) : f \in PeriodFiles}

\* honas-gather with one state directory implements the abstract period log:
\* a stop and restart, a reload or an interrupted start never splits, merges,
\* duplicates, reorders or drops periods, and when the process is killed or ends
\* itself at most the open period is gone.
ImplementsPeriodLog == PL!FairSpec

=============================================================================
