# A TLA+ development of honas

honas stores which host names the clients of a DNS resolver look up, in Bloom
filters that can be asked later whether a name was looked up. `honas-gather`
reads dnstap messages from name servers and fills an *active state*; at the end
of each period the state is saved to a file and a new one is begun. Two scripts
move the files of a day to an archive and put them together with
`honas-combine`. `honas-search` answers search jobs from a saved state.

The modules here model these parts from the C and Python source, TLC checks them
on small instances, and TLAPS proves all of their safety properties for every value
of the constants.

## 1. The system and its parts

| Part | State it keeps | Operations | What is hard | What makes it correct |
|---|---|---|---|---|
| life cycle of `honas-gather` (`honas_gather.c`, `honas_state_persist/load`) | the active state, `active_state` and `<end>.hs` files, saving children | start, resume, register, rotate, reload configuration, shut down | fork per save, kills and power failures between any two steps, failing `unlink`/`write`/`bind`, a query or a dry run that ends the process, re-read directory and period length | no lookup is lost as long as nothing fails and nothing ends the process but a signal; files are complete, never overwritten, and sort in time |
| dnstap input (`honas_gather.c`) | per connection: stream position, handshake state, output buffer; the listener; counters | accept, read, write, close, minutely dump | frames cut anywhere, frames longer than the buffer, control frames in any order, callbacks that free what the caller uses, a query that ends the process | the reader keeps its place, never stalls, answers the handshake, never stops accepting |
| contents of a state (`honas_state.c`, `hyperloglog.c`) | one block of memory: filters and registers; header with counts, times and the periods covered | create, register, check, persist, load, combine | the hyperloglogs move between their own memory and the block on save and load; overlapping regions | no false negatives; counts, estimates and times agree with what was registered |
| choice of bits and filters (`bloom.c`, `combinations.c`) | arrays inside one call | `bloom_determine_offsets`, `lookup_combination` | in-place sorted insertion, unsigned loop counters | different bits and different filters, in range, the n-th combination for n |
| search (`honas_search.c`, `json_printer.c`) | callback state, bit sets of the group, printer's stack and comma flag | one callback per JSON element; print calls | the answer is printed while the job is still being read; sets not cleared between groups | output is JSON; hits are those of the state, whatever the order |
| hyperloglog (`hyperloglog.c`) | sparse opcodes or packed registers; a cached estimate | add, count, merge, promote, take over a buffer | opcodes split and merged in place in memory of fixed size; registers across two bytes, summed by other shifts than they are set; a cache to throw away | the registers are those of what was added; the cache is theirs; the sparse form stays readable and in its memory |
| dry run (`honas_gather.c`) | two hyperloglogs, two maxima, two timers | look up, hourly and daily event, advice | both timers in one moment, midnight anywhere between, advice in the middle of a period | the maxima are those of all hours and days |
| subnet activity (`subnet_activity.c`) | table of prefixes, bounds of their lengths, parser state | one callback per JSON element, look up, reload | any JSON document, cut off anywhere; bounds and masks | the longest prefix around an address decides |
| configuration (`read_file.c`, `config.c`, `honas_gather_config.c`) | a stack of files being read, a buffer and a place in each; the options | read, handle a line, include, close, finalize | pieces of any size, includes in the middle of a line, decompressing children, errors after part was taken over | all of it or the end of the process, and either comes |
| archive (`honas_state_rotate.py`, `honas_daily_state_combine.py`, `honas_combine.c`) | spool, day directories, daily states, rotation file | move a day, hand it over, combine it | two cron jobs and a file between them, kills anywhere | no state is lost, no half day is combined, no day forgotten |

They interact through files (the life cycle writes what the archive moves and
the search loads), through one call per lookup (the dnstap input registers in
the state), and through re-reading the configuration, and with it the subnet
definitions, at a rotation. The dry run is fed by the same call as the state.
`PROJECT.json` lists every component, also those not modelled, and every hazard
with its line.

## 2. Modules

| Module | Models | Notes on the correspondence |
|---|---|---|
| `GatherLifecycle` | process life, files, savers | one action per step between two of which the process can die; a saver is an execution of `honas_state_persist`, a write at a time, its name linked last; a lookup is a number in order of registration. Two steps are deaths of the process by its own code, without `close_state()`: `RegisterDies` (a relevant query without an address of 4 or 16 bytes is registered all the same, and `honas_state_register_host_name_lookup` calls `log_die`) and `DryRunDies` (a dry run without its log follows a null pointer). They are listed in `faults` next to those from outside |
| `PeriodLog` | abstract specification: one open period, sealed periods, a published log | what a reader of the state directory may rely on; `harmed` says what faults may have destroyed: any that ends the process the open period, only one that reaches a saving child a sealed one |
| `DnstapConnection` | `cb_accept_conn`, `cb_read` and all it calls, `cb_write`, `cb_event`, instrumentation counts | bytes are counted in half length fields; `ReadLoop` is one turn of the loop of `cb_read`; while it runs (`cb`) no other callback does: one thread. After the query that ends the process `cb` is `Exited`, the open connections are `"cut"` and nothing happens any more |
| `HonasState` | layout of the block, create/register/persist/load/combine | memory is the set of cells that are 1; hashing is a parameter. The period a state is created for is given by `create_state` of `honas_gather.c:899` and any of `Periods` here; combining spans both. That `honas_state_aggregate_combine` refuses states of other parameters shows in `Archive` (`Mismatch`): in this module all states have the parameters of the constants |
| `BloomOffsets`, `Combinations` | the two pure algorithms, one step per turn of their loops | checked against the sorted set of free bits and the lexicographic rank |
| `JsonPrinter` | the printer's calls, its assertions, commas and what its escaping does | the printed text is fed to a reference reader of JSON (`reader`); the characters on the printer's stack are "brace", "bracket" and "colon" |
| `SearchJob` | every callback of `honas-search` | yajl (external) may report any JSON document, of any length: no bound on the job |
| `Archive` | the two scripts and `honas-combine` at work on files | a daily state is how often each period went into it; a day is complete from `Required` states on, and may have more |
| `Binary` | numbers in bits: powers of two, sums, packing and unpacking | what masks and shifts do; used by the hyperloglogs, by `HonasState` and, for sums of lengths, by `ConfigReader` |
| `HllDense` | the macros and sums on packed registers | bytes and registers are the sets of their bits that are 1: masks are intersections, shifts move bits |
| `HyperLogLog` | all of `hyperloglog.c` as operators on a record; the count of a state as state machine | opcodes with their fields; the estimate is a function of how many registers hold which value, and that histogram stands for it |
| `DryRun` | the dry run of `honas-gather` | uses `HyperLogLog`; a `Tick` is an hour, after which expired timers run in any order |
| `ConfigReader` | `read_file`, `config_parse_line`, the final check | a call of `read_file` is a record on `stack`; a line is its length and what it says; `FilesAssumption` says what files are (an included name has an entry, a last line without newline has a byte) |
| `SubnetActivity` | the callbacks, the table, `subnet_activity_match_prefix`, the reload in `recheck_handler` | an address is the set of its bits; a document is whatever yajl (external) reports, cut off anywhere |
| `MCStartup` | `honas-gather` from its start: configuration, then definitions, dry run or the state's count | these three share nothing, so each is followed for itself |
| `MC*` | constants for TLC | |
| `*Proofs`, `NumberLemmas` | theorems; facts about numbers that several of them use | |

Composition: `SearchJob` runs on `JsonPrinter`; `MCHonasState` runs the two choices
one after the other as a lookup does, and next to them the state, which takes what they
yield as parameters; `MCStartup` goes from the configuration to
what it configures, and `DryRun` runs on `HyperLogLog`, which runs on `HllDense`;
`GatherLifecycle` instantiates
`PeriodLog` under a refinement mapping. The state as `GatherLifecycle`
sees it (a set of lookups) is what `HonasState` is in detail, and `Hits` in
`SearchJob` is what `HonasState!Reported` answers.

Definitions named "as it would be if ..." or "Mutant" are plausible slips; the
mutants of `PROJECT.json` put each in the place of the definition after it and
the property named there must then fail.

## 3. Runs

| Run | Instance | Shows |
|---|---|---|
| `gather_lifecycle` | one directory, period lengths 2 and 3, clock to 4, 2 lookups, 3 starts, saves of 2 writes, one of the seven kinds of fault per behaviour, any number of times | `NoLoss`, `OrderedInTime`, `NameFree`, `EntriesComplete`; only the file just loaded is ever removed |
| `gather_liveness` | the same with no fault but the query without an address, with fairness | the process implements `PeriodLog`; ended periods are published, also those whose child outlives the process; a signal ends the process |
| `gather_two_dirs` (violation) | two directories | a changed `bloomfilter_path` can make a clean shutdown lose the state |
| `gather_address` (violation) | one directory, a query may come without an address | a query that should be skipped as invalid costs all lookups since the last rotation |
| `state_contents` | choices: filters of 8 and 16 bits, 1 to 9 offsets, up to 6 filters; contents: 2 filters, 2 clients, 2 queries, 2 periods, 2 files, 4 saves, 3 lookups in memory and files together | offsets and subsets are sorted, distinct and the right ones; no false negatives in filters with memory of their own; counts, estimates and header (number and times of lookups, periods covered) |
| `state_reload` (violation) | the same contents, 3 saves | the client registers overlap the last filter, which loses bits after a reload |
| `dnstap_input` | 2 connections, buffer of 7 units, reads of at most 4, some 75 streams, among them queries without an address; with fairness | `InStep`, `NeverStalls`, handshake, FINISH, listener, counts; all that is sent is handled and stopped connections go, unless the process ends first |
| `search_job` | 3 names, 4 hashes, 3 filters; jobs unbounded | the result is JSON and says what the state says |
| `archive` | 2 days of 3 periods, of which 2 are required; days and periods symmetric; scripts run and killed any number of times | nothing lost, no half day combined, no day forgotten on schedule |
| `archive_overlap` (violation) | 2 days of 2 periods, both required | off schedule, days are forgotten |
| `startup` | 5 files with lines up to the buffer's length and one more, in 516 arrangements, include depth 2; addresses of 2 and 4 bits, 2 prefixes, 2 entities; 8 registers, sparse limit of 4 bytes, days of 2 hours, 4 hours; with fairness of the reader | a configuration is taken whole or not at all, and reading ends; longest prefix; maxima of the dry run; the hyperloglog's three invariants |
| `subnet_ipv6` (violation) | the same | IPv6 prefixes that are no whole bytes are not found |

Why the bounds are enough. *Life cycle:* one period that ends, one after it and a
third process make every pair of (finished, finishing, resumed) states occur;
two writes per save give a moment in the middle of it; the theorems remove all
bounds for safety. *dnstap:* half-length units make a length field arrive in two
parts; frames of exactly the buffer's size, one more and twice its size are the
three cases of `can_read_full_frame`. *State:* two filters so that one touches the
registers and the other does not; three saves are save, load,
save and combine, a fourth saves the combination, or a third state to combine it with.
*Search:* hashes with no hit, one (below the two filters per user) and two that
overlap in one filter distinguish first/last/missing hits and every flattening;
the state is finite without a bound on the job. *Archive:* two days for one to
overtake the other, two required periods for a day to be half moved, and a third for
a complete day to get one more state before, while or after it is moved. *Configuration:* a
buffer of four bytes, lines of 0 to 4 and pieces of 1 to 4 put every boundary in
every place; two levels of includes are needed for a directory in an included
file, and the limit is met by files that include themselves and each other.
*Subnets:* bytes of two bits give IPv6 lengths that are whole bytes and ones that
are not; two prefixes of any length, nested or not, in one or two entities. The
table of 1024 entities is a bound of the model (`MaxEntities`), not checked by the
code. *Hyperloglog:* eight registers of six bits fill six bytes in both alignments
twice; a hash of value 10 for every register and of 21, which has no bit in common
with 10, for three of them, one too large for the sparse form and the all-zero hash; a limit of four
bytes is reached by three additions, and the longest runs (2 and 3) by adjacent
registers.

Fairness. `FairSpec` of the life cycle assumes that start-up, the rotation timer,
the final save and the saving children take their next step when they can: the
event loop and the kernel's scheduler provide it, and nothing is assumed of
lookups, signals or the clock. `DnstapFairness` assumes that libevent delivers
read and write events of a ready socket and that a callback returns; nothing is
assumed of the peer. Deadlock checking is off where the system may stop for good
(a bound is reached, the job is done); the archive is checked for deadlock.
`ConfigFairness` assumes that the reading process takes its next step, by other
means than a failing system call, and that a decompressing child ends: the code
waits for it without limit (section 5).

## 4. Proofs

All theorems are for arbitrary constants under the named assumptions of each
module, and every leaf is checked.

* `GatherLifecycleProofs`: `TypeOK`, `NoLoss`, `OrderedInTime`, `NameFree`,
  `EntriesComplete`, the action property `OnlyLoadedIsRemoved`, and the refinement of
  `PeriodLog`. `NoLoss` holds up to the first fault, where
  the two ways in which the program ends itself count as faults; after one it says nothing,
  and `ImplementsPeriodLogSafely` says what may be gone: the open period after any fault that ends
  the process, a finished one only after a failing save or a power failure (`SaveFaults`). None of the invariants is inductive: that a name is free depends on
  all kept states lying apart in time. `IInv` adds `Shape` (who saves what under
  which name; valid under every fault) and, for one directory whose `unlink`
  works, `Timeline` (finished periods are over, apart, and before the unfinished
  one, of which there is one copy, two between load and unlink). Under the same
  hypotheses `ImplementsPeriodLogSafely` maps each action to a step of `PeriodLog` or
  a stutter, and `ShutdownKeepsStateInOneDir` proves the sentence that
  `gather_two_dirs` refutes.
* `GatherInputProofs`, for what `honas-gather` reads. *Subnet definitions*: `LongestMatch`
  from `SubnetInv` (each prefix in the table lies within the bounds kept for its
  family), for any positive width of addresses. *Configuration*: `WholeOrExit`. What a
  text means (`Meanings`) recurs through includes, down to the limit on their depth;
  that a configuration is taken as it means is no invariant of the options alone,
  as a file is interrupted in the middle. `ConfigInv` therefore says of every call on the stack
  what it still stands for: the lines not handled yet, behind them how its file
  ends, and before them the files of a directory still to come
  (`Remaining`); with what the calls above it stand for put before that, the items
  handled so far followed by all this are the text's meaning (`Progress`), the options are
  those of the items handled so far, an error is one of a failed system call
  or of a text that cannot be read, and `config_include_loop` is the depth of the stack
  less one, so that the code's limit is that of `Meanings`. Sums of the lines' lengths
  say when what was read holds a whole line, and when all of the file was handled.
  *dnstap*: `DnstapTypeOK`, `InStep`, `NeverStalls`, `AcceptedAccounted`, `AlwaysAccepting`,
  `HandshakeFollows`, `FinishDelivered`, for any number of connections and any streams.
  `Good` joins `InStep` with `Headroom`: an oversized
  frame is recognised before more of it is waited for than its length field, so
  there is room below the watermark between callbacks. `HandInv` says per connection
  that the reader's state is the number of control frames it has passed, and what
  was answered to them. Lemmas treat one connection's record; `OneConnection` lifts them.
  `AlwaysAccepting` needs the cardinality of the open connections. Assumption: a read
  and a length field fit below the watermark.
* `HonasStateProofs`: `NoFalseNegativeApart`, `HeaderAgrees` and `HostNamesCounted`. `StateInv` says of the state
  in memory and of every file that it is `Whole`: each registered key has its bits in
  all filters of its client that share no memory with registers (`Sound`), and the
  header counts and times what `past` lists and spans exactly its periods (`Counted`,
  `Spans`); and of files that their bits
  are counted. `RegisterWhole`, `SavedWhole` and `CombinedWhole` follow a state through the
  operations. `HostNamesCounted` is from `HostNamesInv`, which holds next to it: whichever memory has
  the host names' registers, the hyperloglog's own or the block, they are
  those of the keys registered (`CountsKeys`), so saving and loading, which
  move them, lose none; in a combination, which or-s them, they are no less.
* `SelectionProofs`: `SubsetSorted` from `CombInv` (each index leaves room for those
  after it); `RankIsCount` and `NeverRunsOff` from `RankInv` (a turn passes exactly the
  subset it leaves). That the incremented subset comes next is proved on sets
  (`FollowsImmediately`): below the incremented element nothing changes, above it the
  old set has the highest elements there are and the new one the lowest, and
  sets of one size do not contain each other. That `number_of_combinations()` counts
  the subsets is Pascal's rule, proved with a bijection. `OffsetsSorted`,
  `PicksFreeBit` and `SetsNumBits` follow from `BloomInv` (what has been passed lies below
  the number being inserted, which has grown by one for each).
* `SearchProofs`: `InContext`, `ResultIsJson`, `HitsByAllHostnames`, `GroupReported`, and that no
  assertion of the printer fails (`AssertionsHold`). `SearchInv` says that the
  printer's stack and what a reader makes of its output follow from the callback
  state (`Located`), that the group's flags and its set of filters are those of the
  names read so far (`Accounted`: the set is the intersection while all were found),
  that each of them was answered (`AllAnswered`), and that a job that is done is complete. `ResultIsJson` alone assumes that no name or id has a
  character the printer's escaping breaks; all others hold with such names too.
  Assumption: names given in a job are not among the program's own words.
* `HyperLogLogProofs`. Packed registers: setting one is read back and changes no other,
  or-ing bytes or-s registers, and the sum's other shifts see the same values: register
  r has the bits 6r to 6r + 5 of all bytes in a row, and each operation is
  characterised bit by bit. Counts: `SparseSound`, `RegistersAgree` and `CachedIsCurrent` from
  `CountInv`. It says that the count `Represents` the registers it should have: its opcodes
  cover all of them with these values (`Reads`), each has a length and a value its
  bits can hold, all fit the memory, and a cached estimate, unless
  invalid, is that of these registers. Splitting an opcode, each turn of merging, and a promotion keep
  what the opcodes expand to, but for the one register that is set; as
  no run is longer than its opcode allows, merging never
  overflows a field. Registers agree exactly until a state was combined, and are at
  least the exact ones from then on: or-ing two numbers makes neither
  smaller. Dry run: from `DryInv`, for every estimate that is a number (`EstimateCounts`), no period that
  ended is left out of the maxima (`NoPeriodLeftOut`); and for one that
  elements never make smaller (`EstimateGrows`), `MaximaRight`. The code's estimate has a
  small step down where it changes from linear counting to the raw estimate
  (`hyperloglog.c:960`), so of a real dry run the upper bound holds up to that step, the lower bound without
  exception. Assumption beside the sizes: `InitFits`, that the first opcodes
  fit the memory `hllInit()` allocates for them.
* `ArchiveProofs`: `ArchiveTypeOK` and all four properties of the run `archive`, for any
  finite sets of days and periods and any number of required states. `SafeInv` says
  that what was listed was saved, that only what is in the spool is torn, that a
  day to be moved is complete by what was listed (and stays so when more states come:
  `CompletedMore`, from cardinalities), and that each day on record is `Done`: it has its directory, enough states
  in it, none of them torn, and is not being moved. `Progress` says that the daily state has what is
  off the list; `Scheduled` that on the
  documented schedule there is no rotation file between a combination and
  the next rotation, so overwriting it loses nothing.

Recursion. The provers cannot instantiate an induction theorem with a formula, so
induction is over a set: `NumberLemmas!Induction` says that a set of numbers with 0 and
the successor of each is `Nat`, from the least counterexample. A recursive
function is to the provers the CHOOSE of its equation, so an equation is used
only after some function is shown to satisfy it: `Iterated` builds the iterates
of a step, and for `combinations` the function that counts subsets is the witness.
For this `combinations` is a function of the set's size that gives a row of counts;
`PowerOfTwo`, `Sums`, `Joined`, the turns of merging and `Meanings` are reached the same way.

Only model-checked: what is about liveness, that is `ReadsEnd`, the liveness properties
of the runs `gather_liveness` and `dnstap_input`, and the fairness part of
`ImplementsPeriodLog` (its safety part is proved). Every invariant and every action property
of the passing runs is proved. `TypeOK`, `ArchiveTypeOK`, `SetsNumBits` and `NoPeriodLeftOut` are
proved and not run; the types of `HonasState` and `SearchJob` are part of
`HeaderAgrees` and `InContext`, those of the other modules of their invariants.

## 5. What the checks found

Five runs refute a sentence of the documentation or a comment: see
`gather_two_dirs`, `gather_address`, `state_reload`, `archive_overlap`
and `subnet_ipv6` above. Others
were met while modelling; `PROJECT.json` quotes the lines. In short: state files are
named by the end of their period, where `README.md:233` says the begin; an `active_state` whose
`unlink` failed is in the way of the next clean shutdown, which loses the state; with a
period length that does not divide a day, a state may come after its day was taken to be
complete, and is never combined;
`honas_state_register_host_name_lookup` does not register parent domains as
documented; combining with an empty state sets `first_request` to 0; a dnstap
frame is unpacked with its length field, and in spite of an "invalid content
type"; `honas-search` prints an id that was not given and hits below
`number_of_filters_per_user`, and flattens by the number of host names; unknown
keys of a job are not ignored; strings are escaped with a solidus; the first
state of a day is combined twice; a killed combination is not repeated;
well-formed queries that are not stored are in none of the instrumentation's
counts; `hllMerge` ors registers where its header says maximum; a dry run whose log
cannot be opened follows a null pointer; `read_file_close` never gets to kill its
child; a prefix length of 0 makes the lookup's unsigned counter wrap; subnet
definitions that are no JSON are "succesfully initialized".

## 6. Assumptions and what is left out

* One `honas-gather` per directory (nothing in the code enforces it). A child that
  saves has its own copy of what it saves: the mapping is shared, but the parent
  gives it up right after `fork`. After a power failure a linked file is whole.
* Data frames fit the local buffer of 4096 bytes, as dnstap messages of DNS queries
  do. The unpackers of protobuf and of DNS packets are external: any outcome.
* Names in the instance of `search_job` contain no quote or backslash (`Kind` has
  the value `"broken"` for those; the result is then no JSON). Group ids are
  not negative. Hash text is either decodable or not.
* In `Archive` one instance of each script runs at a time; `shutil.move` is taken to
  go to another file system (copy, then remove), of which a rename is the
  special case without the middle; a kill during `copyfile` is one after it.
* `number_of_filters_per_user` is at most `number_of_filters`, and the number of combinations
  fits 32 bits.
* The estimate of a hyperloglog in floating point is a function of the histogram of its
  registers and is left out. `entities[1024]` and the buffers of names and addresses
  in `subnet_activity.c` are taken to be large enough; what lies beyond is undefined.
  A lookup that misses with a shortest prefix length of 0 is `Undefined`.
* Hazards no property covers, beside those of `PROJECT.json`: files are linked
  without `fsync`, so after a power failure a name may be there without its data;
  two instances of `honas-gather` in one directory; `number_of_filters_per_user` above
  `number_of_filters`, which the configuration does not refuse; a day with fewer states
  than required, which stays in the spool; data frames longer than the local buffer.
* A rotation is one atomic step of `GatherLifecycle`: it runs in one callback, and a signal
  that comes meanwhile is handled by the event loop after it. Only a kill between two
  of its system calls is thereby left out; it is one before or after it, as the child
  is forked first and nothing else that lasts is written.
* Not modelled: the formulas of `advice.c`, counts per query type and per subnet in the
  instrumentation, log texts, `honas-info` (prints a loaded state), helpers for byte
  strings, addresses and logging (no state of their own), generated and vendored
  code (`dnstap.pb`, `uthash.h`), experiment scripts and tests.

## 7. Plan

1. Done: `GatherLifecycle`/`PeriodLog`, `BloomOffsets`/`Combinations`, `HonasState`,
   `DnstapConnection`, `JsonPrinter`/`SearchJob`, `Archive`, with their safety properties proved.
2. Done: `HllDense`/`HyperLogLog`, `DryRun`, `ConfigReader`, `SubnetActivity`, put together in
   `MCStartup`, with their safety properties proved.
3. Left: liveness, which stays with TLC.
