---------------------------- MODULE HonasState ----------------------------
(***************************************************************************)
(* The contents of a honas state (src/src/honas_state.c): one block of     *)
(* memory with the bloom filters and the registers of two hyperloglogs, a  *)
(* header with counts and times, and the operations create, register,      *)
(* persist, load and aggregate_combine, over any sequence of saves and     *)
(* loads.                                                                  *)
(*                                                                         *)
(* Memory is the set of its cells that hold a 1.  Hash functions are       *)
(* parameters: what BloomOffsets and Combinations compute from a hash is   *)
(* given directly.                                                         *)
(***************************************************************************)
EXTENDS Binary, FiniteSets, FiniteSetsExt, SequencesExt

CONSTANTS
  NumFilters,      \* number_of_filters
  FilterBits,      \* number_of_bits_per_filter
  Page,            \* cells in a page
  Header,          \* cells taken by the header and the counts of set bits
  NumRegs,         \* HLL_REGISTERS
  RegBits,         \* HLL_BITS
  Clients,         \* addresses of clients
  Queries,         \* [name, entity, ptr]: what clients ask for
  NoEntity,        \* a query from no known subnet
  Lower(_),        \* tolower() on a label
  FiltersOf(_),    \* client -> the filters its lookups go to
  OffsetsOf(_, _), \* filter, key -> the bits that stand for the key
  RegOf(_),        \* client or key -> hyperloglog register
  RankOf(_),       \* client or key -> value hllPatLen() yields for it
  Times,           \* timestamps of lookups
  Periods,         \* [begin, end]: periods that states are created for
  Files,           \* names of state files
  MaxRequests,     \* bound on the lookups in memory and in files
  MaxSaves         \* bound on the saves

----------------------------------------------------------------------------
(***************************************************************************)
(* The layout of the block of memory: honas_state_create() and             *)
(* honas_state_init_common().                                              *)
(***************************************************************************)
RoundUp(n) == ((n + Page - 1) \div Page) * Page

HllSize             == NumRegs * RegBits  \* the spare byte is left out
FirstFilterOffset   == RoundUp(Header)
PaddingAfterFilters == RoundUp(FilterBits) - FilterBits
PaddingAfterHll     == RoundUp(HllSize) - HllSize

Filters == 0..(NumFilters - 1)
Regs    == 0..(NumRegs - 1)

FilterBegin(i) == FirstFilterOffset + i * (FilterBits + PaddingAfterFilters)
FilterCells(i) == FilterBegin(i)..(FilterBegin(i) + FilterBits - 1)

\* client_count_registers: the pages of the filters are counted from the start
\* of the mapping, not from the first filter.
ClientRegisters   == NumFilters * (FilterBits + PaddingAfterFilters)
HostNameRegisters == ClientRegisters + HllSize + PaddingAfterHll

RegCells(base, r) == (base + r * RegBits)..(base + (r + 1) * RegBits - 1)
AllRegCells(base) == base..(base + HllSize - 1)

\* Filter i shares memory with the registers of the clients.
Shared(i) == FilterCells(i) \cap AllRegCells(ClientRegisters) # {}

----------------------------------------------------------------------------
(***************************************************************************)
(* Names and the keys that are registered for them: the first half of      *)
(* honas_state_register_host_name_lookup().  A name is the sequence of its *)
(* labels; a trailing dot shows as an empty last label.                    *)
(***************************************************************************)
NoLabel == ""

\* A trailing dot is dropped and labels are put in lower case.
Canonical(name) ==
  LET used == IF Last(name) = NoLabel THEN Front(name) ELSE name
  IN  [l \in DOMAIN used |-> Lower(used[l])]

Key(entity, part) == [entity |-> entity, part |-> part]

\* sld_buf: the last two labels, empty for a name without a dot.
SldTld(name) == IF Len(name) < 2 THEN <<>> ELSE SubSeq(name, Len(name) - 1, Len(name))

\* The whole name, every label but the TLD, both also with the entity in front,
\* and SLD.TLD; of a PTR name only the whole name.
Keys(q) ==
  LET name   == Canonical(q.name)
      labels == {<<name[l]>> : l \in 1..(Len(name) - 1)}
      parts  == {name} \cup (IF q.ptr THEN {} ELSE labels)
  IN  {Key(e, p) : e \in {NoEntity, q.entity}, p \in parts}
        \cup (IF q.ptr THEN {} ELSE {Key(NoEntity, SldTld(name))})

AllKeys == UNION {Keys(q) : q \in Queries}

ASSUME StateAssumption ==
  /\ NumFilters \in Nat \ {0}
  /\ FilterBits \in Nat \ {0}
  /\ Page \in Nat \ {0}
  /\ Header \in Nat \ {0}
  /\ NumRegs \in Nat \ {0}
  /\ RegBits \in Nat \ {0}
  /\ Times \subseteq Nat \ {0}
  /\ Periods \subseteq [begin : Nat, end : Nat]
  /\ \A cl \in Clients : FiltersOf(cl) \subseteq Filters
  /\ \A f \in Filters, k \in AllKeys : OffsetsOf(f, k) \subseteq 0..(FilterBits - 1)
  /\ \A x \in Clients \cup AllKeys : RegOf(x) \in Regs /\ RankOf(x) \in 1..(PowerOfTwo[RegBits] - 1)
  /\ MaxRequests \in Nat
  /\ MaxSaves \in Nat
  \* The registers of the host names lie past the filters: true up to some
  \* 4000 filters.
  /\ HostNameRegisters >= FilterBegin(NumFilters - 1) + FilterBits

----------------------------------------------------------------------------
VARIABLES
  live,   \* the state in memory is open
  mem,    \* its cells that hold a 1
  owned,  \* its hyperloglogs own their registers (else they are those in mem)
  client_count,
  host_name_count,
  header,
  past,   \* history: what has been registered in this state
  files,
  saves

vars == <<live, mem, owned, client_count, host_name_count, header, past, files, saves>>

NoRegs == [r \in Regs |-> 0]

\* What stands for the period of a state that is not there.
NoPeriod == [begin |-> 0, end |-> 0]

NoHeader ==
  [period_begin |-> 0, period_end |-> 0, number_of_requests |-> 0, first_request |-> 0, last_request |-> 0,
   clients |-> NoRegs, host_names |-> NoRegs, filter_bits_set |-> [i \in Filters |-> 0]]

\* seen: pairs of client and key; times: of lookups; periods: of the states it
\* was made from; resumed: a lookup was registered after a load; merged: the
\* state is a combination.
NoPast ==
  [seen |-> {}, times |-> <<>>, periods |-> {NoPeriod}, resumed |-> FALSE, merged |-> FALSE]

Absent == [present |-> FALSE]

Init ==
  /\ live = FALSE
  /\ mem = {}
  /\ owned = FALSE
  /\ client_count = NoRegs
  /\ host_name_count = NoRegs
  /\ header = NoHeader
  /\ past = NoPast
  /\ files = [f \in Files |-> Absent]
  /\ saves = 0

----------------------------------------------------------------------------
(***************************************************************************)
(* Registers.                                                              *)
(***************************************************************************)
\* HLL_DENSE_GET_REGISTER and the cells HLL_DENSE_SET_REGISTER writes.
Value(m, base, r) ==
  NumberOf({x \in 0..(RegBits - 1) : base + r * RegBits + x \in m}, RegBits)
Cells(base, r, v) == {base + r * RegBits + b : b \in NumberBits(v, RegBits)}

Registers(m, base) == [r \in Regs |-> Value(m, base, r)]
AllCells(base, regs) == UNION {Cells(base, r, regs[r]) : r \in Regs}

\* The highest rank among xs that falls in register r, or v if that is higher.
Raised(v, r, xs) == Max({v} \cup {RankOf(x) : x \in {y \in xs : RegOf(y) = r}})

\* hllAdd() for each of xs to registers that are owned ...
AddOwned(regs, xs) == [r \in Regs |-> Raised(regs[r], r, xs)]

\* ... and to registers in memory: hllDenseAdd() replaces those it raises.
AddInMemory(m, base, xs) ==
  LET old   == Registers(m, base)
      added == AddOwned(old, xs)
      hit   == {r \in Regs : added[r] # old[r]}
  IN  (m \ UNION {RegCells(base, r) : r \in hit})
        \cup UNION {Cells(base, r, added[r]) : r \in hit}

----------------------------------------------------------------------------
(***************************************************************************)
(* Operations.                                                             *)
(***************************************************************************)

\* create_state() of honas-gather with honas_state_create(): anonymous memory is
\* zero, hyperloglogs start sparse, and the header has the period.
Create(period) ==
  /\ ~live
  /\ live' = TRUE
  /\ mem' = {}
  /\ owned' = TRUE
  /\ client_count' = NoRegs
  /\ host_name_count' = NoRegs
  /\ header' = [NoHeader EXCEPT !.period_begin = period.begin, !.period_end = period.end]
  /\ past' = [NoPast EXCEPT !.periods = {period}]
  /\ UNCHANGED <<files, saves>>

\* The bits bloom_set() sets for the keys ks in the filters of client cl.
BloomCells(cl, ks) ==
  UNION {{FilterBegin(f) + o : o \in OffsetsOf(f, k)} : f \in FiltersOf(cl), k \in ks}

\* Mutant: a timestamp that is not newer replaces last_request too.
TouchedAlways(h, t) ==
  [h EXCEPT !.number_of_requests = @ + 1,
            !.last_request = t,
            !.first_request = IF h.first_request = 0 THEN t ELSE @]

\* The header after a lookup at time t.
Touched(h, t) ==
  [h EXCEPT !.number_of_requests = @ + 1,
            !.last_request = IF h.last_request < t THEN t ELSE @,
            !.first_request = IF h.last_request < t /\ @ = 0 THEN t ELSE @]

\* The lookups counted in memory and in files.
Requests ==
  header.number_of_requests +
    MapThenSumSet(LAMBDA f : IF files[f].present THEN files[f].header.number_of_requests ELSE 0,
                  Files)

\* honas_state_register_host_name_lookup() for a client with an IPv4 or an IPv6
\* address: for any other the process ends (RegisterDies in GatherLifecycle).
Register(cl, q, t) ==
  LET ks == Keys(q)
      counted == IF owned THEN mem ELSE AddInMemory(mem, ClientRegisters, {cl})
      set == counted \cup BloomCells(cl, ks)
  IN  /\ live
      /\ Requests < MaxRequests
      /\ header' = Touched(header, t)
      /\ mem' = IF owned THEN set ELSE AddInMemory(set, HostNameRegisters, ks)
      /\ client_count' = IF owned THEN AddOwned(client_count, {cl}) ELSE client_count
      /\ host_name_count' = IF owned THEN AddOwned(host_name_count, ks) ELSE host_name_count
      /\ past' = [past EXCEPT !.seen = @ \cup {<<cl, k>> : k \in ks},
                              !.times = Append(@, t),
                              !.resumed = @ \/ ~owned]
      /\ UNCHANGED <<live, owned, files, saves>>

\* The file honas_state_persist() writes: registers are or-ed into memory, then
\* the estimates (functions of the registers) and the set bits are taken.
Saved(m, own, cc, hc, h, p) ==
  LET full == IF own THEN m \cup AllCells(ClientRegisters, cc) \cup AllCells(HostNameRegisters, hc)
                     ELSE m
  IN  [present |-> TRUE, mem |-> full, past |-> p,
       header |-> [h EXCEPT !.clients = Registers(full, ClientRegisters),
                            !.host_names = Registers(full, HostNameRegisters),
                            !.filter_bits_set = [i \in Filters |-> Cardinality(full \cap FilterCells(i))]]]

\* What honas_state_destroy() leaves.
Destroy ==
  /\ live' = FALSE
  /\ mem' = {}
  /\ owned' = FALSE
  /\ client_count' = NoRegs
  /\ host_name_count' = NoRegs
  /\ header' = NoHeader
  /\ past' = NoPast

\* honas_state_persist() and honas_state_destroy(): finalize_state(), close_state().
PersistTo(f) ==
  /\ live
  /\ saves < MaxSaves
  /\ ~files[f].present
  /\ files' = [files EXCEPT ![f] = Saved(mem, owned, client_count, host_name_count, header, past)]
  /\ saves' = saves + 1
  /\ Destroy

\* Mutant: a loaded state starts with empty hyperloglogs of its own.
LoadOwned(f) ==
  /\ ~live
  /\ files[f].present
  /\ live' = TRUE
  /\ mem' = files[f].mem
  /\ owned' = TRUE
  /\ client_count' = NoRegs
  /\ host_name_count' = NoRegs
  /\ header' = files[f].header
  /\ past' = files[f].past
  /\ files' = [files EXCEPT ![f] = Absent]
  /\ UNCHANGED saves

\* honas_state_load() in try_open_active_state(), which unlinks the file: the
\* hyperloglogs use the registers in the mapping.
Load(f) ==
  /\ ~live
  /\ files[f].present
  /\ live' = TRUE
  /\ mem' = files[f].mem
  /\ owned' = FALSE
  /\ client_count' = NoRegs
  /\ host_name_count' = NoRegs
  /\ header' = files[f].header
  /\ past' = files[f].past
  /\ files' = [files EXCEPT ![f] = Absent]
  /\ UNCHANGED saves

Lesser(a, b)  == IF a < b THEN a ELSE b
Greater(a, b) == IF a > b THEN a ELSE b

\* honas_state_aggregate_combine(): the header.
MergedHeader(t, s) ==
  [t EXCEPT !.number_of_requests = @ + s.number_of_requests,
            !.period_begin = Lesser(@, s.period_begin),
            !.period_end = Greater(@, s.period_end),
            !.first_request = Lesser(@, s.first_request),
            !.last_request = Greater(@, s.last_request)]

MergedPast(t, s) ==
  [seen |-> t.seen \cup s.seen, times |-> t.times \o s.times,
   periods |-> t.periods \cup s.periods, resumed |-> t.resumed \/ s.resumed, merged |-> TRUE]

\* Mutant: the loop over the filters leaves out the first one.
MergedMemSkip(t, s) == t \cup (s \ FilterCells(0))

\* honas_state_aggregate_combine(): filters, and hllMerge() of the registers.
MergedMem(t, s) == t \cup s

\* honas_state_aggregate_combine() on two loaded states, as in honas-combine:
\* filters and registers are or-ed; the target is saved under its old name.
\* The sizes it compares first are constants here, equal in all files.
Combine(f, g) ==
  /\ ~live
  /\ f # g
  /\ files[f].present
  /\ files[g].present
  /\ saves < MaxSaves
  /\ files' = [files EXCEPT ![f] =
       Saved(MergedMem(files[f].mem, files[g].mem), FALSE, NoRegs, NoRegs,
             MergedHeader(files[f].header, files[g].header),
             MergedPast(files[f].past, files[g].past))]
  /\ saves' = saves + 1
  /\ UNCHANGED <<live, mem, owned, client_count, host_name_count, header, past>>

Next ==
  \/ \E period \in Periods : Create(period)
  \/ \E cl \in Clients, q \in Queries, t \in Times : Register(cl, q, t)
  \/ \E f \in Files : PersistTo(f) \/ Load(f)
  \/ \E f, g \in Files : Combine(f, g)

Spec == Init /\ [][Next]_vars

----------------------------------------------------------------------------
(***************************************************************************)
(* Properties.                                                             *)
(***************************************************************************)

Images == {files[f] : f \in {g \in Files : files[g].present}}

\* What honas_state_check_host_name_lookups() says of key k and filter f.
Reported(m, f, k) == \A o \in OffsetsOf(f, k) : FilterBegin(f) + o \in m

\* Filter f of a state answers for every key registered in it.
Answers(m, p, f) == \A s \in p.seen : f \in FiltersOf(s[1]) => Reported(m, f, s[2])

\* Types of the state in memory.
StateTypeOK ==
  /\ live \in BOOLEAN
  /\ owned \in BOOLEAN
  /\ mem \subseteq 0..(HostNameRegisters + HllSize - 1)
  /\ client_count \in [Regs -> 0..(PowerOfTwo[RegBits] - 1)]
  /\ host_name_count \in [Regs -> 0..(PowerOfTwo[RegBits] - 1)]
  /\ header.first_request \in {0} \cup Times
  /\ header.last_request \in {0} \cup Times
  /\ saves \in 0..MaxSaves

\* Through any sequence of saves, loads and combinations a filter that has its
\* memory for itself reports every lookup registered in it, and so does the
\* one that shares memory with the client registers until lookups are
\* registered after a load.
NoFalseNegativeApart ==
  \A f \in Filters :
    /\ live /\ (past.resumed => ~Shared(f)) => Answers(mem, past, f)
    /\ \A x \in Images : (x.past.resumed => ~Shared(f)) => Answers(x.mem, x.past, f)

\* The registers a set of keys should leave.
Exact(ks) == AddOwned(NoRegs, ks)

SeenKeys(p) == {pair[2] : pair \in p.seen}

\* The estimate of distinct host names in a file counts exactly the keys that
\* were registered, however often the state was saved and loaded meanwhile; a
\* combination (registers or-ed) never counts less.
HostNamesCounted ==
  \A x \in Images :
    LET exact == Exact(SeenKeys(x.past))
    IN  IF x.past.merged
        THEN \A r \in Regs : x.header.host_names[r] >= exact[r]
        ELSE x.header.host_names = exact

\* The counts of set bits that honas-search and honas-info turn into a false
\* positive rate are those of the filters in the file.
BitsSetCounted ==
  \A x \in Images : \A f \in Filters :
    x.header.filter_bits_set[f] = Cardinality(x.mem \cap FilterCells(f))

TimesAgree(h, p) ==
  /\ h.number_of_requests = Len(p.times)
  /\ h.last_request = Max({0} \cup Range(p.times))
  /\ h.first_request <= h.last_request
  /\ ~p.merged /\ p.times # <<>> => h.first_request = Head(p.times)
  /\ h.period_begin = Min({period.begin : period \in p.periods})
  /\ h.period_end = Max({period.end : period \in p.periods})

\* With lookups in any order of time, saved, loaded and combined: every lookup
\* is counted, last_request is the latest, first_request the first processed,
\* the period runs from the begin of the earliest to the end of the last period
\* combined, and the bits of every filter are counted as they are in the file.
HeaderAgrees ==
  /\ StateTypeOK
  /\ BitsSetCounted
  /\ live => TimesAgree(header, past)
  /\ \A x \in Images : TimesAgree(x.header, x.past)

\* "The HyperLogLog datastructures are embedded in the state file to allow
\* state files to be saved and loaded multiple times while they're being
\* filled" (README.md): every filter of a state still reports every lookup.
NoFalseNegative ==
  \A f \in Filters :
    /\ live => Answers(mem, past, f)
    /\ \A x \in Images : Answers(x.mem, x.past, f)

=============================================================================
