------------------------- MODULE HonasStateProofs -------------------------
(***************************************************************************)
(* Proofs about HonasState, for every layout of filters and registers,     *)
(* every hash function and any sequence of registrations, saves, loads and *)
(* combinations.                                                           *)
(***************************************************************************)
EXTENDS HonasState, NumberLemmas, FiniteSetTheorems

\* Rounding up to whole pages yields a number that is not smaller.
LEMMA RoundUpBigger ==
  ASSUME NEW n \in Nat, Page \in Nat \ {0}
  PROVE  RoundUp(n) \in Nat /\ RoundUp(n) >= n
BY DEF RoundUp

----------------------------------------------------------------------------
(***************************************************************************)
(* The layout.                                                             *)
(***************************************************************************)

\* The registers lie behind each other, and the host names' behind the filters.
LEMMA Layout ==
  /\ HllSize \in Nat
  /\ ClientRegisters \in Nat
  /\ HostNameRegisters \in Nat
  /\ ClientRegisters + HllSize <= HostNameRegisters
  /\ \A i \in Filters : /\ FilterBegin(i) \in Nat
                        /\ FilterBegin(i) + FilterBits <= HostNameRegisters
<1> USE StateAssumption
<1>1. HllSize \in Nat
  BY DEF HllSize
<1>2. RoundUp(HllSize) \in Nat /\ RoundUp(HllSize) >= HllSize
  BY <1>1, RoundUpBigger
<1>3. RoundUp(FilterBits) \in Nat
  BY RoundUpBigger
<1> DEFINE stride == FilterBits + PaddingAfterFilters
<1>4. stride \in Nat
  BY <1>3 DEF PaddingAfterFilters
<1>5. FirstFilterOffset \in Nat
  BY RoundUpBigger DEF FirstFilterOffset
<1>6. ClientRegisters = NumFilters * stride
  BY DEF ClientRegisters
<1>7. \A i \in Int : FilterBegin(i) = FirstFilterOffset + i * stride
  BY DEF FilterBegin
<1> HIDE DEF stride
<1>8. ClientRegisters \in Nat
  BY <1>4, <1>6
<1>9. HostNameRegisters \in Nat /\ ClientRegisters + HllSize <= HostNameRegisters
  BY <1>1, <1>2, <1>8 DEF HostNameRegisters, PaddingAfterHll
<1>10. ASSUME NEW i \in Filters
       PROVE  FilterBegin(i) \in Nat /\ FilterBegin(i) + FilterBits <= HostNameRegisters
  <2>1. i \in Nat /\ NumFilters - 1 \in Nat /\ i <= NumFilters - 1
    BY DEF Filters
  <2>2. i * stride \in Nat /\ (NumFilters - 1) * stride \in Nat
        /\ i * stride <= (NumFilters - 1) * stride
    BY <1>4, <2>1, TimesMonotone
  <2>3. FilterBegin(NumFilters - 1) + FilterBits <= HostNameRegisters
    BY <1>9, <1>5, <1>7, <2>1, <2>2
  <2>4. QED
    BY <1>5, <1>7, <1>9, <2>1, <2>2, <2>3
<1>11. QED
  BY <1>1, <1>8, <1>9, <1>10

\* The cells of one register are among those of all, and a value written to a
\* register stays inside it.
LEMMA RegisterInside ==
  ASSUME NEW base \in Nat, NEW r \in Regs
  PROVE  /\ RegCells(base, r) \subseteq AllRegCells(base)
         /\ \A v : Cells(base, r, v) \subseteq RegCells(base, r)
<1> USE StateAssumption
<1>1. r \in Nat /\ r + 1 <= NumRegs
  BY DEF Regs
<1>2. r * RegBits \in Nat /\ (r + 1) * RegBits = r * RegBits + RegBits
  BY <1>1
<1>3. (r + 1) * RegBits <= HllSize /\ HllSize \in Nat
  BY <1>1, TimesMonotone DEF HllSize
<1> DEFINE p == r * RegBits
<1>4. RegCells(base, r) = (base + p)..(base + p + RegBits - 1)
  BY <1>2 DEF RegCells
<1>5. \A v : Cells(base, r, v) = {base + p + b : b \in NumberBits(v, RegBits)}
  BY DEF Cells
<1>6. p \in Nat /\ p + RegBits <= HllSize
  BY <1>2, <1>3
<1> HIDE DEF p
<1>7. RegCells(base, r) \subseteq AllRegCells(base)
  BY <1>3, <1>4, <1>6 DEF AllRegCells
<1>8. ASSUME NEW v, NEW x \in Cells(base, r, v)
      PROVE  x \in RegCells(base, r)
  <2>1. PICK b \in 0..(RegBits - 1) : x = base + p + b
    BY <1>5, <1>8 DEF NumberBits
  <2>2. QED
    BY <1>4, <1>6, <2>1
<1>9. QED
  BY <1>7, <1>8

\* Counting in registers in memory changes nothing but those registers.
LEMMA AddKeeps ==
  ASSUME NEW base \in Nat, NEW m, NEW xs
  PROVE  /\ \A x \in m : x \notin AllRegCells(base) => x \in AddInMemory(m, base, xs)
         /\ AddInMemory(m, base, xs) \subseteq m \cup AllRegCells(base)
<1> DEFINE old   == Registers(m, base)
           added == AddOwned(old, xs)
           hit   == {r \in Regs : added[r] # old[r]}
<1>1. AddInMemory(m, base, xs) = (m \ UNION {RegCells(base, r) : r \in hit})
                                   \cup UNION {Cells(base, r, added[r]) : r \in hit}
  BY DEF AddInMemory
<1>2. hit \subseteq Regs
  OBVIOUS
<1> HIDE DEF hit, added
<1>3. UNION {RegCells(base, r) : r \in hit} \subseteq AllRegCells(base)
  BY <1>2, RegisterInside
<1>4. UNION {Cells(base, r, added[r]) : r \in hit} \subseteq AllRegCells(base)
  BY <1>2, RegisterInside
<1>5. QED
  BY <1>1, <1>3, <1>4

\* The registers that persist() or-s into memory are those of the layout.
LEMMA AllCellsInside ==
  ASSUME NEW base \in Nat, NEW regs
  PROVE  AllCells(base, regs) \subseteq AllRegCells(base)
BY RegisterInside DEF AllCells

----------------------------------------------------------------------------
(***************************************************************************)
(* A state and the history of what was registered in it.                   *)
(***************************************************************************)
Memory == 0..(HostNameRegisters + HllSize - 1)

PastType ==
  [seen : SUBSET (Clients \X AllKeys), times : Seq(Times),
   periods : SUBSET [begin : Nat, end : Nat],
   resumed : BOOLEAN, merged : BOOLEAN]

\* A header has its fields, whatever estimates and bit counts it holds.
HeaderShape(h) ==
  h \in [period_begin : Nat, period_end : Nat, number_of_requests : Nat, first_request : {0} \cup Times,
         last_request : {0} \cup Times, clients : {h.clients},
         host_names : {h.host_names}, filter_bits_set : {h.filter_bits_set}]

\* last is the latest of the times, or 0 without any.
Latest(last, times) ==
  /\ last = 0 \/ \E i \in DOMAIN times : times[i] = last
  /\ \A i \in DOMAIN times : times[i] <= last

\* begin and end are those of the earliest and of the last of the periods.
Spans(begin, end, periods) ==
  /\ \E period \in periods : period.begin = begin
  /\ \E period \in periods : period.end = end
  /\ \A period \in periods : begin <= period.begin /\ period.end <= end

Counted(h, p) ==
  /\ h.number_of_requests = Len(p.times)
  /\ Latest(h.last_request, p.times)
  /\ h.first_request <= h.last_request
  /\ ~p.merged /\ p.times # <<>> => h.first_request = p.times[1]
  /\ Spans(h.period_begin, h.period_end, p.periods)

\* NoFalseNegativeApart for one state.
Sound(m, p) ==
  \A f \in Filters : (p.resumed => ~Shared(f)) => Answers(m, p, f)

Whole(m, h, p) ==
  /\ m \subseteq Memory
  /\ p \in PastType
  /\ HeaderShape(h)
  /\ Counted(h, p)
  /\ Sound(m, p)

BitsCounted(x) ==
  \A i \in Filters : x.header.filter_bits_set[i] = Cardinality(x.mem \cap FilterCells(i))

Counts == 0..(PowerOfTwo[RegBits] - 1)

Elements == Clients \cup AllKeys

LEMMA CountsAre ==
  /\ PowerOfTwo[RegBits] - 1 \in Nat
  /\ 0 \in Counts
  /\ Counts \subseteq Nat
  /\ \A x \in Elements : RegOf(x) \in Regs /\ RankOf(x) \in Counts
<1>1. PowerOfTwo[RegBits] \in Nat \ {0}
  BY Powers, StateAssumption
<1> DEFINE p == PowerOfTwo[RegBits]
<1>2. \A x \in Elements : RegOf(x) \in Regs /\ RankOf(x) \in 1..(p - 1)
  BY StateAssumption DEF Elements
<1> HIDE DEF p
<1>3. p \in Nat \ {0} /\ Counts = 0..(p - 1)
  BY <1>1 DEF p, Counts
<1>4. QED
  BY <1>2, <1>3 DEF p

\* Raised() is the greatest of the value and the ranks.
LEMMA RaisedIs ==
  ASSUME NEW v \in Counts, NEW r, NEW xs \in SUBSET Elements
  PROVE  /\ Raised(v, r, xs) \in Counts
         /\ v <= Raised(v, r, xs)
         /\ \A x \in xs : RegOf(x) = r => RankOf(x) <= Raised(v, r, xs)
         /\ \/ Raised(v, r, xs) = v
            \/ \E x \in xs : RegOf(x) = r /\ Raised(v, r, xs) = RankOf(x)
<1> DEFINE S == {v} \cup {RankOf(x) : x \in {y \in xs : RegOf(y) = r}}
           b == PowerOfTwo[RegBits] - 1
<1>1. S \subseteq Counts /\ S # {}
  BY CountsAre
<1>2. b \in Nat /\ Counts = 0..b
  BY CountsAre DEF Counts
<1>3. /\ v \in S /\ \A x \in xs : RegOf(x) = r => RankOf(x) \in S
      /\ \A z \in S : z = v \/ \E x \in xs : RegOf(x) = r /\ z = RankOf(x)
  OBVIOUS
<1>4. Raised(v, r, xs) = Max(S)
  BY DEF Raised
<1> HIDE DEF S, b
<1>5. Max(S) \in S /\ \A z \in S : Max(S) >= z
  BY <1>1, <1>2, MaxOfBounded
<1>6. \A z \in S : z \in Nat
  BY <1>1, CountsAre
<1> DEFINE max == Max(S)
<1> HIDE DEF max
<1>7. max \in S /\ \A z \in S : z <= max
  BY <1>5, <1>6 DEF max
<1>8. max = Raised(v, r, xs)
  BY <1>4 DEF max
<1>9. QED
  BY <1>1, <1>3, <1>7, <1>8

\* hllAdd(): registers hold ranks.
LEMMA AddTyped ==
  ASSUME NEW regs \in [Regs -> Counts], NEW xs \in SUBSET Elements
  PROVE  AddOwned(regs, xs) \in [Regs -> Counts]
BY RaisedIs DEF AddOwned

\* The invariant: whatever is in memory or in a file is whole.
StateInv ==
  /\ live \in BOOLEAN
  /\ owned \in BOOLEAN
  /\ saves \in 0..MaxSaves
  /\ client_count \in [Regs -> Counts]
  /\ host_name_count \in [Regs -> Counts]
  /\ Whole(mem, header, past)
  /\ files = [f \in Files |-> files[f]]
  /\ \A f \in Files : files[f].present =>
       Whole(files[f].mem, files[f].header, files[f].past) /\ BitsCounted(files[f])

\* The times of lookups.
LEMMA TimesTyped ==
  ASSUME NEW s \in Seq(Times)
  PROVE  /\ Len(s) \in Nat /\ DOMAIN s = 1..Len(s)
         /\ \A i \in 1..Len(s) : s[i] \in Times
         /\ \A t \in Times : t \in Nat /\ t > 0
         /\ \A i \in 1..Len(s) : s[i] \in Nat /\ s[i] > 0
         /\ s = <<>> <=> Len(s) = 0
<1>1. \A t \in Times : t \in Nat /\ t > 0
  BY StateAssumption
<1>2. /\ Len(s) \in Nat /\ DOMAIN s = 1..Len(s)
      /\ \A i \in 1..Len(s) : s[i] \in Times
      /\ s = <<>> <=> Len(s) = 0
  OBVIOUS
<1>3. QED
  BY <1>1, <1>2

\* The latest of the times, of one more and of two sequences together.
LEMMA LatestAppend ==
  ASSUME NEW s \in Seq(Times), NEW x \in Nat, Latest(x, s), NEW t \in Times
  PROVE  Latest(IF x < t THEN t ELSE x, Append(s, t))
<1>1. /\ Len(s) \in Nat /\ DOMAIN s = 1..Len(s) /\ t \in Nat
      /\ \A i \in 1..Len(s) : s[i] \in Nat
  BY TimesTyped
<1>2. /\ DOMAIN Append(s, t) = 1..(Len(s) + 1) /\ Append(s, t)[Len(s) + 1] = t
      /\ \A i \in 1..Len(s) : Append(s, t)[i] = s[i]
  OBVIOUS
<1> DEFINE a == Append(s, t)
<1> HIDE DEF a
<1>3. CASE x < t
  <2>1. \A i \in 1..(Len(s) + 1) : a[i] <= t
    BY <1>1, <1>2, <1>3 DEF Latest, a
  <2>2. QED
    BY <1>1, <1>2, <1>3, <2>1 DEF Latest, a
<1>4. CASE ~(x < t)
  <2>1. \A i \in 1..(Len(s) + 1) : a[i] <= x
    BY <1>1, <1>2, <1>4 DEF Latest, a
  <2>2. x = 0 \/ \E i \in 1..(Len(s) + 1) : a[i] = x
    BY <1>1, <1>2 DEF Latest, a
  <2>3. QED
    BY <1>2, <1>4, <2>1, <2>2 DEF Latest, a
<1>5. QED
  BY <1>3, <1>4

LEMMA LatestConcat ==
  ASSUME NEW a \in Seq(Times), NEW x \in Nat, Latest(x, a),
         NEW c \in Seq(Times), NEW y \in Nat, Latest(y, c)
  PROVE  Latest(Greater(x, y), a \o c) /\ Len(a \o c) = Len(a) + Len(c)
<1> DEFINE s == a \o c
           z == Greater(x, y)
<1>1. /\ Len(a) \in Nat /\ DOMAIN a = 1..Len(a) /\ Len(c) \in Nat /\ DOMAIN c = 1..Len(c)
      /\ \A i \in 1..Len(a) : a[i] \in Nat
      /\ \A i \in 1..Len(c) : c[i] \in Nat
  BY TimesTyped
<1>2. /\ Len(s) = Len(a) + Len(c) /\ DOMAIN s = 1..(Len(a) + Len(c))
      /\ \A i \in 1..Len(a) : s[i] = a[i]
      /\ \A i \in 1..Len(c) : s[Len(a) + i] = c[i]
  OBVIOUS
<1>3. z \in Nat /\ x <= z /\ y <= z /\ (z = x \/ z = y)
  BY DEF Greater
<1> HIDE DEF s, z
<1>4. ASSUME NEW i \in 1..(Len(a) + Len(c))
      PROVE  s[i] <= z
  <2>1. CASE i \in 1..Len(a)
    <3>1. s[i] = a[i] /\ a[i] \in Nat
      BY <1>1, <1>2, <2>1
    <3>2. a[i] <= x
      BY <1>1, <2>1 DEF Latest
    <3>3. QED
      BY <1>3, <3>1, <3>2
  <2>2. CASE i \notin 1..Len(a)
    <3>1. i - Len(a) \in 1..Len(c) /\ i = Len(a) + (i - Len(a))
      BY <1>1, <2>2
    <3>2. s[i] = c[i - Len(a)]
      BY <1>2, <3>1
    <3>3. c[i - Len(a)] \in Nat /\ c[i - Len(a)] <= y
      BY <1>1, <3>1 DEF Latest
    <3>4. QED
      BY <1>3, <3>2, <3>3
  <2>3. QED
    BY <2>1, <2>2
<1>5. z = 0 \/ \E i \in 1..(Len(a) + Len(c)) : s[i] = z
  <2>1. CASE z = x
    BY <1>1, <1>2, <2>1 DEF Latest
  <2>2. CASE z = y
    <3>1. ASSUME NEW i \in 1..Len(c), c[i] = y
          PROVE  \E j \in 1..(Len(a) + Len(c)) : s[j] = z
      <4>1. Len(a) + i \in 1..(Len(a) + Len(c))
        BY <1>1
      <4>2. QED
        BY <1>2, <2>2, <3>1, <4>1
    <3>2. QED
      BY <1>1, <2>2, <3>1 DEF Latest
  <2>3. QED
    BY <1>3, <2>1, <2>2
<1>6. QED
  BY <1>2, <1>4, <1>5 DEF Latest, s, z

\* The span of the periods of two states together.
LEMMA SpansMerged ==
  ASSUME NEW S \in SUBSET [begin : Nat, end : Nat], NEW T \in SUBSET [begin : Nat, end : Nat],
         NEW a \in Nat, NEW b \in Nat, Spans(a, b, S),
         NEW c \in Nat, NEW d \in Nat, Spans(c, d, T)
  PROVE  Spans(Lesser(a, c), Greater(b, d), S \cup T)
<1>1. \A period \in S \cup T : period.begin \in Nat /\ period.end \in Nat
  OBVIOUS
<1> DEFINE x == Lesser(a, c)
           y == Greater(b, d)
<1>2. /\ x \in Nat /\ x <= a /\ x <= c /\ (x = a \/ x = c)
      /\ y \in Nat /\ b <= y /\ d <= y /\ (y = b \/ y = d)
  BY DEF Lesser, Greater
<1> HIDE DEF x, y
<1>3. \E period \in S \cup T : period.begin = x
  BY <1>2 DEF Spans
<1>4. \E period \in S \cup T : period.end = y
  BY <1>2 DEF Spans
<1>5. \A period \in S \cup T : x <= period.begin /\ period.end <= y
  BY <1>1, <1>2 DEF Spans
<1>6. QED
  BY <1>3, <1>4, <1>5 DEF Spans, x, y

\* No state at all, and a state that was just created.
LEMMA NothingWhole == Whole({}, NoHeader, NoPast) /\ NoRegs \in [Regs -> Counts]
<1>1. NoPast \in PastType
  BY DEF NoPast, NoPeriod, PastType
<1>2. HeaderShape(NoHeader)
  BY DEF NoHeader, HeaderShape
<1>3. Counted(NoHeader, NoPast)
  <2>1. Spans(0, 0, {NoPeriod})
    BY DEF NoPeriod, Spans
  <2>2. /\ NoPast.times = <<>> /\ NoPast.periods = {NoPeriod}
        /\ NoHeader.number_of_requests = 0 /\ NoHeader.first_request = 0
        /\ NoHeader.last_request = 0 /\ NoHeader.period_begin = 0 /\ NoHeader.period_end = 0
    BY DEF NoHeader, NoPast
  <2>3. QED
    BY <2>1, <2>2 DEF Counted, Latest
<1>4. Sound({}, NoPast)
  BY DEF Sound, Answers, NoPast
<1>5. NoRegs \in [Regs -> Counts]
  BY CountsAre DEF NoRegs
<1>6. QED
  BY <1>1, <1>2, <1>3, <1>4, <1>5 DEF Whole

LEMMA CreatedWhole ==
  ASSUME NEW period \in Periods
  PROVE  Whole({}, [NoHeader EXCEPT !.period_begin = period.begin, !.period_end = period.end],
               [NoPast EXCEPT !.periods = {period}])
<1> DEFINE h == [NoHeader EXCEPT !.period_begin = period.begin, !.period_end = period.end]
           p == [NoPast EXCEPT !.periods = {period}]
<1>1. period \in [begin : Nat, end : Nat]
  BY StateAssumption
<1>2. p \in PastType
  <2>1. NoPast \in PastType
    BY NothingWhole DEF Whole
  <2>2. {period} \in SUBSET [begin : Nat, end : Nat]
    BY <1>1
  <2>3. QED
    BY <2>1, <2>2 DEF PastType
<1>3. HeaderShape(h)
  BY <1>1 DEF NoHeader, HeaderShape
<1>4. /\ h.number_of_requests = 0 /\ h.first_request = 0 /\ h.last_request = 0
      /\ h.period_begin = period.begin /\ h.period_end = period.end
      /\ p.times = <<>> /\ p.periods = {period} /\ p.seen = {}
  BY DEF NoHeader, NoPast
<1>5. Spans(period.begin, period.end, {period})
  BY <1>1 DEF Spans
<1> HIDE DEF h, p
<1>6. Counted(h, p)
  BY <1>4, <1>5 DEF Counted, Latest
<1>7. Sound({}, p)
  BY <1>4 DEF Sound, Answers
<1>8. Whole({}, h, p)
  BY <1>2, <1>3, <1>6, <1>7 DEF Whole
<1>9. QED
  BY <1>8 DEF h, p

\* More cells set, and more registered: a filter keeps answering.
LEMMA AnswersMore ==
  ASSUME NEW m, NEW n, NEW p, NEW f,
         \A o \in 0..(FilterBits - 1) : FilterBegin(f) + o \in m => FilterBegin(f) + o \in n,
         f \in Filters, p \in PastType, Answers(m, p, f)
  PROVE  Answers(n, p, f)
<1> SUFFICES ASSUME NEW s \in p.seen, f \in FiltersOf(s[1]), NEW o \in OffsetsOf(f, s[2])
             PROVE  FilterBegin(f) + o \in n
  BY DEF Answers, Reported
<1>1. s[2] \in AllKeys
  BY DEF PastType
<1>2. o \in 0..(FilterBits - 1)
  BY <1>1, StateAssumption
<1>3. FilterBegin(f) + o \in m
  BY DEF Answers, Reported
<1>4. QED
  BY <1>2, <1>3

\* The bits of a filter: in memory before the registers of the host names, and
\* apart from those of the clients unless it is the filter that shares them.
LEMMA BitPlace ==
  ASSUME NEW f \in Filters, NEW o \in 0..(FilterBits - 1)
  PROVE  /\ FilterBegin(f) + o \in Memory
         /\ FilterBegin(f) + o \notin AllRegCells(HostNameRegisters)
         /\ ~Shared(f) => FilterBegin(f) + o \notin AllRegCells(ClientRegisters)
<1>1. FilterBegin(f) + o \in FilterCells(f)
  BY Layout, StateAssumption DEF FilterCells
<1>2. QED
  BY <1>1, Layout, StateAssumption DEF Memory, Shared, AllRegCells

\* bloom_set() for the keys of a query makes the filters of the client answer.
LEMMA BloomAnswers ==
  ASSUME NEW cl \in Clients, NEW q \in Queries
  PROVE  /\ BloomCells(cl, Keys(q)) \subseteq Memory
         /\ Keys(q) \subseteq AllKeys
         /\ \A f \in FiltersOf(cl), k \in Keys(q) : \A o \in OffsetsOf(f, k) :
              o \in 0..(FilterBits - 1) /\ FilterBegin(f) + o \in BloomCells(cl, Keys(q))
<1>1. Keys(q) \subseteq AllKeys
  BY DEF AllKeys
<1>2. \A f \in FiltersOf(cl) : f \in Filters
  BY StateAssumption
<1>3. \A f \in FiltersOf(cl), k \in Keys(q) : \A o \in OffsetsOf(f, k) : o \in 0..(FilterBits - 1)
  BY <1>1, <1>2, StateAssumption
<1>4. \A f \in FiltersOf(cl), k \in Keys(q) : \A o \in OffsetsOf(f, k) :
        FilterBegin(f) + o \in BloomCells(cl, Keys(q))
  <2> SUFFICES ASSUME NEW f \in FiltersOf(cl), NEW k \in Keys(q), NEW o \in OffsetsOf(f, k)
               PROVE  FilterBegin(f) + o \in BloomCells(cl, Keys(q))
    OBVIOUS
  <2> DEFINE C == {{FilterBegin(g) + b : b \in OffsetsOf(g, j)} : g \in FiltersOf(cl), j \in Keys(q)}
             B == {FilterBegin(f) + b : b \in OffsetsOf(f, k)}
  <2>1. FilterBegin(f) + o \in B
    OBVIOUS
  <2>2. B \in C
    OBVIOUS
  <2>3. BloomCells(cl, Keys(q)) = UNION C
    BY DEF BloomCells
  <2> HIDE DEF B, C
  <2>4. QED
    BY <2>1, <2>2, <2>3
<1>5. ASSUME NEW x \in BloomCells(cl, Keys(q))
      PROVE  x \in Memory
  <2>1. PICK f \in FiltersOf(cl), k \in Keys(q) : x \in {FilterBegin(f) + o : o \in OffsetsOf(f, k)}
    BY <1>5 DEF BloomCells
  <2>2. QED
    BY <1>2, <1>3, <2>1, BitPlace
<1>6. QED
  BY <1>1, <1>3, <1>4, <1>5

\* The memory after a lookup: the bits of the filters that are not shared, and of
\* all filters while the registers are not in memory, stay set.
LEMMA RegisterMemory ==
  ASSUME StateInv, NEW cl \in Clients, NEW q \in Queries, NEW t \in Times, Register(cl, q, t)
  PROVE  /\ mem' \subseteq Memory
         /\ \A f \in Filters : owned \/ ~Shared(f) =>
              \A o \in 0..(FilterBits - 1) :
                FilterBegin(f) + o \in mem \cup BloomCells(cl, Keys(q)) =>
                  FilterBegin(f) + o \in mem'
<1> DEFINE ks == Keys(q)
           counted == IF owned THEN mem ELSE AddInMemory(mem, ClientRegisters, {cl})
           set == counted \cup BloomCells(cl, ks)
<1>1. mem' = IF owned THEN set ELSE AddInMemory(set, HostNameRegisters, ks)
  BY DEF Register
<1>2. mem \subseteq Memory /\ BloomCells(cl, ks) \subseteq Memory
  BY BloomAnswers DEF StateInv, Whole
<1>3. ClientRegisters \in Nat /\ HostNameRegisters \in Nat
  BY Layout
<1> HIDE DEF ks
<1>4. CASE owned
  BY <1>1, <1>2, <1>4 DEF ks
<1>5. CASE ~owned
  <2>1. AllRegCells(ClientRegisters) \subseteq Memory /\ AllRegCells(HostNameRegisters) \subseteq Memory
    BY Layout DEF AllRegCells, Memory
  <2>2. counted \subseteq Memory
    BY <1>2, <1>3, <1>5, <2>1, AddKeeps
  <2>3. ASSUME NEW x \in mem \cup BloomCells(cl, ks), x \notin AllRegCells(ClientRegisters)
        PROVE  x \in set
    BY <1>3, <1>5, <2>3, AddKeeps
  <2>4. mem' = AddInMemory(set, HostNameRegisters, ks)
    BY <1>1, <1>5
  <2> HIDE DEF counted
  <2>5. set \subseteq Memory
    BY <1>2, <2>2
  <2> HIDE DEF set
  <2>6. mem' \subseteq Memory
    BY <1>3, <2>1, <2>4, <2>5, AddKeeps
  <2>7. ASSUME NEW x \in set, x \notin AllRegCells(HostNameRegisters)
        PROVE  x \in mem'
    BY <1>3, <2>4, <2>7, AddKeeps
  <2>8. ASSUME NEW f \in Filters, ~Shared(f), NEW o \in 0..(FilterBits - 1),
               FilterBegin(f) + o \in mem \cup BloomCells(cl, ks)
        PROVE  FilterBegin(f) + o \in mem'
    BY <2>3, <2>7, <2>8, BitPlace
  <2>9. QED
    BY <1>5, <2>6, <2>8 DEF ks
<1>6. QED
  BY <1>4, <1>5

\* honas_state_register_host_name_lookup(): the header after a lookup.
LEMMA TouchedCounts ==
  ASSUME NEW h, NEW p, NEW t \in Times, HeaderShape(h), p \in PastType, Counted(h, p),
         NEW pp, pp.times = Append(p.times, t), pp.merged = p.merged, pp.periods = p.periods
  PROVE  HeaderShape(Touched(h, t)) /\ Counted(Touched(h, t), pp)
<1> DEFINE k == Touched(h, t)
           s == p.times
<1>1. /\ HeaderShape(k)
      /\ k.number_of_requests = h.number_of_requests + 1
      /\ k.last_request = IF h.last_request < t THEN t ELSE h.last_request
      /\ k.first_request = IF h.last_request < t /\ h.first_request = 0 THEN t ELSE h.first_request
      /\ k.period_begin = h.period_begin /\ k.period_end = h.period_end
  <2> DEFINE n == h.number_of_requests + 1
             a == IF h.last_request < t /\ h.first_request = 0 THEN t ELSE h.first_request
             b == IF h.last_request < t THEN t ELSE h.last_request
  <2>1. k = [h EXCEPT !.number_of_requests = n, !.first_request = a, !.last_request = b]
    BY DEF HeaderShape, Touched
  <2>2. n \in Nat /\ a \in {0} \cup Times /\ b \in {0} \cup Times
    BY DEF HeaderShape
  <2> HIDE DEF k, n, a, b
  <2>3. /\ HeaderShape(k) /\ k.number_of_requests = n /\ k.first_request = a /\ k.last_request = b
        /\ k.period_begin = h.period_begin /\ k.period_end = h.period_end
    BY <2>1, <2>2 DEF HeaderShape
  <2>4. QED
    BY <2>3 DEF n, a, b
<1>2. /\ t \in Nat /\ t > 0 /\ h.last_request \in Nat /\ h.first_request \in Nat
      /\ s \in Seq(Times) /\ Len(s) \in Nat
      /\ \A i \in 1..Len(s) : s[i] \in Times /\ s[i] \in Nat /\ s[i] > 0
  <2>1. s \in Seq(Times) /\ h.last_request \in {0} \cup Times /\ h.first_request \in {0} \cup Times
    BY DEF HeaderShape, PastType
  <2> HIDE DEF s
  <2>2. QED
    BY <2>1, TimesTyped
<1>3. /\ Len(pp.times) = Len(s) + 1 /\ DOMAIN pp.times = 1..(Len(s) + 1) /\ DOMAIN s = 1..Len(s)
      /\ pp.times[Len(s) + 1] = t
      /\ \A i \in 1..Len(s) : pp.times[i] = s[i]
      /\ s = <<>> <=> Len(s) = 0
  <2>1. pp.times = Append(s, t)
    OBVIOUS
  <2> HIDE DEF s
  <2>2. QED
    BY <1>2, <2>1, TimesTyped
<1>4. Latest(h.last_request, s) /\ h.first_request <= h.last_request
      /\ h.number_of_requests = Len(s) /\ (~p.merged /\ s # <<>> => h.first_request = s[1])
      /\ Spans(h.period_begin, h.period_end, p.periods)
  BY DEF Counted
<1> HIDE DEF k, s
<1>5. Latest(k.last_request, pp.times)
  BY <1>1, <1>2, <1>4, LatestAppend DEF s
<1>6. k.first_request <= k.last_request
  BY <1>1, <1>2, <1>4
<1>7. ~p.merged => k.first_request = pp.times[1]
  <2>1. CASE s = <<>>
    <3>1. h.last_request = 0 /\ h.first_request = 0
      BY <1>2, <1>3, <1>4, <2>1 DEF Latest
    <3>2. QED
      BY <1>1, <1>2, <1>3, <2>1, <3>1
  <2>2. CASE s # <<>>
    BY <1>1, <1>2, <1>3, <1>4, <2>2
  <2>3. QED
    BY <2>1, <2>2
<1>8. QED
  BY <1>1, <1>3, <1>4, <1>5, <1>6, <1>7 DEF Counted, k, s

\* A lookup leaves a whole state.
LEMMA RegisterWhole ==
  ASSUME StateInv, NEW cl \in Clients, NEW q \in Queries, NEW t \in Times, Register(cl, q, t)
  PROVE  Whole(mem', header', past')
<1>0. Whole(mem, header, past) /\ past \in PastType /\ owned \in BOOLEAN
  BY DEF StateInv, Whole
<1>1. /\ header' = Touched(header, t)
      /\ past' = [past EXCEPT !.seen = @ \cup {<<cl, k>> : k \in Keys(q)},
                              !.times = Append(@, t),
                              !.resumed = @ \/ ~owned]
  BY DEF Register
<1>2. /\ past'.seen = past.seen \cup {<<cl, k>> : k \in Keys(q)}
      /\ past'.times = Append(past.times, t)
      /\ past'.resumed = (past.resumed \/ ~owned)
      /\ past'.merged = past.merged
      /\ past'.periods = past.periods
  BY <1>0, <1>1 DEF PastType
<1>3. past' \in PastType
  <2>1. Keys(q) \subseteq AllKeys
    BY BloomAnswers
  <2>2. past'.seen \in SUBSET (Clients \X AllKeys)
    BY <1>0, <1>2, <2>1 DEF PastType
  <2>3. past'.times \in Seq(Times)
    BY <1>0, <1>2 DEF PastType
  <2>4. past'.resumed \in BOOLEAN /\ past'.merged \in BOOLEAN
    BY <1>0, <1>2 DEF PastType
  <2>5. past' = [seen |-> past'.seen, times |-> past'.times, periods |-> past'.periods,
                 resumed |-> past'.resumed, merged |-> past'.merged]
    BY <1>0, <1>1 DEF PastType
  <2>6. past'.periods \in SUBSET [begin : Nat, end : Nat]
    BY <1>0, <1>2 DEF PastType
  <2>7. QED
    BY <2>2, <2>3, <2>4, <2>5, <2>6 DEF PastType
<1>4. HeaderShape(header') /\ Counted(header', past')
  BY <1>0, <1>1, <1>2, TouchedCounts DEF Whole
<1>5. Sound(mem', past')
  <2> SUFFICES ASSUME NEW f \in Filters, past'.resumed => ~Shared(f)
               PROVE  Answers(mem', past', f)
    BY DEF Sound
  <2>1. (past.resumed => ~Shared(f)) /\ (owned \/ ~Shared(f))
    BY <1>0, <1>2
  <2>2. \A o \in 0..(FilterBits - 1) :
          FilterBegin(f) + o \in mem \cup BloomCells(cl, Keys(q)) => FilterBegin(f) + o \in mem'
    BY <2>1, RegisterMemory
  <2>3. Answers(mem, past, f)
    BY <1>0, <2>1 DEF Whole, Sound
  <2>4. Answers(mem', past, f)
    BY <1>0, <2>2, <2>3, AnswersMore
  <2>5. ASSUME NEW k \in Keys(q), f \in FiltersOf(cl)
        PROVE  Reported(mem', f, k)
    BY <2>2, <2>5, BloomAnswers DEF Reported
  <2>6. QED
    BY <1>2, <2>4, <2>5 DEF Answers
<1>6. QED
  BY <1>3, <1>4, <1>5, RegisterMemory DEF Whole

\* honas_state_persist() keeps a state whole and counts the bits of its filters.
LEMMA SavedWhole ==
  ASSUME NEW m, NEW own, NEW cc, NEW hc, NEW h, NEW p, Whole(m, h, p),
         NEW x, x = Saved(m, own, cc, hc, h, p)
  PROVE  x.present /\ Whole(x.mem, x.header, x.past) /\ BitsCounted(x)
<1> DEFINE full == IF own THEN m \cup AllCells(ClientRegisters, cc)
                                  \cup AllCells(HostNameRegisters, hc)
                   ELSE m
           k == [h EXCEPT !.clients = Registers(full, ClientRegisters),
                          !.host_names = Registers(full, HostNameRegisters),
                          !.filter_bits_set =
                             [i \in Filters |-> Cardinality(full \cap FilterCells(i))]]
<1>1. x.present = TRUE /\ x.mem = full /\ x.past = p /\ x.header = k
  BY DEF Saved
<1>2. m \subseteq full /\ full \subseteq Memory
  <2>1. ClientRegisters \in Nat /\ HostNameRegisters \in Nat
    BY Layout
  <2>2. AllRegCells(ClientRegisters) \subseteq Memory /\ AllRegCells(HostNameRegisters) \subseteq Memory
    BY Layout DEF AllRegCells, Memory
  <2>3. AllCells(ClientRegisters, cc) \subseteq Memory /\ AllCells(HostNameRegisters, hc) \subseteq Memory
    BY <2>1, <2>2, AllCellsInside
  <2>4. QED
    BY <2>3 DEF Whole
<1> HIDE DEF full
<1>3. /\ HeaderShape(k) /\ k.number_of_requests = h.number_of_requests
      /\ k.first_request = h.first_request /\ k.last_request = h.last_request
      /\ k.period_begin = h.period_begin /\ k.period_end = h.period_end
      /\ k.filter_bits_set = [i \in Filters |-> Cardinality(full \cap FilterCells(i))]
  BY DEF Whole, HeaderShape
<1> HIDE DEF k
<1>4. Counted(k, p)
  BY <1>3 DEF Whole, Counted
<1>5. Sound(full, p)
  BY <1>2, AnswersMore DEF Sound, Whole
<1>6. Whole(full, k, p)
  BY <1>2, <1>3, <1>4, <1>5 DEF Whole
<1>7. QED
  BY <1>1, <1>3, <1>6 DEF BitsCounted

\* honas_state_aggregate_combine() makes a whole state of two.
LEMMA CombinedWhole ==
  ASSUME NEW m, NEW h, NEW p, Whole(m, h, p), NEW n, NEW g, NEW r, Whole(n, g, r)
  PROVE  Whole(MergedMem(m, n), MergedHeader(h, g), MergedPast(p, r))
<1> DEFINE k == MergedHeader(h, g)
           b == MergedPast(p, r)
<1>1. /\ b.seen = p.seen \cup r.seen /\ b.times = p.times \o r.times
      /\ b.periods = p.periods \cup r.periods
      /\ b.resumed = (p.resumed \/ r.resumed) /\ b.merged = TRUE
  BY DEF MergedPast
<1>2. p \in PastType /\ r \in PastType /\ HeaderShape(h) /\ HeaderShape(g)
  BY DEF Whole
<1>3. b \in PastType
  <2>1. p.times \o r.times \in Seq(Times)
    BY <1>2 DEF PastType
  <2>2. p.seen \cup r.seen \in SUBSET (Clients \X AllKeys)
    BY <1>2 DEF PastType
  <2>3. (p.resumed \/ r.resumed) \in BOOLEAN
    OBVIOUS
  <2>4. p.periods \cup r.periods \in SUBSET [begin : Nat, end : Nat]
    BY <1>2 DEF PastType
  <2>5. QED
    BY <2>1, <2>2, <2>3, <2>4 DEF MergedPast, PastType
<1>4. /\ k.number_of_requests = h.number_of_requests + g.number_of_requests
      /\ k.first_request = Lesser(h.first_request, g.first_request)
      /\ k.last_request = Greater(h.last_request, g.last_request)
      /\ k.period_begin = Lesser(h.period_begin, g.period_begin)
      /\ k.period_end = Greater(h.period_end, g.period_end)
  BY <1>2 DEF MergedHeader, HeaderShape
<1>5. HeaderShape(k)
  <2> DEFINE q == h.number_of_requests + g.number_of_requests
             a == Lesser(h.first_request, g.first_request)
             c == Greater(h.last_request, g.last_request)
             u == Lesser(h.period_begin, g.period_begin)
             v == Greater(h.period_end, g.period_end)
  <2>1. k = [h EXCEPT !.number_of_requests = q, !.period_begin = u, !.period_end = v,
                      !.first_request = a, !.last_request = c]
    BY <1>2 DEF MergedHeader
  <2>2. q \in Nat /\ a \in {0} \cup Times /\ c \in {0} \cup Times /\ u \in Nat /\ v \in Nat
    BY <1>2 DEF HeaderShape, Lesser, Greater
  <2> HIDE DEF k, q, a, c, u, v
  <2>3. QED
    BY <1>2, <2>1, <2>2 DEF HeaderShape
<1> HIDE DEF k, b
<1>6. /\ h.first_request \in Nat /\ h.last_request \in Nat
      /\ g.first_request \in Nat /\ g.last_request \in Nat
      /\ h.period_begin \in Nat /\ h.period_end \in Nat
      /\ g.period_begin \in Nat /\ g.period_end \in Nat
  <2>1. \A x \in {0} \cup Times : x \in Nat
    BY StateAssumption
  <2>2. QED
    BY <1>2, <2>1 DEF HeaderShape
<1>7. p.times \in Seq(Times) /\ r.times \in Seq(Times)
  BY <1>2 DEF PastType
<1>9. /\ Latest(h.last_request, p.times) /\ Latest(g.last_request, r.times)
      /\ h.first_request <= h.last_request /\ g.first_request <= g.last_request
      /\ h.number_of_requests = Len(p.times) /\ g.number_of_requests = Len(r.times)
  BY DEF Whole, Counted
<1>10. Latest(k.last_request, b.times) /\ k.number_of_requests = Len(b.times)
  BY <1>1, <1>4, <1>6, <1>7, <1>9, LatestConcat
<1>11. Counted(k, b)
  <2>1. k.first_request <= k.last_request
    BY <1>4, <1>6, <1>9 DEF Lesser, Greater
  <2>2. Spans(k.period_begin, k.period_end, b.periods)
    <3>1. /\ Spans(h.period_begin, h.period_end, p.periods)
          /\ Spans(g.period_begin, g.period_end, r.periods)
      BY DEF Whole, Counted
    <3>2. /\ p.periods \in SUBSET [begin : Nat, end : Nat]
          /\ r.periods \in SUBSET [begin : Nat, end : Nat]
      BY <1>2 DEF PastType
    <3>3. QED
      BY <1>1, <1>4, <1>6, <3>1, <3>2, SpansMerged
  <2>3. QED
    BY <1>1, <1>10, <2>1, <2>2 DEF Counted
<1>12. Sound(m \cup n, b)
  <2> SUFFICES ASSUME NEW f \in Filters, b.resumed => ~Shared(f)
               PROVE  Answers(m \cup n, b, f)
    BY DEF Sound
  <2>1. (p.resumed => ~Shared(f)) /\ (r.resumed => ~Shared(f))
    BY <1>1
  <2>2. Answers(m, p, f) /\ Answers(n, r, f)
    BY <2>1 DEF Whole, Sound
  <2>3. Answers(m \cup n, p, f) /\ Answers(m \cup n, r, f)
    BY <1>2, <2>2, AnswersMore
  <2>4. QED
    BY <1>1, <2>3 DEF Answers
<1>13. m \cup n \subseteq Memory
  BY DEF Whole
<1>14. QED
  BY <1>3, <1>5, <1>11, <1>12, <1>13 DEF Whole, MergedMem, k, b

----------------------------------------------------------------------------
\* A file that is written or removed leaves the others whole.
LEMMA FilesWhole ==
  ASSUME StateInv, NEW f \in Files, NEW x, files' = [files EXCEPT ![f] = x],
         x.present => Whole(x.mem, x.header, x.past) /\ BitsCounted(x)
  PROVE  /\ files' = [g \in Files |-> files'[g]]
         /\ \A g \in Files : files'[g].present =>
              Whole(files'[g].mem, files'[g].header, files'[g].past) /\ BitsCounted(files'[g])
<1>1. files = [g \in Files |-> files[g]]
  BY DEF StateInv
<1>2. files' = [g \in Files |-> files'[g]] /\ files'[f] = x
  BY <1>1
<1>3. \A g \in Files \ {f} : files'[g] = files[g]
  BY <1>1
<1>4. QED
  BY <1>2, <1>3 DEF StateInv

\* Every operation keeps what is in memory and in files whole.
LEMMA StateStep == StateInv /\ [Next]_vars => StateInv'
<1> SUFFICES ASSUME StateInv, [Next]_vars
             PROVE  StateInv'
  OBVIOUS
<1>0. saves \in 0..MaxSaves /\ MaxSaves \in Nat
  BY StateAssumption DEF StateInv
<1>1. ASSUME NEW period \in Periods, Create(period)
      PROVE  StateInv'
  <2>1. Whole(mem', header', past')
    BY <1>1, CreatedWhole DEF Create
  <2>2. QED
    BY <1>1, <2>1, NothingWhole DEF Create, StateInv
<1>2. ASSUME NEW cl \in Clients, NEW q \in Queries, NEW t \in Times, Register(cl, q, t)
      PROVE  StateInv'
  <2>1. Whole(mem', header', past')
    BY <1>2, RegisterWhole
  <2>2. Keys(q) \in SUBSET Elements /\ {cl} \in SUBSET Elements
    BY BloomAnswers DEF Elements
  <2>3. client_count' \in [Regs -> Counts]
    BY <1>2, <2>2, AddTyped DEF Register, StateInv
  <2>4. host_name_count' \in [Regs -> Counts]
    BY <1>2, <2>2, AddTyped DEF Register, StateInv
  <2>5. UNCHANGED <<live, owned, files, saves>>
    BY <1>2 DEF Register
  <2>6. QED
    BY <2>1, <2>3, <2>4, <2>5 DEF StateInv
<1>3. ASSUME NEW f \in Files, PersistTo(f)
      PROVE  StateInv'
  <2> DEFINE x == Saved(mem, owned, client_count, host_name_count, header, past)
  <2>1. files' = [files EXCEPT ![f] = x] /\ Destroy /\ saves' = saves + 1 /\ saves < MaxSaves
    BY <1>3 DEF PersistTo
  <2>2. x.present /\ Whole(x.mem, x.header, x.past) /\ BitsCounted(x)
    BY SavedWhole DEF StateInv
  <2> HIDE DEF x
  <2>3. /\ files' = [g \in Files |-> files'[g]]
        /\ \A g \in Files : files'[g].present =>
             Whole(files'[g].mem, files'[g].header, files'[g].past) /\ BitsCounted(files'[g])
    BY <2>1, <2>2, FilesWhole
  <2>4. saves' \in 0..MaxSaves
    BY <1>0, <2>1
  <2>5. QED
    BY <2>1, <2>3, <2>4, NothingWhole DEF StateInv, Destroy
<1>4. ASSUME NEW f \in Files, Load(f)
      PROVE  StateInv'
  <2>1. files' = [files EXCEPT ![f] = Absent] /\ files[f].present
    BY <1>4 DEF Load
  <2>2. ~Absent.present
    BY DEF Absent
  <2>3. /\ files' = [g \in Files |-> files'[g]]
        /\ \A g \in Files : files'[g].present =>
             Whole(files'[g].mem, files'[g].header, files'[g].past) /\ BitsCounted(files'[g])
    BY <2>1, <2>2, FilesWhole
  <2>4. Whole(mem', header', past')
    BY <1>4, <2>1 DEF Load, StateInv
  <2>5. QED
    BY <1>4, <2>3, <2>4, NothingWhole DEF Load, StateInv
<1>5. ASSUME NEW f \in Files, NEW g \in Files, Combine(f, g)
      PROVE  StateInv'
  <2> DEFINE m == MergedMem(files[f].mem, files[g].mem)
             h == MergedHeader(files[f].header, files[g].header)
             p == MergedPast(files[f].past, files[g].past)
             x == Saved(m, FALSE, NoRegs, NoRegs, h, p)
  <2>1. /\ files' = [files EXCEPT ![f] = x] /\ saves' = saves + 1 /\ saves < MaxSaves
        /\ files[f].present /\ files[g].present
        /\ UNCHANGED <<live, mem, owned, client_count, host_name_count, header, past>>
    BY <1>5 DEF Combine
  <2>2. Whole(m, h, p)
    BY <2>1, CombinedWhole DEF StateInv
  <2> HIDE DEF m, h, p
  <2>3. x.present /\ Whole(x.mem, x.header, x.past) /\ BitsCounted(x)
    BY <2>2, SavedWhole
  <2> HIDE DEF x
  <2>4. /\ files' = [e \in Files |-> files'[e]]
        /\ \A e \in Files : files'[e].present =>
             Whole(files'[e].mem, files'[e].header, files'[e].past) /\ BitsCounted(files'[e])
    BY <2>1, <2>3, FilesWhole
  <2>5. saves' \in 0..MaxSaves
    BY <1>0, <2>1
  <2>6. QED
    BY <2>1, <2>4, <2>5 DEF StateInv
<1>6. CASE UNCHANGED vars
  BY <1>6 DEF vars, StateInv
<1>7. QED
  BY <1>1, <1>2, <1>3, <1>4, <1>5, <1>6 DEF Next

\* The invariant holds for every layout, every hash and every history.
THEOREM StateInvariant == Spec => []StateInv
<1>1. Init => StateInv
  <2> SUFFICES ASSUME Init PROVE StateInv
    OBVIOUS
  <2>1. Whole(mem, header, past) /\ client_count \in [Regs -> Counts]
        /\ host_name_count \in [Regs -> Counts]
    BY NothingWhole DEF Init
  <2>2. live \in BOOLEAN /\ owned \in BOOLEAN
    BY DEF Init
  <2>3. saves \in 0..MaxSaves
    BY StateAssumption DEF Init
  <2>4. files = [f \in Files |-> files[f]] /\ \A f \in Files : files[f] = Absent
    BY DEF Init
  <2>5. ~Absent.present
    BY DEF Absent
  <2>6. QED
    BY <2>1, <2>2, <2>3, <2>4, <2>5 DEF StateInv
<1>2. QED
  BY <1>1, StateStep, PTL DEF Spec

----------------------------------------------------------------------------
(***************************************************************************)
(* The registers of the host names.                                        *)
(***************************************************************************)

\* The greatest of more ranks.
LEMMA RaisedTwice ==
  ASSUME NEW v \in Counts, NEW r, NEW xs \in SUBSET Elements, NEW ys \in SUBSET Elements
  PROVE  Raised(Raised(v, r, xs), r, ys) = Raised(v, r, xs \cup ys)
<1> DEFINE a == Raised(v, r, xs)
           b == Raised(a, r, ys)
           c == Raised(v, r, xs \cup ys)
<1>1. /\ a \in Counts /\ v <= a
      /\ \A x \in xs : RegOf(x) = r => RankOf(x) <= a
      /\ a = v \/ \E x \in xs : RegOf(x) = r /\ a = RankOf(x)
  BY RaisedIs
<1>2. /\ c \in Counts /\ v <= c
      /\ \A x \in xs \cup ys : RegOf(x) = r => RankOf(x) <= c
      /\ c = v \/ \E x \in xs \cup ys : RegOf(x) = r /\ c = RankOf(x)
  <2>1. xs \cup ys \in SUBSET Elements
    OBVIOUS
  <2>2. QED
    BY <2>1, RaisedIs
<1> HIDE DEF a, c
<1>3. /\ b \in Counts /\ a <= b
      /\ \A x \in ys : RegOf(x) = r => RankOf(x) <= b
      /\ b = a \/ \E x \in ys : RegOf(x) = r /\ b = RankOf(x)
  BY <1>1, RaisedIs
<1> HIDE DEF b
<1>4. a \in Nat /\ b \in Nat /\ c \in Nat /\ v \in Nat
      /\ \A x \in xs \cup ys : RankOf(x) \in Nat
  BY <1>1, <1>2, <1>3, CountsAre
<1>5. a <= c
  BY <1>1, <1>2, <1>4
<1>6. b <= c
  BY <1>2, <1>3, <1>4, <1>5
<1>7. \A x \in xs \cup ys : RegOf(x) = r => RankOf(x) <= b
  BY <1>1, <1>3, <1>4
<1>8. c <= b
  BY <1>1, <1>2, <1>3, <1>4, <1>7
<1>9. b = c
  BY <1>4, <1>6, <1>8
<1>10. QED
  BY <1>9 DEF a, b, c

\* ... and of a greater value.
LEMMA RaisedMonotone ==
  ASSUME NEW v \in Counts, NEW w \in Counts, v <= w, NEW r, NEW xs \in SUBSET Elements
  PROVE  Raised(v, r, xs) <= Raised(w, r, xs)
<1> DEFINE a == Raised(v, r, xs)
           b == Raised(w, r, xs)
<1>1. a \in Counts /\ (a = v \/ \E x \in xs : RegOf(x) = r /\ a = RankOf(x))
  BY RaisedIs
<1>2. b \in Counts /\ w <= b /\ \A x \in xs : RegOf(x) = r => RankOf(x) <= b
  BY RaisedIs
<1> HIDE DEF a, b
<1>3. a \in Nat /\ b \in Nat /\ v \in Nat /\ w \in Nat
  BY <1>1, <1>2, CountsAre
<1>4. a <= b
  BY <1>1, <1>2, <1>3
<1>5. QED
  BY <1>4 DEF a, b

\* Where bit x of register r lies.
CellOf(base, r, x) == base + r * RegBits + x

RegisterBits == 0..(RegBits - 1)

LEMMA Places ==
  ASSUME NEW base \in Nat
  PROVE  /\ \A r, s \in Regs : \A x, y \in RegisterBits :
              CellOf(base, r, x) = CellOf(base, s, y) => r = s /\ x = y
         /\ \A r \in Regs : /\ RegCells(base, r) = {CellOf(base, r, x) : x \in RegisterBits}
                            /\ RegCells(base, r) \subseteq AllRegCells(base)
<1> USE StateAssumption
<1> DEFINE n == RegBits
<1>1. \A r, s \in Nat : r < s => r * n + n <= s * n
  <2>1. ASSUME NEW r \in Nat, NEW s \in Nat, r < s
        PROVE  r * n + n <= s * n
    <3>1. r + 1 <= s /\ r + 1 \in Nat /\ n \in Nat
      BY <2>1
    <3>2. (r + 1) * n <= s * n
      BY <3>1, TimesMonotone
    <3>3. (r + 1) * n = r * n + n
      BY <3>1
    <3>4. QED
      BY <3>2, <3>3
  <2>2. QED
    BY <2>1
<1>2. n \in Nat \ {0} /\ RegisterBits = 0..(n - 1) /\ \A r \in Nat : r * n \in Nat
  BY DEF RegisterBits
<1>3. ASSUME NEW r \in Regs, NEW s \in Regs, NEW x \in RegisterBits, NEW y \in RegisterBits,
             CellOf(base, r, x) = CellOf(base, s, y)
      PROVE  r = s /\ x = y
  <2>1. r \in Nat /\ s \in Nat
    BY DEF Regs
  <2> DEFINE a == r * n
             b == s * n
  <2>2. base + a + x = base + b + y
    BY <1>3 DEF CellOf
  <2>3. a \in Nat /\ b \in Nat /\ (r < s => a + n <= b) /\ (s < r => b + n <= a)
    BY <1>1, <1>2, <2>1
  <2>4. r = s => a = b
    OBVIOUS
  <2> HIDE DEF a, b, n
  <2>5. QED
    BY <1>2, <2>1, <2>2, <2>3, <2>4
<1>4. ASSUME NEW r \in Regs
      PROVE  RegCells(base, r) = {CellOf(base, r, x) : x \in RegisterBits}
  <2>1. r \in Nat
    BY DEF Regs
  <2> DEFINE a == base + r * n
  <2>2. a \in Nat /\ (r + 1) * n = r * n + n
    BY <1>2, <2>1
  <2>3. RegCells(base, r) = a..(a + n - 1)
    BY <1>2, <2>1, <2>2 DEF RegCells
  <2>4. \A x \in RegisterBits : CellOf(base, r, x) = a + x
    BY DEF CellOf
  <2> HIDE DEF a, n
  <2>5. \A c \in a..(a + n - 1) : c - a \in RegisterBits /\ a + (c - a) = c
    BY <1>2, <2>2
  <2>6. \A x \in RegisterBits : a + x \in a..(a + n - 1)
    BY <1>2, <2>2
  <2>7. QED
    BY <2>3, <2>4, <2>5, <2>6
<1>5. QED
  BY <1>3, <1>4, RegisterInside

\* A register reads as the number whose bits are set in its cells.
LEMMA Reads ==
  ASSUME NEW base \in Nat, NEW m, NEW r \in Regs
  PROVE  /\ Registers(m, base)[r] = Value(m, base, r)
         /\ Value(m, base, r) \in Counts
         /\ Value(m, base, r) = NumberOf({x \in RegisterBits : CellOf(base, r, x) \in m}, RegBits)
BY NumberBelow, StateAssumption DEF Registers, Value, CellOf, RegisterBits, Counts

LEMMA RegistersTyped ==
  ASSUME NEW base \in Nat, NEW m
  PROVE  Registers(m, base) \in [Regs -> Counts]
BY Reads DEF Registers

\* The bits of a value that were written are read back.
LEMMA WrittenIsRead ==
  ASSUME NEW base \in Nat, NEW m, NEW r \in Regs, NEW v \in Counts,
         \A x \in RegisterBits : CellOf(base, r, x) \in m <=> x \in NumberBits(v, RegBits)
  PROVE  Value(m, base, r) = v
<1>1. {x \in RegisterBits : CellOf(base, r, x) \in m} = NumberBits(v, RegBits)
  BY DEF NumberBits, RegisterBits
<1>2. NumberOf(NumberBits(v, RegBits), RegBits) = v
  BY NumberOfBits, StateAssumption DEF Counts
<1>3. QED
  BY <1>1, <1>2, Reads

\* Cells elsewhere make no difference to registers.
LEMMA SameRegisters ==
  ASSUME NEW base \in Nat, NEW m, NEW n,
         \A c \in AllRegCells(base) : c \in m <=> c \in n
  PROVE  Registers(m, base) = Registers(n, base)
<1>1. ASSUME NEW r \in Regs
      PROVE  Value(m, base, r) = Value(n, base, r)
  <2>1. \A x \in RegisterBits : CellOf(base, r, x) \in AllRegCells(base)
    BY Places
  <2> DEFINE a == {x \in RegisterBits : CellOf(base, r, x) \in m}
             b == {x \in RegisterBits : CellOf(base, r, x) \in n}
  <2>2. a = b
    BY <2>1
  <2>3. Value(m, base, r) = NumberOf(a, RegBits) /\ Value(n, base, r) = NumberOf(b, RegBits)
    BY Reads
  <2> HIDE DEF a, b
  <2>4. QED
    BY <2>2, <2>3
<1>2. QED
  BY <1>1 DEF Registers

\* hllAdd() to registers in memory does what it does to owned ones.
LEMMA AddRaises ==
  ASSUME NEW base \in Nat, NEW m, NEW xs \in SUBSET Elements
  PROVE  Registers(AddInMemory(m, base, xs), base) = AddOwned(Registers(m, base), xs)
<1> DEFINE old   == Registers(m, base)
           added == AddOwned(old, xs)
           hit   == {r \in Regs : added[r] # old[r]}
           n     == AddInMemory(m, base, xs)
<1>1. n = (m \ UNION {RegCells(base, r) : r \in hit})
             \cup UNION {Cells(base, r, added[r]) : r \in hit}
  BY DEF AddInMemory
<1>2. old \in [Regs -> Counts] /\ added \in [Regs -> Counts]
  BY RegistersTyped, AddTyped
<1>3. hit \subseteq Regs /\ \A r \in Regs : r \notin hit => added[r] = old[r]
  OBVIOUS
<1>4. \A r \in Regs : Cells(base, r, added[r]) =
                         {CellOf(base, r, x) : x \in NumberBits(added[r], RegBits)}
  BY DEF Cells, CellOf
<1>5. \A r \in Regs : old[r] = Value(m, base, r)
  BY Reads
<1> HIDE DEF n, hit, added, old
<1>6. ASSUME NEW r \in Regs
      PROVE  Value(n, base, r) = added[r]
  <2> DEFINE bits == NumberBits(added[r], RegBits)
  <2>0. bits \subseteq RegisterBits /\ \A s \in Regs : NumberBits(added[s], RegBits) \subseteq RegisterBits
    BY DEF NumberBits, RegisterBits
  <2>1. CASE r \in hit
    <3>1. ASSUME NEW x \in RegisterBits
          PROVE  CellOf(base, r, x) \in n <=> x \in bits
      <4>1. CellOf(base, r, x) \in RegCells(base, r)
        BY Places
      <4>2. CellOf(base, r, x) \notin m \ UNION {RegCells(base, s) : s \in hit}
        BY <2>1, <4>1
      <4>3. ASSUME x \in bits
            PROVE  CellOf(base, r, x) \in UNION {Cells(base, s, added[s]) : s \in hit}
        BY <1>4, <2>1, <4>3
      <4>4. ASSUME NEW s \in hit, CellOf(base, r, x) \in Cells(base, s, added[s])
            PROVE  x \in bits
        <5>1. PICK y \in NumberBits(added[s], RegBits) : CellOf(base, r, x) = CellOf(base, s, y)
          BY <1>3, <1>4, <4>4
        <5>2. y \in RegisterBits /\ s \in Regs
          BY <1>3, <2>0
        <5>3. s = r /\ y = x
          BY <5>1, <5>2, Places
        <5>4. QED
          BY <5>3
      <4>5. QED
        BY <1>1, <4>2, <4>3, <4>4
    <3>2. QED
      BY <1>2, <3>1, WrittenIsRead
  <2>2. CASE r \notin hit
    <3>1. ASSUME NEW x \in RegisterBits
          PROVE  CellOf(base, r, x) \in n <=> CellOf(base, r, x) \in m
      <4>1. ASSUME NEW s \in hit
            PROVE  CellOf(base, r, x) \notin RegCells(base, s)
        BY <1>3, <2>2, <4>1, Places
      <4>2. ASSUME NEW s \in hit
            PROVE  CellOf(base, r, x) \notin Cells(base, s, added[s])
        BY <1>3, <4>1, RegisterInside
      <4>3. QED
        BY <1>1, <4>1, <4>2
    <3> DEFINE a == {x \in RegisterBits : CellOf(base, r, x) \in n}
               b == {x \in RegisterBits : CellOf(base, r, x) \in m}
    <3>2. a = b
      BY <3>1
    <3>3. Value(n, base, r) = NumberOf(a, RegBits) /\ Value(m, base, r) = NumberOf(b, RegBits)
      BY Reads
    <3> HIDE DEF a, b
    <3>4. QED
      BY <1>3, <1>5, <2>2, <3>2, <3>3
  <2>3. QED
    BY <2>1, <2>2
<1>7. Registers(n, base) = [r \in Regs |-> added[r]]
  BY <1>6 DEF Registers
<1>8. added = [r \in Regs |-> added[r]]
  BY <1>2
<1>9. QED
  BY <1>7, <1>8 DEF n, added, old

\* honas_state_persist() writes owned registers where nothing is yet.
LEMMA SavedRegisters ==
  ASSUME NEW m, m \cap AllRegCells(HostNameRegisters) = {},
         NEW cc, NEW hc \in [Regs -> Counts]
  PROVE  Registers(m \cup AllCells(ClientRegisters, cc) \cup AllCells(HostNameRegisters, hc),
                   HostNameRegisters) = hc
<1> DEFINE base == HostNameRegisters
           c == AllCells(ClientRegisters, cc)
           h == AllCells(base, hc)
           n == m \cup c \cup h
<1>0. base \in Nat /\ ClientRegisters \in Nat
  BY Layout
<1>1. c \cap AllRegCells(base) = {}
  <2>1. c \subseteq AllRegCells(ClientRegisters)
    BY <1>0, AllCellsInside
  <2>2. AllRegCells(ClientRegisters) \cap AllRegCells(base) = {}
    BY Layout DEF AllRegCells
  <2>3. QED
    BY <2>1, <2>2
<1>2. h = UNION {Cells(base, r, hc[r]) : r \in Regs}
  BY DEF AllCells
<1>3. \A r \in Regs : Cells(base, r, hc[r]) = {CellOf(base, r, x) : x \in NumberBits(hc[r], RegBits)}
  BY DEF Cells, CellOf
<1> HIDE DEF c, h, base
<1>4. ASSUME NEW r \in Regs
      PROVE  Value(n, base, r) = hc[r]
  <2>0. \A s \in Regs : NumberBits(hc[s], RegBits) \subseteq RegisterBits
    BY DEF NumberBits, RegisterBits
  <2>1. ASSUME NEW x \in RegisterBits
        PROVE  CellOf(base, r, x) \in n <=> x \in NumberBits(hc[r], RegBits)
    <3>1. CellOf(base, r, x) \in AllRegCells(base)
      BY <1>0, Places
    <3>2. CellOf(base, r, x) \notin m /\ CellOf(base, r, x) \notin c
      BY <1>1, <3>1 DEF base
    <3>3. ASSUME NEW s \in Regs, CellOf(base, r, x) \in Cells(base, s, hc[s])
          PROVE  x \in NumberBits(hc[r], RegBits)
      <4>1. PICK y \in NumberBits(hc[s], RegBits) : CellOf(base, r, x) = CellOf(base, s, y)
        BY <1>3, <3>3
      <4>2. y \in RegisterBits
        BY <2>0
      <4>3. s = r /\ y = x
        BY <1>0, <4>1, <4>2, Places
      <4>4. QED
        BY <4>3
    <3>4. ASSUME x \in NumberBits(hc[r], RegBits)
          PROVE  CellOf(base, r, x) \in h
      BY <1>2, <1>3, <3>4
    <3>5. QED
      BY <1>2, <3>2, <3>3, <3>4
  <2> HIDE DEF n
  <2>2. QED
    BY <1>0, <2>1, WrittenIsRead
<1>5. Registers(n, base) = [r \in Regs |-> hc[r]]
  BY <1>4 DEF Registers
<1>6. QED
  BY <1>5 DEF n, c, h, base

\* Registers that are or-ed are not less than either.
LEMMA OredRegisters ==
  ASSUME NEW base \in Nat, NEW m, NEW n, NEW r \in Regs
  PROVE  /\ Registers(m, base)[r] <= Registers(m \cup n, base)[r]
         /\ Registers(n, base)[r] <= Registers(m \cup n, base)[r]
<1> DEFINE a == {x \in RegisterBits : CellOf(base, r, x) \in m}
           b == {x \in RegisterBits : CellOf(base, r, x) \in n}
           c == {x \in RegisterBits : CellOf(base, r, x) \in m \cup n}
<1>1. a \subseteq c /\ b \subseteq c
  OBVIOUS
<1>2. Registers(m, base)[r] = NumberOf(a, RegBits)
  BY Reads
<1>3. Registers(n, base)[r] = NumberOf(b, RegBits)
  BY Reads
<1>4. Registers(m \cup n, base)[r] = NumberOf(c, RegBits)
  <2> DEFINE k == m \cup n
  <2>1. c = {x \in RegisterBits : CellOf(base, r, x) \in k}
    OBVIOUS
  <2> HIDE DEF k
  <2>2. Registers(k, base)[r] = NumberOf({x \in RegisterBits : CellOf(base, r, x) \in k}, RegBits)
    BY Reads
  <2>3. QED
    BY <2>1, <2>2 DEF k
<1> HIDE DEF a, b, c
<1>5. NumberOf(a, RegBits) <= NumberOf(c, RegBits) /\ NumberOf(b, RegBits) <= NumberOf(c, RegBits)
  BY <1>1, NumberMonotone, StateAssumption
<1>6. QED
  BY <1>2, <1>3, <1>4, <1>5

----------------------------------------------------------------------------
(***************************************************************************)
(* How many host names a state counts.                                     *)
(***************************************************************************)
HostNames(m) == Registers(m, HostNameRegisters)

\* The registers are those of the keys in the history; in a combination, where
\* registers are or-ed, they are no less.
CountsKeys(regs, p) ==
  IF p.merged THEN \A r \in Regs : Exact(SeenKeys(p))[r] <= regs[r]
  ELSE regs = Exact(SeenKeys(p))

\* While the registers are owned there are none in memory, and the state is no
\* combination; else they are in memory.
KeysKept(m, own, hc, p) ==
  IF own
  THEN /\ ~p.merged
       /\ m \cap AllRegCells(HostNameRegisters) = {}
       /\ CountsKeys(hc, p)
  ELSE CountsKeys(HostNames(m), p)

\* The invariant, next to StateInv.
HostNamesInv ==
  /\ live => KeysKept(mem, owned, host_name_count, past)
  /\ \A f \in Files : files[f].present =>
       /\ files[f].header.host_names = HostNames(files[f].mem)
       /\ CountsKeys(HostNames(files[f].mem), files[f].past)

LEMMA SeenTyped ==
  ASSUME NEW p \in PastType
  PROVE  SeenKeys(p) \in SUBSET Elements
<1>1. \A s \in p.seen : s[2] \in AllKeys
  BY DEF PastType
<1>2. QED
  BY <1>1 DEF SeenKeys, Elements

\* The registers of no elements, of some, and of more.
LEMMA ExactTyped ==
  ASSUME NEW xs \in SUBSET Elements
  PROVE  /\ NoRegs \in [Regs -> Counts] /\ Exact(xs) \in [Regs -> Counts]
         /\ \A r \in Regs : Exact(xs)[r] = Raised(0, r, xs)
<1>1. NoRegs \in [Regs -> Counts] /\ \A r \in Regs : NoRegs[r] = 0
  BY CountsAre DEF NoRegs
<1>2. QED
  BY <1>1, AddTyped DEF Exact, AddOwned

LEMMA ExactNone == Exact({}) = NoRegs
<1>1. \A r \in Regs : Raised(0, r, {}) = 0
  BY CountsAre, RaisedIs
<1>2. \A r \in Regs : NoRegs[r] = 0
  BY DEF NoRegs
<1>3. QED
  BY <1>1, <1>2 DEF Exact, AddOwned, NoRegs

LEMMA ExactMore ==
  ASSUME NEW xs \in SUBSET Elements, NEW ys \in SUBSET Elements
  PROVE  AddOwned(Exact(xs), ys) = Exact(xs \cup ys)
<1>1. xs \cup ys \in SUBSET Elements
  OBVIOUS
<1>2. \A r \in Regs : /\ Exact(xs)[r] = Raised(0, r, xs)
                      /\ Exact(xs \cup ys)[r] = Raised(0, r, xs \cup ys)
  BY <1>1, ExactTyped
<1>3. ASSUME NEW r \in Regs
      PROVE  Raised(Exact(xs)[r], r, ys) = Exact(xs \cup ys)[r]
  <2>1. 0 \in Counts
    BY CountsAre
  <2>2. Raised(Raised(0, r, xs), r, ys) = Raised(0, r, xs \cup ys)
    BY <2>1, RaisedTwice
  <2>3. QED
    BY <1>2, <2>2
<1>4. Exact(xs \cup ys) = [r \in Regs |-> Exact(xs \cup ys)[r]]
  BY <1>1, ExactTyped
<1>5. QED
  BY <1>3, <1>4 DEF AddOwned

\* Adding the keys of a lookup to registers that count the keys before it.
LEMMA KeysAdded ==
  ASSUME NEW p \in PastType, NEW regs \in [Regs -> Counts], CountsKeys(regs, p),
         NEW ks \in SUBSET AllKeys, NEW o, o.merged = p.merged,
         SeenKeys(o) = SeenKeys(p) \cup ks
  PROVE  CountsKeys(AddOwned(regs, ks), o)
<1> DEFINE xs == SeenKeys(p)
<1>1. xs \in SUBSET Elements /\ ks \in SUBSET Elements
  BY SeenTyped DEF Elements
<1>2. AddOwned(Exact(xs), ks) = Exact(SeenKeys(o)) /\ Exact(xs) \in [Regs -> Counts]
  BY <1>1, ExactMore, ExactTyped
<1> HIDE DEF xs
<1>3. CASE ~p.merged
  <2>1. regs = Exact(xs)
    BY <1>3 DEF CountsKeys, xs
  <2>2. QED
    BY <1>2, <1>3, <2>1 DEF CountsKeys
<1>4. CASE p.merged
  <2>1. \A r \in Regs : Exact(xs)[r] <= regs[r]
    BY <1>4 DEF CountsKeys, xs
  <2>2. \A r \in Regs : Raised(Exact(xs)[r], r, ks) <= Raised(regs[r], r, ks)
    BY <1>1, <1>2, <2>1, RaisedMonotone
  <2>3. \A r \in Regs : AddOwned(Exact(xs), ks)[r] <= AddOwned(regs, ks)[r]
    BY <2>2 DEF AddOwned
  <2>4. QED
    BY <1>2, <1>4, <2>3 DEF CountsKeys
<1>5. QED
  BY <1>3, <1>4

\* Or-ing the registers of two states counts no less than the keys of both.
LEMMA KeysMerged ==
  ASSUME NEW p \in PastType, NEW q \in PastType, NEW m, NEW n,
         CountsKeys(HostNames(m), p), CountsKeys(HostNames(n), q)
  PROVE  CountsKeys(HostNames(MergedMem(m, n)), MergedPast(p, q))
<1> DEFINE xs == SeenKeys(p)
           ys == SeenKeys(q)
           z == MergedPast(p, q)
           base == HostNameRegisters
<1>1. z.merged = TRUE /\ SeenKeys(z) = xs \cup ys
  BY DEF MergedPast, SeenKeys
<1>2. xs \in SUBSET Elements /\ ys \in SUBSET Elements
  BY SeenTyped
<1>3. base \in Nat /\ HostNames(m) \in [Regs -> Counts] /\ HostNames(n) \in [Regs -> Counts]
      /\ HostNames(m \cup n) \in [Regs -> Counts]
  BY Layout, RegistersTyped DEF HostNames
<1>4. Exact(xs) \in [Regs -> Counts] /\ Exact(ys) \in [Regs -> Counts]
  BY <1>2, ExactTyped
<1>5. \A r \in Regs : Exact(xs)[r] <= HostNames(m)[r] /\ Exact(ys)[r] <= HostNames(n)[r]
  <2>1. ASSUME NEW regs \in [Regs -> Counts], NEW s, CountsKeys(regs, s), NEW r \in Regs
        PROVE  Exact(SeenKeys(s))[r] <= regs[r]
    <3>1. regs[r] \in Nat
      BY CountsAre
    <3>2. QED
      BY <2>1, <3>1 DEF CountsKeys
  <2> HIDE DEF xs, ys
  <2>2. QED
    BY <1>3, <2>1 DEF xs, ys
<1> HIDE DEF xs, ys, z
<1>6. ASSUME NEW r \in Regs
      PROVE  Exact(xs \cup ys)[r] <= HostNames(m \cup n)[r]
  <2> DEFINE a == Exact(xs)[r]
             b == Exact(ys)[r]
             c == HostNames(m)[r]
             d == HostNames(n)[r]
             e == HostNames(m \cup n)[r]
             u == Exact(xs \cup ys)[r]
  <2>1. c <= e /\ d <= e
    BY <1>3, OredRegisters DEF HostNames
  <2>2. a <= c /\ b <= d
    BY <1>5
  <2>3. a = Raised(0, r, xs) /\ b = Raised(0, r, ys)
    BY <1>2, ExactTyped
  <2>4. u = Raised(a, r, ys) /\ xs \cup ys \in SUBSET Elements
    <3>1. AddOwned(Exact(xs), ys) = Exact(xs \cup ys)
      BY <1>2, ExactMore
    <3>2. AddOwned(Exact(xs), ys)[r] = Raised(Exact(xs)[r], r, ys)
      BY DEF AddOwned
    <3>3. QED
      BY <1>2, <3>1, <3>2
  <2>5. a \in Counts /\ c \in Counts /\ d \in Counts /\ e \in Counts /\ b \in Counts
    BY <1>3, <1>4
  <2> HIDE DEF a, b, c, d, e, u
  <2>6. u \in Counts /\ (u = a \/ \E x \in ys : RegOf(x) = r /\ u = RankOf(x))
    BY <1>2, <2>4, <2>5, RaisedIs
  <2>7. \A x \in ys : RegOf(x) = r => RankOf(x) <= b
    BY <1>2, <2>3, CountsAre, RaisedIs
  <2>8. u <= a \/ u <= b
    <3>1. u \in Nat /\ a \in Nat
      BY <2>5, <2>6, CountsAre
    <3>2. QED
      BY <2>6, <2>7, <3>1
  <2>9. a \in Nat /\ b \in Nat /\ c \in Nat /\ d \in Nat /\ e \in Nat /\ u \in Nat
    BY <2>5, <2>6, CountsAre
  <2>10. u <= e
    BY <2>1, <2>2, <2>8, <2>9
  <2>11. QED
    BY <2>10 DEF u, e
<1>7. QED
  BY <1>1, <1>6 DEF CountsKeys, MergedMem, z

\* What honas_state_persist() writes into a file.
LEMMA SavedCounts ==
  ASSUME NEW m, NEW own, NEW cc, NEW hc \in [Regs -> Counts], NEW h, NEW p,
         HeaderShape(h),
         KeysKept(m, own, hc, p),
         NEW x, x = Saved(m, own, cc, hc, h, p)
  PROVE  x.present /\ x.header.host_names = HostNames(x.mem) /\ CountsKeys(HostNames(x.mem), x.past)
<1> DEFINE full == IF own THEN m \cup AllCells(ClientRegisters, cc)
                                  \cup AllCells(HostNameRegisters, hc)
                   ELSE m
           k == [h EXCEPT !.clients = Registers(full, ClientRegisters),
                          !.host_names = Registers(full, HostNameRegisters),
                          !.filter_bits_set =
                             [i \in Filters |-> Cardinality(full \cap FilterCells(i))]]
<1>1. x.present = TRUE /\ x.mem = full /\ x.past = p /\ x.header = k
  BY DEF Saved
<1>2. CASE own
  <2>1. full = m \cup AllCells(ClientRegisters, cc) \cup AllCells(HostNameRegisters, hc)
    BY <1>2
  <2>2. HostNames(full) = hc
    BY <1>2, <2>1, SavedRegisters DEF HostNames, KeysKept
  <2> HIDE DEF full
  <2>3. k.host_names = HostNames(full)
    BY DEF HeaderShape, HostNames
  <2> HIDE DEF k
  <2>4. QED
    BY <1>1, <1>2, <2>2, <2>3 DEF KeysKept
<1>3. CASE ~own
  <2>1. full = m
    BY <1>3
  <2> HIDE DEF full
  <2>2. k.host_names = HostNames(full)
    BY DEF HeaderShape, HostNames
  <2> HIDE DEF k
  <2>3. QED
    BY <1>1, <1>3, <2>1, <2>2 DEF KeysKept
<1>4. QED
  BY <1>2, <1>3

\* A lookup is counted, in owned registers and in memory.
LEMMA RegisterCounts ==
  ASSUME StateInv, HostNamesInv, NEW cl \in Clients, NEW q \in Queries, NEW t \in Times,
         Register(cl, q, t)
  PROVE  HostNamesInv'
<1> DEFINE ks == Keys(q)
           base == HostNameRegisters
           counted == IF owned THEN mem ELSE AddInMemory(mem, ClientRegisters, {cl})
           set == counted \cup BloomCells(cl, ks)
<1>1. /\ mem' = IF owned THEN set ELSE AddInMemory(set, base, ks)
      /\ host_name_count' = IF owned THEN AddOwned(host_name_count, ks) ELSE host_name_count
      /\ live /\ UNCHANGED <<live, owned, files>>
  BY DEF Register
<1>2. past \in PastType /\ owned \in BOOLEAN /\ host_name_count \in [Regs -> Counts]
  BY DEF StateInv, Whole
<1>3. past'.merged = past.merged /\ SeenKeys(past') = SeenKeys(past) \cup ks
  <2>1. past' = [past EXCEPT !.seen = @ \cup {<<cl, k>> : k \in ks},
                             !.times = Append(@, t),
                             !.resumed = @ \/ ~owned]
    BY DEF Register
  <2>2. past'.seen = past.seen \cup {<<cl, k>> : k \in ks} /\ past'.merged = past.merged
    BY <1>2, <2>1 DEF PastType
  <2> DEFINE S == past.seen
             N == {<<cl, k>> : k \in ks}
  <2> HIDE DEF ks
  <2>3. {pair[2] : pair \in S \cup N} = {pair[2] : pair \in S} \cup ks
    <3>1. \A k \in ks : <<cl, k>> \in N /\ <<cl, k>>[2] = k
      OBVIOUS
    <3>2. \A pair \in N : pair[2] \in ks
      OBVIOUS
    <3> HIDE DEF S, N
    <3>3. QED
      BY <3>1, <3>2
  <2>4. SeenKeys(past') = {pair[2] : pair \in S \cup N} /\ SeenKeys(past) = {pair[2] : pair \in S}
    BY <2>2 DEF SeenKeys
  <2>5. QED
    BY <2>2, <2>3, <2>4
<1>4. ks \in SUBSET AllKeys /\ ks \in SUBSET Elements /\ base \in Nat /\ ClientRegisters \in Nat
  BY BloomAnswers, Layout DEF Elements
<1>5. BloomCells(cl, ks) \cap AllRegCells(base) = {}
  <2>1. ASSUME NEW c \in BloomCells(cl, ks)
        PROVE  c \notin AllRegCells(base)
    <3>1. PICK f \in FiltersOf(cl), k \in ks : c \in {FilterBegin(f) + o : o \in OffsetsOf(f, k)}
      BY <2>1 DEF BloomCells
    <3>2. f \in Filters
      BY StateAssumption
    <3>3. PICK o \in OffsetsOf(f, k) : c = FilterBegin(f) + o
      BY <3>1
    <3>4. o \in 0..(FilterBits - 1)
      BY <3>2, BloomAnswers
    <3>5. QED
      BY <3>2, <3>3, <3>4, BitPlace
  <2>2. QED
    BY <2>1
<1>6. \A c \in AllRegCells(base) : c \in set <=> c \in mem
  <2>1. AllRegCells(ClientRegisters) \cap AllRegCells(base) = {}
    BY Layout DEF AllRegCells
  <2>2. \A c \in AllRegCells(base) : c \in AddInMemory(mem, ClientRegisters, {cl}) <=> c \in mem
    BY <1>4, <2>1, AddKeeps
  <2>3. QED
    BY <1>5, <2>2
<1>7. HostNames(set) = HostNames(mem)
  BY <1>4, <1>6, SameRegisters DEF HostNames
<1> HIDE DEF set, ks, base
<1>8. CASE owned
  <2>1. ~past.merged /\ mem \cap AllRegCells(base) = {} /\ CountsKeys(host_name_count, past)
    BY <1>1, <1>8 DEF HostNamesInv, KeysKept, base
  <2>2. mem' \cap AllRegCells(base) = {}
    BY <1>1, <1>6, <1>8, <2>1
  <2>3. CountsKeys(host_name_count', past')
    BY <1>1, <1>2, <1>3, <1>4, <1>8, <2>1, KeysAdded
  <2>4. QED
    BY <1>1, <1>3, <1>8, <2>1, <2>2, <2>3 DEF HostNamesInv, KeysKept, base
<1>9. CASE ~owned
  <2>1. CountsKeys(HostNames(set), past)
    BY <1>1, <1>7, <1>9 DEF HostNamesInv, KeysKept
  <2>2. HostNames(mem') = AddOwned(HostNames(set), ks)
    BY <1>1, <1>4, <1>9, AddRaises DEF HostNames, base
  <2>3. HostNames(set) \in [Regs -> Counts]
    BY <1>4, RegistersTyped DEF HostNames, base
  <2>4. CountsKeys(HostNames(mem'), past')
    BY <1>2, <1>3, <1>4, <2>1, <2>2, <2>3, KeysAdded
  <2>5. QED
    BY <1>1, <1>9, <2>4 DEF HostNamesInv, KeysKept
<1>10. QED
  BY <1>2, <1>8, <1>9

\* Every operation keeps the count.
LEMMA HostNamesStep == StateInv /\ HostNamesInv /\ [Next]_vars => HostNamesInv'
<1> SUFFICES ASSUME StateInv, HostNamesInv, [Next]_vars
             PROVE  HostNamesInv'
  OBVIOUS
<1>0. ASSUME NEW f \in Files, NEW x, files' = [files EXCEPT ![f] = x],
             x.present => /\ x.header.host_names = HostNames(x.mem)
                          /\ CountsKeys(HostNames(x.mem), x.past)
      PROVE  \A g \in Files : files'[g].present =>
               /\ files'[g].header.host_names = HostNames(files'[g].mem)
               /\ CountsKeys(HostNames(files'[g].mem), files'[g].past)
  <2>1. files = [g \in Files |-> files[g]]
    BY DEF StateInv
  <2>2. files'[f] = x /\ \A g \in Files \ {f} : files'[g] = files[g]
    BY <1>0, <2>1
  <2>3. QED
    BY <1>0, <2>2 DEF HostNamesInv
<1>1. ASSUME NEW period \in Periods, Create(period)
      PROVE  HostNamesInv'
  <2>1. /\ live' /\ owned' = TRUE /\ mem' = {} /\ host_name_count' = NoRegs
        /\ past' = [NoPast EXCEPT !.periods = {period}]
        /\ files' = files
    BY <1>1 DEF Create
  <2>2. ~past'.merged /\ SeenKeys(past') = {}
    BY <2>1 DEF NoPast, SeenKeys
  <2>3. CountsKeys(NoRegs, past')
    BY <2>2, ExactNone DEF CountsKeys
  <2>4. QED
    BY <2>1, <2>2, <2>3 DEF HostNamesInv, KeysKept
<1>2. ASSUME NEW cl \in Clients, NEW q \in Queries, NEW t \in Times, Register(cl, q, t)
      PROVE  HostNamesInv'
  BY <1>2, RegisterCounts
<1>3. ASSUME NEW f \in Files, PersistTo(f)
      PROVE  HostNamesInv'
  <2> DEFINE x == Saved(mem, owned, client_count, host_name_count, header, past)
  <2>1. files' = [files EXCEPT ![f] = x] /\ live /\ live' = FALSE
    BY <1>3 DEF PersistTo, Destroy
  <2>2. x.present /\ x.header.host_names = HostNames(x.mem) /\ CountsKeys(HostNames(x.mem), x.past)
    <3>1. host_name_count \in [Regs -> Counts] /\ HeaderShape(header)
      BY DEF StateInv, Whole
    <3>2. KeysKept(mem, owned, host_name_count, past)
      BY <2>1 DEF HostNamesInv
    <3>3. x = Saved(mem, owned, client_count, host_name_count, header, past)
      OBVIOUS
    <3> HIDE DEF x
    <3>4. QED
      BY <3>1, <3>2, <3>3, SavedCounts
  <2> HIDE DEF x
  <2>3. QED
    BY <1>0, <2>1, <2>2 DEF HostNamesInv
<1>4. ASSUME NEW f \in Files, Load(f)
      PROVE  HostNamesInv'
  <2>1. /\ files' = [files EXCEPT ![f] = Absent] /\ files[f].present
        /\ owned' = FALSE /\ mem' = files[f].mem /\ past' = files[f].past
    BY <1>4 DEF Load
  <2>2. ~Absent.present
    BY DEF Absent
  <2>3. CountsKeys(HostNames(mem'), past')
    BY <2>1 DEF HostNamesInv
  <2>4. QED
    BY <1>0, <2>1, <2>2, <2>3 DEF HostNamesInv, KeysKept
<1>5. ASSUME NEW f \in Files, NEW g \in Files, Combine(f, g)
      PROVE  HostNamesInv'
  <2> DEFINE m == MergedMem(files[f].mem, files[g].mem)
             h == MergedHeader(files[f].header, files[g].header)
             p == MergedPast(files[f].past, files[g].past)
             x == Saved(m, FALSE, NoRegs, NoRegs, h, p)
  <2>1. /\ files' = [files EXCEPT ![f] = x] /\ files[f].present /\ files[g].present
        /\ UNCHANGED <<live, mem, owned, host_name_count, past>>
    BY <1>5 DEF Combine
  <2>2. HeaderShape(h)
    <3>1. Whole(m, h, p)
      BY <2>1, CombinedWhole DEF StateInv
    <3> HIDE DEF m, h, p
    <3>2. QED
      BY <3>1 DEF Whole
  <2>3. CountsKeys(HostNames(m), p)
    BY <2>1, KeysMerged DEF StateInv, Whole, HostNamesInv
  <2>4. NoRegs \in [Regs -> Counts]
    BY NothingWhole
  <2> HIDE DEF m, h, p
  <2>5. KeysKept(m, FALSE, NoRegs, p)
    BY <2>3 DEF KeysKept
  <2>6. x.present /\ x.header.host_names = HostNames(x.mem) /\ CountsKeys(HostNames(x.mem), x.past)
    BY <2>2, <2>4, <2>5, SavedCounts
  <2> HIDE DEF x
  <2>7. QED
    BY <1>0, <2>1, <2>6 DEF HostNamesInv
<1>6. CASE UNCHANGED vars
  BY <1>6 DEF vars, HostNamesInv
<1>7. QED
  BY <1>1, <1>2, <1>3, <1>4, <1>5, <1>6 DEF Next

\* The estimate of distinct host names in every file counts exactly the keys that
\* were registered; in a combination it counts no less.
THEOREM HostNamesCountedHolds == Spec => []HostNamesCounted
<1>1. Init => HostNamesInv
  BY DEF Init, HostNamesInv, Absent
<1>2. StateInv /\ HostNamesInv => HostNamesCounted
  <2> SUFFICES ASSUME StateInv, HostNamesInv, NEW f \in Files, files[f].present
               PROVE  LET exact == Exact(SeenKeys(files[f].past))
                      IN  IF files[f].past.merged
                          THEN \A r \in Regs : files[f].header.host_names[r] >= exact[r]
                          ELSE files[f].header.host_names = exact
    BY DEF HostNamesCounted, Images
  <2> DEFINE p == files[f].past
             regs == files[f].header.host_names
  <2>1. CountsKeys(regs, p)
    BY DEF HostNamesInv
  <2>2. regs \in [Regs -> Counts]
    BY Layout, RegistersTyped DEF HostNamesInv, HostNames
  <2>3. Exact(SeenKeys(p)) \in [Regs -> Counts]
    BY SeenTyped, ExactTyped DEF StateInv, Whole
  <2>4. \A r \in Regs : regs[r] \in Nat /\ Exact(SeenKeys(p))[r] \in Nat
    BY <2>2, <2>3, CountsAre
  <2> HIDE DEF p, regs
  <2>5. p.merged => \A r \in Regs : regs[r] >= Exact(SeenKeys(p))[r]
    BY <2>1, <2>4 DEF CountsKeys
  <2>6. ~p.merged => regs = Exact(SeenKeys(p))
    BY <2>1 DEF CountsKeys
  <2>7. QED
    BY <2>5, <2>6 DEF p, regs
<1>3. QED
  BY <1>1, <1>2, StateInvariant, HostNamesStep, PTL DEF Spec

\* Through any sequence of saves, loads and combinations, a filter that shares no
\* memory with the registers of the clients reports every lookup registered in it.
THEOREM NoFalseNegativeApartHolds == Spec => []NoFalseNegativeApart
<1>1. StateInv => NoFalseNegativeApart
  BY DEF StateInv, NoFalseNegativeApart, Whole, Sound, Images
<1>2. QED
  BY <1>1, StateInvariant, PTL

\* Every lookup is counted, the times are those of the lookups, and the bits of
\* every filter in a file are those the header counts.
THEOREM HeaderAgreesHolds == Spec => []HeaderAgrees
<1>1. ASSUME NEW h, NEW p, HeaderShape(h), p \in PastType, Counted(h, p)
      PROVE  TimesAgree(h, p)
  <2> DEFINE S == {0} \cup Range(p.times)
  <2>1. p.times \in Seq(Times) /\ h.last_request \in Nat
        /\ \A i \in DOMAIN p.times : p.times[i] \in Nat
    BY <1>1, StateAssumption DEF PastType, HeaderShape
  <2>2. h.last_request \in S /\ \A y \in S : y \in Nat /\ h.last_request >= y
    BY <1>1, <2>1 DEF Counted, Latest, Range
  <2> HIDE DEF S
  <2>3. Max(S) = h.last_request
    <3>1. Max(S) \in S /\ \A y \in S : Max(S) >= y
      BY <2>2 DEF Max
    <3>2. QED
      BY <2>2, <3>1
  <2>4. p.times # <<>> => Head(p.times) = p.times[1]
    BY <2>1
  <2>5. /\ h.period_begin = Min({period.begin : period \in p.periods})
        /\ h.period_end = Max({period.end : period \in p.periods})
    <3> DEFINE B == {period.begin : period \in p.periods}
               E == {period.end : period \in p.periods}
               b == h.period_begin
               e == h.period_end
    <3>1. /\ \A period \in p.periods : period.begin \in Nat /\ period.end \in Nat
          /\ b \in Nat /\ e \in Nat /\ Spans(b, e, p.periods)
      BY <1>1 DEF PastType, HeaderShape, Counted
    <3>2. b \in B /\ e \in E /\ \A y \in B : y \in Nat /\ b <= y
      BY <3>1 DEF Spans
    <3>3. \A y \in E : y \in Nat /\ e >= y
      BY <3>1 DEF Spans
    <3> HIDE DEF B, E, b, e
    <3>4. Min(B) \in B /\ \A y \in B : Min(B) <= y
      BY <3>2 DEF Min
    <3>5. Max(E) \in E /\ \A y \in E : Max(E) >= y
      BY <3>2, <3>3 DEF Max
    <3>6. Min(B) = b /\ Max(E) = e
      <4> DEFINE x == Min(B)
                 y == Max(E)
      <4>1. x \in B /\ x <= b /\ y \in E /\ y >= e
        BY <3>2, <3>4, <3>5
      <4> HIDE DEF x, y
      <4>2. x \in Nat /\ b <= x /\ y \in Nat /\ e >= y
        BY <3>2, <3>3, <4>1
      <4>3. x = b /\ y = e
        BY <3>1, <4>1, <4>2
      <4>4. QED
        BY <4>3 DEF x, y
    <3>7. QED
      BY <3>6 DEF B, E, b, e
  <2>6. QED
    BY <1>1, <2>3, <2>4, <2>5 DEF Counted, TimesAgree, S
<1>2. ASSUME StateInv
      PROVE  StateTypeOK
  BY <1>2 DEF StateInv, StateTypeOK, Whole, Memory, HeaderShape, Counts
<1>3. StateInv => HeaderAgrees
  BY <1>1, <1>2 DEF StateInv, HeaderAgrees, Whole, Images, BitsSetCounted, BitsCounted
<1>4. QED
  BY <1>3, StateInvariant, PTL

=============================================================================
