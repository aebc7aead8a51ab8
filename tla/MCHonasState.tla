--------------------------- MODULE MCHonasState ---------------------------
(* A lookup and the state it goes to.  The two choices made for it, each from *)
(* its first to its last step: of filters for the client, and of bits in a    *)
(* filter for the host name.  And a state with two small filters, with hash   *)
(* values of the clients and of the keys that the queries produce.            *)
EXTENDS HonasState, BloomOffsets, Combinations

CONSTANTS c1, c2   \* clients

MCClients == {c1, c2}

MCQueries ==
  {[name |-> <<"WWW", "a", "nl", "">>, entity |-> "surf", ptr |-> FALSE],
   [name |-> <<"in-addr", "arpa">>, entity |-> NoEntity, ptr |-> TRUE]}

MCLower(l) == IF l = "WWW" THEN "www" ELSE l

MCFiltersOf(cl) == IF cl = c1 THEN {0} ELSE {1}

\* A period of ten seconds, and a later one with a state that was created only
\* halfway.
MCPeriods == {[begin |-> 10, end |-> 20], [begin |-> 25, end |-> 30]}

\* A number that stands for the hash of a key.
Weight(k) == Len(k.part) + (IF k.entity = NoEntity THEN 0 ELSE 1)

MCOffsetsOf(f, k) == {(Weight(k) + f) % FilterBits, (Weight(k) + f + 1) % FilterBits}

MCRegOf(x) ==
  IF x \in MCClients THEN (IF x = c1 THEN 0 ELSE 1) ELSE Weight(x) % NumRegs

MCRankOf(x) ==
  IF x \in MCClients THEN (IF x = c1 THEN 2 ELSE 1) ELSE (Weight(x) + 1) \div 2

\* The names of files are interchangeable.
FileSymmetry == Permutations(Files)

----------------------------------------------------------------------------
LookupInit == Init /\ BloomInit /\ CombInit

\* Filters are selected before bits are.  The offsets do not depend on which
\* filters were selected: they are followed for the one filter of a state with
\* a single filter.
Selected == c = combination /\ set_size = 1

\* Neither choice depends on what a state holds, which only knows the hash values
\* above: the state is followed next to choices that are not made.
Unchosen == Selected /\ BloomInit /\ bits = 8 /\ len = 1

LookupNext ==
  \/ Init /\ NextCombination /\ UNCHANGED <<bloomVars, vars>>
  \/ Init /\ Selected /\ BloomNext /\ UNCHANGED <<combVars, vars>>
  \/ Unchosen /\ Next /\ UNCHANGED <<bloomVars, combVars>>

LookupSpec == LookupInit /\ [][LookupNext]_<<bloomVars, combVars, vars>>

=============================================================================
