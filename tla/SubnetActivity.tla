--------------------------- MODULE SubnetActivity ---------------------------
(***************************************************************************)
(* subnet_activity.c: the definitions of which prefixes belong to which    *)
(* entity are read from a JSON file by callbacks, into a hash table with   *)
(* the whole prefix as its key; a client's address is looked up from the   *)
(* longest length in the table down to the shortest.                       *)
(*                                                                         *)
(* An address is the set of its bits that are 1, numbered in network order.*)
(* A name is a sequence of characters, as strncpy() copies them.  yajl is  *)
(* external: it reports the elements of any JSON document.                 *)
(***************************************************************************)
EXTENDS Integers, Sequences, FiniteSets, FiniteSetsExt, SequencesExt

CONSTANTS
  ByteBits,      \* 8
  Width,         \* bits of an address: [AF_INET |-> 32, AF_INET6 |-> 128]
  Definable,     \* addresses that definitions are made of
  Names,         \* names of entities
  MaxPrefixes,   \* bound: definitions of prefixes
  MaxEntities    \* bound: entities; at most the 1024 there is room for

Families == {"AF_INET", "AF_INET6"}
Addresses == UNION {[af : {f}, bits : SUBSET (0..(Width[f] - 1))] : f \in Families}

ASSUME SubnetAssumption ==
  /\ ByteBits \in Nat \ {0}
  /\ Width \in [Families -> Nat \ {0}]
  /\ \A f \in Families : Width[f] % ByteBits = 0
  /\ Definable \subseteq Addresses
  /\ MaxPrefixes \in Nat
  /\ MaxEntities \in Nat

VARIABLES
  saPc,                \* "off": no --aggregate; "start", "parsing", "loaded", "destroyed"
  saNest,              \* yajl: what may follow in each object and array it is in
  saState,             \* ctx.state
  sa_status_code,
  entities,            \* names of the entities, current_entity last
  prefixes,            \* hash table: prefix |-> index of its entity
  registered_prefixes,
  shortest, longest,   \* shortest_ipv4_prefix, ... by family
  current_ipaddr,
  defs                 \* history: prefixes with their entities, in order

tableVars == <<entities, prefixes, registered_prefixes, shortest, longest, defs>>
saVars == <<saPc, saNest, saState, sa_status_code, current_ipaddr, tableVars>>

NoAddress == [af |-> "AF_UNSPEC", bits |-> {}]

SubnetInit ==
  /\ saPc \in {"off", "start"}
  /\ saNest = <<"top">>
  /\ saState = "INIT"
  /\ sa_status_code = "SA_OK"
  /\ entities = <<>>
  /\ prefixes = <<>>
  /\ registered_prefixes = 0
  /\ shortest = Width
  /\ longest = [f \in Families |-> 0]
  /\ current_ipaddr = NoAddress
  /\ defs = <<>>

----------------------------------------------------------------------------
(* subnet_activity_initialize()                                            *)

\* The context and the parser are gone when the function returns.
Returns ==
  /\ saPc' = "loaded"
  /\ saNest' = <<"top">>
  /\ saState' = "INIT"
  /\ current_ipaddr' = NoAddress
  /\ UNCHANGED tableVars

OpenDefinitions ==
  /\ saPc = "start"
  /\ saPc' = "parsing"
  /\ UNCHANGED <<saNest, saState, sa_status_code, current_ipaddr, tableVars>>

\* main() goes on without definitions.
OpenDefinitionsFails ==
  /\ saPc = "start"
  /\ Returns
  /\ sa_status_code' = "SA_OPEN_FILE_FAILED"

\* The end of the file, wherever it comes, and a syntax error: what was read
\* is used, and the status is that of the callbacks.
ParseEnds ==
  /\ saPc = "parsing"
  /\ Returns
  /\ UNCHANGED sa_status_code

\* A callback returns 0; main() goes on with what was read.
Refused(code) == Returns /\ sa_status_code' = code

----------------------------------------------------------------------------
(* yajl: "top", "key", "val" and "elem" for the document, a key, its value   *)
(* and an element to follow; "end" after the document.                      *)

Place == Last(saNest)
MayBeValue == saPc = "parsing" /\ Place \in {"top", "val", "elem"}
MayBeKey == saPc = "parsing" /\ Place = "key"

Behind == CASE Place = "top" -> "end" [] Place = "val" -> "key" [] OTHER -> Place
PastValue == Append(Front(saNest), Behind)

Goes(to) == saState' = to /\ UNCHANGED <<saPc, sa_status_code>>

\* null, booleans and numbers with a fraction: no callback.
Ignored ==
  /\ MayBeValue
  /\ saNest' = PastValue
  /\ UNCHANGED <<saPc, saState, sa_status_code, current_ipaddr, tableVars>>

----------------------------------------------------------------------------
(* The callbacks.                                                          *)

\* The first definition of a prefix stays.
add_prefix_hh(p, entity) ==
  [q \in DOMAIN prefixes \cup {p} |-> IF q \in DOMAIN prefixes THEN prefixes[q] ELSE entity]

\* As it would be if a length could only be new to one of the bounds.
BoundsOnce(f, n) ==
  IF n < shortest[f]
  THEN shortest' = [shortest EXCEPT ![f] = n] /\ UNCHANGED longest
  ELSE longest' = [longest EXCEPT ![f] = Max({@, n})] /\ UNCHANGED shortest

Bounds(f, n) ==
  /\ shortest' = [shortest EXCEPT ![f] = Min({@, n})]
  /\ longest' = [longest EXCEPT ![f] = Max({@, n})]

\* A length in range is registered; also one that add_prefix_hh() knew already.
AddPrefix(n) ==
  LET p == [address |-> current_ipaddr, length |-> n]
  IN  /\ MayBeValue
      /\ saState = "PREFIX_MAPPING_EXPECT_LENGTH"
      /\ n \in 0..Width[current_ipaddr.af]
      /\ registered_prefixes < MaxPrefixes
      /\ prefixes' = add_prefix_hh(p, Len(entities))
      /\ sa_status_code' = "SA_OK"
      /\ registered_prefixes' = registered_prefixes + 1
      /\ Bounds(current_ipaddr.af, n)
      /\ defs' = Append(defs, [prefix |-> p, entity |-> Len(entities)])
      /\ saState' = "PREFIX_MAPPING"
      /\ saNest' = PastValue
      /\ UNCHANGED <<saPc, entities, current_ipaddr>>

\* No memory for a new one; the error stays until the next prefix is added.
AddPrefixFails(n) ==
  /\ MayBeValue
  /\ saState = "PREFIX_MAPPING_EXPECT_LENGTH"
  /\ n \in 0..Width[current_ipaddr.af]
  /\ [address |-> current_ipaddr, length |-> n] \notin DOMAIN prefixes
  /\ sa_status_code' = "SA_ALLOC_FAILED"
  /\ saState' = "PREFIX_MAPPING"
  /\ saNest' = PastValue
  /\ UNCHANGED <<saPc, current_ipaddr, tableVars>>

\* An integer in another place, or a length out of range.
IntegerRefused ==
  /\ MayBeValue
  /\ Refused(IF saState = "PREFIX_MAPPING_EXPECT_LENGTH" THEN "SA_INVALID_PREFIX_LENGTH"
             ELSE "SA_JSON_SPEC_INTEGER_FAILED")

\* What the string leaves of a name that was there before.
Copied(old, name) == name \o SubSeq(old, Len(name) + 1, Len(old))

subnet_activity_spec_string(name) ==
  /\ MayBeValue
  /\ \/ /\ saState = "SUBNET_MAPPING_EXPECT_ENTITY"
        /\ entities' = [entities EXCEPT ![Len(entities)] = Copied(@, name)]
        /\ Goes("SUBNET_MAPPING")
        /\ saNest' = PastValue
        /\ UNCHANGED <<current_ipaddr, prefixes, registered_prefixes, shortest, longest, defs>>
     \/ saState # "SUBNET_MAPPING_EXPECT_ENTITY" /\ Refused("SA_JSON_SPEC_STRING_FAILED")

\* Where a key leads; another one leaves the state as it is.
KeyTo(key) ==
  CASE saState = "SUBNET_ACTIVITY_SPEC" /\ key = "subnet_activity" ->
         "SUBNET_ACTIVITY_SPEC_EXPECT_MAPPING_ARRAY"
    [] saState = "SUBNET_MAPPING" /\ key = "entity" -> "SUBNET_MAPPING_EXPECT_ENTITY"
    [] saState = "SUBNET_MAPPING" /\ key = "prefixes" -> "SUBNET_MAPPING_EXPECT_PREFIXES_ARRAY"
    [] OTHER -> saState

subnet_activity_spec_map_key(key) ==
  /\ MayBeKey
  /\ \/ /\ saState \in {"SUBNET_ACTIVITY_SPEC", "SUBNET_MAPPING"}
        /\ Goes(KeyTo(key))
        /\ saNest' = Append(Front(saNest), "val")
        /\ UNCHANGED <<current_ipaddr, tableVars>>
     \/ saState = "PREFIX_MAPPING" /\ Refused("SA_IPADDRESS_PARSE_FAILED")
     \/ /\ saState \notin {"SUBNET_ACTIVITY_SPEC", "SUBNET_MAPPING", "PREFIX_MAPPING"}
        /\ Refused("SA_JSON_MAP_KEY_FAILED")

\* A key that is an address, of either family.
AddressKey(a) ==
  /\ MayBeKey
  /\ saState = "PREFIX_MAPPING"
  /\ current_ipaddr' = a
  /\ Goes("PREFIX_MAPPING_EXPECT_LENGTH")
  /\ saNest' = Append(Front(saNest), "val")
  /\ UNCHANGED tableVars

subnet_activity_spec_start_map ==
  /\ MayBeValue
  /\ \/ /\ saState = "SUBNET_MAPPING_ARRAY"
        /\ Len(entities) < MaxEntities
        /\ entities' = Append(entities, <<>>)
        /\ Goes("SUBNET_MAPPING")
        /\ saNest' = Append(PastValue, "key")
        /\ UNCHANGED <<current_ipaddr, prefixes, registered_prefixes, shortest, longest, defs>>
     \/ saState = "SUBNET_MAPPING_ARRAY" /\ Refused("SA_ALLOC_FAILED")
     \/ /\ saState \in {"INIT", "PREFIX_MAPPING_ARRAY"}
        /\ Goes(IF saState = "INIT" THEN "SUBNET_ACTIVITY_SPEC" ELSE "PREFIX_MAPPING")
        /\ saNest' = Append(PastValue, "key")
        /\ UNCHANGED <<current_ipaddr, tableVars>>
     \/ /\ saState \notin {"INIT", "SUBNET_MAPPING_ARRAY", "PREFIX_MAPPING_ARRAY"}
        /\ Refused("SA_JSON_MAP_FAILED")

EndMapTo == [SUBNET_ACTIVITY_SPEC |-> "INIT", SUBNET_MAPPING |-> "SUBNET_MAPPING_ARRAY",
             PREFIX_MAPPING |-> "PREFIX_MAPPING_ARRAY"]

subnet_activity_spec_end_map ==
  /\ MayBeKey
  /\ \/ /\ saState \in DOMAIN EndMapTo
        /\ Goes(EndMapTo[saState])
        /\ saNest' = Front(saNest)
        /\ UNCHANGED <<current_ipaddr, tableVars>>
     \/ saState \notin DOMAIN EndMapTo /\ Refused("SA_JSON_END_MAP_FAILED")

StartArrayTo == [SUBNET_ACTIVITY_SPEC_EXPECT_MAPPING_ARRAY |-> "SUBNET_MAPPING_ARRAY",
                 SUBNET_MAPPING_EXPECT_PREFIXES_ARRAY |-> "PREFIX_MAPPING_ARRAY"]

subnet_activity_spec_start_array ==
  /\ MayBeValue
  /\ \/ /\ saState \in DOMAIN StartArrayTo
        /\ Goes(StartArrayTo[saState])
        /\ saNest' = Append(PastValue, "elem")
        /\ UNCHANGED <<current_ipaddr, tableVars>>
     \/ saState \notin DOMAIN StartArrayTo /\ Refused("SA_JSON_ARRAY_FAILED")

EndArrayTo == [SUBNET_MAPPING_ARRAY |-> "SUBNET_ACTIVITY_SPEC",
               PREFIX_MAPPING_ARRAY |-> "SUBNET_MAPPING"]

subnet_activity_spec_end_array ==
  /\ saPc = "parsing"
  /\ Place = "elem"
  /\ \/ /\ saState \in DOMAIN EndArrayTo
        /\ Goes(EndArrayTo[saState])
        /\ saNest' = Front(saNest)
        /\ UNCHANGED <<current_ipaddr, tableVars>>
     \/ saState \notin DOMAIN EndArrayTo /\ Refused("SA_JSON_END_ARRAY_FAILED")

subnet_activity_destroy ==
  /\ saPc = "loaded"
  /\ saPc' = "destroyed"
  /\ IF entities = <<>> THEN UNCHANGED tableVars
     ELSE /\ entities' = <<>>
          /\ prefixes' = <<>>
          /\ registered_prefixes' = 0
          /\ shortest' = [f \in Families |-> 0]
          /\ longest' = [f \in Families |-> 0]
          /\ UNCHANGED defs
  /\ UNCHANGED <<saNest, saState, sa_status_code, current_ipaddr>>

\* recheck_handler(), at a rotation: subnet_activity_destroy(), and all of
\* subnet_activity_initialize() again, which begins with memset().
Reload ==
  /\ saPc = "loaded"
  /\ saPc' = "start"
  /\ sa_status_code' = "SA_OK"
  /\ entities' = <<>>
  /\ prefixes' = <<>>
  /\ registered_prefixes' = 0
  /\ shortest' = Width
  /\ longest' = [f \in Families |-> 0]
  /\ defs' = <<>>
  /\ UNCHANGED <<saNest, saState, current_ipaddr>>

SubnetNext ==
  \/ OpenDefinitions \/ OpenDefinitionsFails \/ ParseEnds \/ Ignored
  \/ \E n \in 0..Max({Width[f] : f \in Families}) : AddPrefix(n) \/ AddPrefixFails(n)
  \/ IntegerRefused
  \/ \E name \in Names : subnet_activity_spec_string(name)
  \/ \E key \in {"subnet_activity", "entity", "prefixes", "unknown"} :
       subnet_activity_spec_map_key(key)
  \/ \E a \in Definable : AddressKey(a)
  \/ subnet_activity_spec_start_map \/ subnet_activity_spec_end_map
  \/ subnet_activity_spec_start_array \/ subnet_activity_spec_end_array
  \/ subnet_activity_destroy \/ Reload

SubnetSpec == SubnetInit /\ [][SubnetNext]_saVars

----------------------------------------------------------------------------
(* subnet_activity_match_prefix()                                          *)

\* all_ipv4_subnet_masks, a table of constants.
Mask4(n) == 0..(n - 1)

\* generate_all_ipv6_prefixes(): whole bytes, and the rest of the bits from the
\* low end of the next byte.
Mask6(n) ==
  LET div == n \div ByteBits
      mod == n % ByteBits
  IN  0..(div * ByteBits - 1) \cup ((div + 1) * ByteBits - mod)..((div + 1) * ByteBits - 1)

Masked(a, n) ==
  [address |-> [a EXCEPT !.bits = @ \cap (IF a.af = "AF_INET" THEN Mask4(n) ELSE Mask6(n))],
   length |-> n]

Lengths(f) == shortest[f]..longest[f]

NoMatch == 0
Undefined == -1

\* The index of the entity.  The loop counts down an unsigned number: below a
\* shortest length of 0 it wraps and reads masks that are not there, as does
\* length 0 of IPv6, whose masks begin with length 1.
subnet_activity_match_prefix(a) ==
  LET found == {n \in Lengths(a.af) \ {0} : Masked(a, n) \in DOMAIN prefixes}
  IN  IF found # {} THEN prefixes[Masked(a, Max(found))]
      ELSE IF 0 \notin Lengths(a.af) THEN NoMatch
      ELSE IF a.af = "AF_INET" /\ Masked(a, 0) \in DOMAIN prefixes THEN prefixes[Masked(a, 0)]
      ELSE Undefined

----------------------------------------------------------------------------
(* Properties.                                                             *)

\* A prefix with no bits behind its length, and whether an address is in it.
Canonical(p) == p.address.bits \subseteq 0..(p.length - 1)
Covers(p, a) ==
  /\ p.address.af = a.af
  /\ p.address.bits = a.bits \cap 0..(p.length - 1)

\* The entity of the longest prefix around an address; of the first one that
\* lays claim to it.
LongestPrefix(a) ==
  LET around == {i \in DOMAIN defs : Covers(defs[i].prefix, a)}
      long   == {i \in around : \A j \in around : defs[j].prefix.length <= defs[i].prefix.length}
  IN  IF around = {} THEN NoMatch ELSE defs[Min(long)].entity

OfFamily(f) == {defs[i].prefix : i \in {j \in DOMAIN defs : defs[j].prefix.address.af = f}}

\* "The longest matching prefix is returned, including the associated entity",
\* for every address, in whatever order prefixes, their entity's name and other
\* entities were given and wherever reading stopped: for IPv4 as long as no
\* prefix of length 0 has other bits, and for IPv6 as long as all lengths are
\* whole bytes.  Prefixes with bits behind their length match nothing.
LongestMatch ==
  saPc = "loaded" =>
    \A a \in Addresses :
      /\ a.af = "AF_INET" /\ (\A p \in OfFamily(a.af) : p.length > 0 \/ Canonical(p))
           => subnet_activity_match_prefix(a) = LongestPrefix(a)
      /\ a.af = "AF_INET6" /\ (\A p \in OfFamily(a.af) : p.length > 0 /\ p.length % ByteBits = 0)
           => subnet_activity_match_prefix(a) = LongestPrefix(a)

\* The same without the restriction to whole bytes.
LongestMatchIPv6 ==
  saPc = "loaded" =>
    \A a \in Addresses :
      a.af = "AF_INET6" /\ (\A p \in OfFamily(a.af) : p.length > 0 /\ Canonical(p))
        => subnet_activity_match_prefix(a) = LongestPrefix(a)

=============================================================================
