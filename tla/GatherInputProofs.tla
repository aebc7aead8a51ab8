------------------------- MODULE GatherInputProofs -------------------------
(***************************************************************************)
(* Proofs about what honas-gather reads: the definitions of subnets, and   *)
(* the entity a client's address belongs to (SubnetActivity), for every    *)
(* width of an address and every file of definitions; the configuration    *)
(* (ConfigReader), for all files; and the dnstap streams                   *)
(* (DnstapConnection), for any number of connections, any streams, any     *)
(* watermark and any size of libevent's reads.                             *)
(***************************************************************************)
EXTENDS SubnetActivity, ConfigReader, DnstapConnection, NumberLemmas, FiniteSetTheorems,
        SequenceTheorems

----------------------------------------------------------------------------
(***************************************************************************)
(* Subnets.                                                                *)
(***************************************************************************)

SubnetPrefixes == [address : Addresses, length : Nat]

Definitions == [prefix : SubnetPrefixes, entity : Nat]

\* The hash table holds the prefixes that were defined, each with the entity of
\* its first definition.
TableHolds ==
  /\ prefixes = [p \in DOMAIN prefixes |-> prefixes[p]]
  /\ DOMAIN prefixes = {defs[i].prefix : i \in 1..Len(defs)}
  /\ \A i \in 1..Len(defs) :
       (\A j \in 1..(i - 1) : defs[j].prefix # defs[i].prefix)
         => prefixes[defs[i].prefix] = defs[i].entity

\* The lengths of a family lie between the shortest and the longest, and the
\* shortest is that of a definition or the one of initialize().
LengthsHold ==
  /\ shortest \in [Families -> Nat]
  /\ longest \in [Families -> Nat]
  /\ \A i \in 1..Len(defs) :
       LET f == defs[i].prefix.address.af
       IN  shortest[f] <= defs[i].prefix.length /\ defs[i].prefix.length <= longest[f]
  /\ \A f \in Families :
       \/ shortest[f] = Width[f]
       \/ \E i \in 1..Len(defs) :
            defs[i].prefix.address.af = f /\ defs[i].prefix.length = shortest[f]

\* The invariant: the table agrees with the definitions until it is destroyed, and
\* a length is only expected after an address.
SubnetInv ==
  /\ defs \in Seq(Definitions)
  /\ \E S : entities \in Seq(S)
  /\ saState = "PREFIX_MAPPING_EXPECT_LENGTH" => current_ipaddr \in Addresses
  /\ saPc # "destroyed" => TableHolds /\ LengthsHold

----------------------------------------------------------------------------
\* The addresses of a family, and the family of an address.
LEMMA AddressTyped ==
  ASSUME NEW a \in Addresses
  PROVE  /\ a.af \in Families /\ Width[a.af] \in Nat /\ Width[a.af] > 0
         /\ a.bits \subseteq 0..(Width[a.af] - 1)
         /\ a = [af |-> a.af, bits |-> a.bits]
<1>1. PICK f \in Families : a \in [af : {f}, bits : SUBSET (0..(Width[f] - 1))]
  BY DEF Addresses
<1>2. a.af = f /\ a.bits \subseteq 0..(Width[f] - 1) /\ a = [af |-> a.af, bits |-> a.bits]
  BY <1>1
<1>3. QED
  BY <1>2, SubnetAssumption

LEMMA AddressIn ==
  ASSUME NEW f \in Families, NEW b \in SUBSET (0..(Width[f] - 1))
  PROVE  [af |-> f, bits |-> b] \in Addresses
<1>1. [af |-> f, bits |-> b] \in [af : {f}, bits : SUBSET (0..(Width[f] - 1))]
  OBVIOUS
<1>2. QED
  BY <1>1 DEF Addresses

\* What a definition is made of.
LEMMA DefinitionTyped ==
  ASSUME NEW s \in Seq(Definitions), NEW i \in 1..Len(s)
  PROVE  /\ s[i].prefix = [address |-> s[i].prefix.address, length |-> s[i].prefix.length]
         /\ s[i].prefix.address \in Addresses
         /\ s[i].prefix.address.af \in Families
         /\ s[i].prefix.length \in Nat
<1>1. s[i] \in Definitions
  OBVIOUS
<1> DEFINE d == s[i]
           p == d.prefix
<1>2. d \in Definitions
  BY <1>1
<1> HIDE DEF d
<1>3. p \in SubnetPrefixes
  BY <1>2 DEF Definitions
<1> HIDE DEF p
<1>4. /\ p = [address |-> p.address, length |-> p.length]
      /\ p.address \in Addresses /\ p.length \in Nat
  BY <1>3 DEF SubnetPrefixes
<1>5. QED
  BY <1>4, AddressTyped DEF p, d

\* AddPrefix(): the table and the bounds with one more definition.
LEMMA AddPrefixHolds ==
  ASSUME SubnetInv, NEW n, AddPrefix(n), saPc # "destroyed"
  PROVE  defs' \in Seq(Definitions) /\ TableHolds' /\ LengthsHold'
<1> DEFINE p == [address |-> current_ipaddr, length |-> n]
           e == Len(entities)
           d == [prefix |-> p, entity |-> e]
           l == Len(defs)
           af == current_ipaddr.af
<1>1. current_ipaddr \in Addresses
  BY DEF SubnetInv, AddPrefix
<1>2. n \in Nat /\ af \in Families
  BY <1>1, AddressTyped DEF AddPrefix
<1>3. p \in SubnetPrefixes
  BY <1>1, <1>2 DEF SubnetPrefixes
<1>4. e \in Nat
  BY DEF SubnetInv
<1>5. d \in Definitions /\ d.prefix = p /\ d.entity = e
  BY <1>3, <1>4 DEF Definitions
<1>6. p.length = n /\ p.address = current_ipaddr
  OBVIOUS
<1>7. defs' = Append(defs, d) /\ prefixes' = add_prefix_hh(p, e) /\ Bounds(af, n)
  BY DEF AddPrefix
<1>8. defs \in Seq(Definitions) /\ l \in Nat
  BY DEF SubnetInv
<1>9. TableHolds /\ LengthsHold
  BY DEF SubnetInv
<1> HIDE DEF p, e, d
<1>10. /\ defs' \in Seq(Definitions) /\ Len(defs') = l + 1 /\ defs'[l + 1] = d
       /\ \A i \in 1..l : defs'[i] = defs[i]
  BY <1>5, <1>7, <1>8
<1> HIDE DEF l
<1>l. l = Len(defs)
  BY DEF l
<1>11. TableHolds'
  <2>1. prefixes' = [q \in DOMAIN prefixes \cup {p} |->
                       IF q \in DOMAIN prefixes THEN prefixes[q] ELSE e]
    BY <1>7 DEF add_prefix_hh
  <2>2. DOMAIN prefixes' = DOMAIN prefixes \cup {p}
    BY <2>1
  <2>3. DOMAIN prefixes = {defs[i].prefix : i \in 1..l}
    BY <1>9, <1>l DEF TableHolds
  <2>4. {defs'[i].prefix : i \in 1..(l + 1)} = DOMAIN prefixes \cup {p}
    <3>1. 1..(l + 1) = (1..l) \cup {l + 1}
      BY <1>8
    <3>2. \A i \in 1..(l + 1) : defs'[i].prefix \in DOMAIN prefixes \cup {p}
      BY <1>5, <1>10, <2>3, <3>1
    <3>3. \A q \in DOMAIN prefixes \cup {p} : \E i \in 1..(l + 1) : q = defs'[i].prefix
      BY <1>5, <1>10, <2>3, <3>1
    <3>4. QED
      BY <3>2, <3>3
  <2>5. ASSUME NEW i \in 1..(l + 1), \A j \in 1..(i - 1) : defs'[j].prefix # defs'[i].prefix
        PROVE  prefixes'[defs'[i].prefix] = defs'[i].entity
    <3>1. CASE i \in 1..l
      <4>1. \A j \in 1..(i - 1) : j \in 1..l
        BY <1>8, <3>1
      <4>2. \A j \in 1..(i - 1) : defs[j].prefix # defs[i].prefix
        BY <1>10, <2>5, <3>1, <4>1
      <4>3. prefixes[defs[i].prefix] = defs[i].entity
        BY <1>9, <1>l, <3>1, <4>2 DEF TableHolds
      <4>4. defs[i].prefix \in DOMAIN prefixes
        BY <2>3, <3>1
      <4>5. QED
        BY <1>10, <2>1, <3>1, <4>3, <4>4
    <3>2. CASE i = l + 1
      <4>1. p \notin DOMAIN prefixes
        <5>1. \A j \in 1..l : defs[j].prefix # p
          BY <1>5, <1>8, <1>10, <2>5, <3>2
        <5>2. QED
          BY <2>3, <5>1
      <4>2. QED
        BY <1>5, <1>10, <2>1, <3>2, <4>1
    <3>3. QED
      BY <1>8, <2>5, <3>1, <3>2
  <2>6. prefixes' = [q \in DOMAIN prefixes' |-> prefixes'[q]]
    BY <2>1
  <2>7. QED
    BY <1>10, <2>2, <2>4, <2>5, <2>6 DEF TableHolds
<1>12. LengthsHold'
  <2>1. shortest \in [Families -> Nat] /\ longest \in [Families -> Nat]
    BY <1>9 DEF LengthsHold
  <2>2. /\ shortest' = [shortest EXCEPT ![af] = Min({@, n})]
        /\ longest' = [longest EXCEPT ![af] = Max({@, n})]
    BY <1>7 DEF Bounds
  <2> DEFINE s == Min({shortest[af], n})
             t == Max({longest[af], n})
  <2>3. /\ s \in Nat /\ s <= shortest[af] /\ s <= n /\ (s = shortest[af] \/ s = n)
        /\ t \in Nat /\ t >= longest[af] /\ t >= n
    BY <1>2, <2>1, MinMaxOfTwo
  <2>4. shortest' = [shortest EXCEPT ![af] = s] /\ longest' = [longest EXCEPT ![af] = t]
    BY <2>2
  <2> HIDE DEF s, t
  <2>5. /\ shortest' \in [Families -> Nat] /\ longest' \in [Families -> Nat]
        /\ shortest'[af] = s /\ longest'[af] = t
        /\ \A f \in Families \ {af} : shortest'[f] = shortest[f] /\ longest'[f] = longest[f]
        /\ \A f \in Families : shortest'[f] <= shortest[f] /\ longest[f] <= longest'[f]
    BY <1>2, <2>1, <2>3, <2>4
  <2>6. \A i \in 1..l : /\ defs[i].prefix.length \in Nat
                        /\ defs[i].prefix.address.af \in Families
    BY <1>8, <1>l, DefinitionTyped
  <2>7. ASSUME NEW i \in 1..(l + 1)
        PROVE  /\ shortest'[defs'[i].prefix.address.af] <= defs'[i].prefix.length
               /\ defs'[i].prefix.length <= longest'[defs'[i].prefix.address.af]
    <3>1. CASE i \in 1..l
      <4>1. /\ shortest[defs[i].prefix.address.af] <= defs[i].prefix.length
            /\ defs[i].prefix.length <= longest[defs[i].prefix.address.af]
        BY <1>9, <1>l, <3>1 DEF LengthsHold
      <4> DEFINE f == defs[i].prefix.address.af
                 len == defs[i].prefix.length
      <4>2. f \in Families /\ len \in Nat /\ shortest[f] <= len /\ len <= longest[f]
        BY <2>6, <3>1, <4>1
      <4>3. defs'[i] = defs[i]
        BY <1>10, <3>1
      <4> HIDE DEF f, len
      <4>4. shortest'[f] <= len /\ len <= longest'[f]
        BY <2>1, <2>5, <4>2
      <4>5. QED
        BY <4>3, <4>4 DEF f, len
    <3>2. CASE i = l + 1
      <4>1. defs'[i].prefix.length = n /\ defs'[i].prefix.address.af = af
        BY <1>5, <1>6, <1>10, <3>2
      <4>2. QED
        BY <2>3, <2>5, <4>1
    <3>3. QED
      BY <1>8, <2>7, <3>1, <3>2
  <2>8. ASSUME NEW f \in Families
        PROVE  \/ shortest'[f] = Width[f]
               \/ \E i \in 1..(l + 1) :
                    defs'[i].prefix.address.af = f /\ defs'[i].prefix.length = shortest'[f]
    <3>1. CASE shortest'[f] = shortest[f]
      <4>1. \/ shortest[f] = Width[f]
            \/ \E i \in 1..l : defs[i].prefix.address.af = f /\ defs[i].prefix.length = shortest[f]
        BY <1>9, <1>l DEF LengthsHold
      <4>2. 1..l \subseteq 1..(l + 1)
        BY <1>8
      <4>3. QED
        BY <1>10, <3>1, <4>1, <4>2
    <3>2. CASE shortest'[f] # shortest[f]
      <4>1. f = af /\ shortest'[f] = n
        BY <2>3, <2>5, <3>2
      <4>2. defs'[l + 1].prefix.length = n /\ defs'[l + 1].prefix.address.af = af
        BY <1>5, <1>6, <1>10
      <4>3. l + 1 \in 1..(l + 1)
        BY <1>8
      <4>4. QED
        BY <4>1, <4>2, <4>3
    <3>3. QED
      BY <3>1, <3>2
  <2>9. QED
    BY <1>10, <2>5, <2>7, <2>8 DEF LengthsHold
<1>13. QED
  BY <1>10, <1>11, <1>12

\* Steps that leave the definitions alone.
LEMMA TableKept ==
  ASSUME SubnetInv, UNCHANGED tableVars, saPc # "destroyed",
         saState' = "PREFIX_MAPPING_EXPECT_LENGTH" => current_ipaddr' \in Addresses
  PROVE  SubnetInv'
BY DEF SubnetInv, tableVars, TableHolds, LengthsHold

\* Steps of subnet_activity_initialize() that return.
LEMMA ReturnsKept ==
  ASSUME SubnetInv, saPc # "destroyed", Returns
  PROVE  SubnetInv'
BY TableKept DEF Returns

\* Steps that give or change the name of an entity.
LEMMA EntitiesKept ==
  ASSUME SubnetInv, saPc # "destroyed", \E S : entities' \in Seq(S),
         UNCHANGED <<prefixes, shortest, longest, defs>>,
         saState' # "PREFIX_MAPPING_EXPECT_LENGTH"
  PROVE  SubnetInv'
BY DEF SubnetInv, TableHolds, LengthsHold

\* Nothing is defined yet.
LEMMA EmptyTable ==
  ASSUME prefixes = <<>>, shortest = Width, longest = [f \in Families |-> 0], defs = <<>>
  PROVE  TableHolds /\ LengthsHold /\ defs \in Seq(Definitions)
<1>1. defs \in Seq(Definitions) /\ Len(defs) = 0 /\ 1..Len(defs) = {}
  OBVIOUS
<1>2. prefixes = [p \in DOMAIN prefixes |-> prefixes[p]] /\ DOMAIN prefixes = {}
  OBVIOUS
<1>3. QED
  BY <1>1, <1>2, SubnetAssumption DEF TableHolds, LengthsHold

LEMMA EmptyTableNext ==
  ASSUME prefixes' = <<>>, shortest' = Width, longest' = [f \in Families |-> 0], defs' = <<>>
  PROVE  TableHolds' /\ LengthsHold' /\ defs' \in Seq(Definitions)
<1>1. defs' \in Seq(Definitions) /\ Len(defs') = 0 /\ 1..Len(defs') = {}
  OBVIOUS
<1>2. prefixes' = [p \in DOMAIN prefixes' |-> prefixes'[p]] /\ DOMAIN prefixes' = {}
  OBVIOUS
<1>3. QED
  BY <1>1, <1>2, SubnetAssumption DEF TableHolds, LengthsHold

\* Every callback and every reload keeps the table in line with the definitions.
LEMMA SubnetStep == SubnetInv /\ [SubnetNext]_saVars => SubnetInv'
<1> SUFFICES ASSUME SubnetInv, [SubnetNext]_saVars
             PROVE  SubnetInv'
  OBVIOUS
<1>1. CASE OpenDefinitions
  BY <1>1, TableKept DEF OpenDefinitions, SubnetInv
<1>2. CASE OpenDefinitionsFails \/ ParseEnds \/ IntegerRefused
  BY <1>2, ReturnsKept DEF OpenDefinitionsFails, ParseEnds, IntegerRefused, MayBeValue, Refused
<1>3. CASE Ignored
  BY <1>3, TableKept DEF Ignored, MayBeValue, SubnetInv
<1>4. ASSUME NEW n, AddPrefix(n)
      PROVE  SubnetInv'
  <2>1. saPc # "destroyed" /\ saState' = "PREFIX_MAPPING" /\ entities' = entities
    BY <1>4 DEF AddPrefix, MayBeValue
  <2>2. QED
    BY <1>4, <2>1, AddPrefixHolds DEF SubnetInv
<1>5. ASSUME NEW n, AddPrefixFails(n)
      PROVE  SubnetInv'
  BY <1>5, TableKept DEF AddPrefixFails, MayBeValue
<1>6. ASSUME NEW name, subnet_activity_spec_string(name)
      PROVE  SubnetInv'
  <2>1. saPc # "destroyed"
    BY <1>6 DEF subnet_activity_spec_string, MayBeValue
  <2>2. CASE saState # "SUBNET_MAPPING_EXPECT_ENTITY" /\ Refused("SA_JSON_SPEC_STRING_FAILED")
    BY <2>1, <2>2, ReturnsKept DEF Refused
  <2>3. CASE /\ entities' = [entities EXCEPT ![Len(entities)] = Copied(@, name)]
             /\ Goes("SUBNET_MAPPING")
             /\ UNCHANGED <<prefixes, shortest, longest, defs>>
    <3> DEFINE x == Copied(entities[Len(entities)], name)
    <3>1. entities' = [entities EXCEPT ![Len(entities)] = x]
      BY <2>3
    <3>2. PICK S : entities \in Seq(S)
      BY DEF SubnetInv
    <3> HIDE DEF x
    <3> DEFINE l == Len(entities)
    <3>3. l \in Nat /\ entities \in [1..l -> S]
      BY <3>2
    <3>4. entities' = [entities EXCEPT ![l] = x]
      BY <3>1
    <3> HIDE DEF l
    <3>5. entities' \in [1..l -> S \cup {x}]
      BY <3>3, <3>4
    <3>6. entities' \in Seq(S \cup {x})
      BY <3>3, <3>5
    <3>7. QED
      BY <2>1, <2>3, <3>6, EntitiesKept DEF Goes
  <2>4. QED
    BY <1>6, <2>2, <2>3 DEF subnet_activity_spec_string
<1>7. ASSUME NEW key, subnet_activity_spec_map_key(key)
      PROVE  SubnetInv'
  <2>1. saPc # "destroyed"
    BY <1>7 DEF subnet_activity_spec_map_key, MayBeKey
  <2>2. CASE /\ saState \in {"SUBNET_ACTIVITY_SPEC", "SUBNET_MAPPING"}
             /\ Goes(KeyTo(key)) /\ UNCHANGED tableVars
    <3>1. saState' # "PREFIX_MAPPING_EXPECT_LENGTH"
      BY <2>2 DEF Goes, KeyTo
    <3>2. QED
      BY <2>1, <2>2, <3>1, TableKept
  <2>3. CASE \E code : Refused(code)
    BY <2>1, <2>3, ReturnsKept DEF Refused
  <2>4. QED
    BY <1>7, <2>2, <2>3 DEF subnet_activity_spec_map_key
<1>8. ASSUME NEW a \in Definable, AddressKey(a)
      PROVE  SubnetInv'
  BY <1>8, TableKept, SubnetAssumption DEF AddressKey, MayBeKey
<1>9. CASE subnet_activity_spec_start_map
  <2>1. saPc # "destroyed"
    BY <1>9 DEF subnet_activity_spec_start_map, MayBeValue
  <2>2. CASE /\ entities' = Append(entities, <<>>)
             /\ Goes("SUBNET_MAPPING")
             /\ UNCHANGED <<prefixes, shortest, longest, defs>>
    <3>1. PICK S : entities \in Seq(S)
      BY DEF SubnetInv
    <3>2. entities' \in Seq(S \cup {<<>>})
      BY <2>2, <3>1
    <3>3. QED
      BY <2>1, <2>2, <3>2, EntitiesKept DEF Goes
  <2>3. CASE /\ Goes(IF saState = "INIT" THEN "SUBNET_ACTIVITY_SPEC" ELSE "PREFIX_MAPPING")
             /\ UNCHANGED <<current_ipaddr, tableVars>>
    BY <2>1, <2>3, TableKept DEF Goes
  <2>4. CASE \E code : Refused(code)
    BY <2>1, <2>4, ReturnsKept DEF Refused
  <2>5. QED
    BY <1>9, <2>2, <2>3, <2>4 DEF subnet_activity_spec_start_map
<1>10. CASE subnet_activity_spec_end_map
  <2>1. saPc # "destroyed"
    BY <1>10 DEF subnet_activity_spec_end_map, MayBeKey
  <2>2. CASE saState \in DOMAIN EndMapTo /\ Goes(EndMapTo[saState]) /\ UNCHANGED tableVars
    <3>1. saState' # "PREFIX_MAPPING_EXPECT_LENGTH"
      BY <2>2 DEF Goes, EndMapTo
    <3>2. QED
      BY <2>1, <2>2, <3>1, TableKept
  <2>3. CASE \E code : Refused(code)
    BY <2>1, <2>3, ReturnsKept DEF Refused
  <2>4. QED
    BY <1>10, <2>2, <2>3 DEF subnet_activity_spec_end_map
<1>11. CASE subnet_activity_spec_start_array
  <2>1. saPc # "destroyed"
    BY <1>11 DEF subnet_activity_spec_start_array, MayBeValue
  <2>2. CASE saState \in DOMAIN StartArrayTo /\ Goes(StartArrayTo[saState]) /\ UNCHANGED tableVars
    <3>1. saState' # "PREFIX_MAPPING_EXPECT_LENGTH"
      BY <2>2 DEF Goes, StartArrayTo
    <3>2. QED
      BY <2>1, <2>2, <3>1, TableKept
  <2>3. CASE \E code : Refused(code)
    BY <2>1, <2>3, ReturnsKept DEF Refused
  <2>4. QED
    BY <1>11, <2>2, <2>3 DEF subnet_activity_spec_start_array
<1>12. CASE subnet_activity_spec_end_array
  <2>1. saPc # "destroyed"
    BY <1>12 DEF subnet_activity_spec_end_array
  <2>2. CASE saState \in DOMAIN EndArrayTo /\ Goes(EndArrayTo[saState]) /\ UNCHANGED tableVars
    <3>1. saState' # "PREFIX_MAPPING_EXPECT_LENGTH"
      BY <2>2 DEF Goes, EndArrayTo
    <3>2. QED
      BY <2>1, <2>2, <3>1, TableKept
  <2>3. CASE \E code : Refused(code)
    BY <2>1, <2>3, ReturnsKept DEF Refused
  <2>4. QED
    BY <1>12, <2>2, <2>3 DEF subnet_activity_spec_end_array
<1>13. CASE subnet_activity_destroy
  <2>1. /\ saPc' = "destroyed" /\ defs' = defs /\ UNCHANGED <<saState, current_ipaddr>>
        /\ entities' = entities \/ entities' = <<>>
    BY <1>13 DEF subnet_activity_destroy, tableVars
  <2>2. \E S : entities' \in Seq(S)
    <3>1. PICK S : entities \in Seq(S)
      BY DEF SubnetInv
    <3>2. CASE entities' = entities
      BY <3>1, <3>2
    <3>3. CASE entities' = <<>>
      <4>1. <<>> \in Seq({})
        OBVIOUS
      <4>2. QED
        BY <3>3, <4>1
    <3>4. QED
      BY <2>1, <3>2, <3>3
  <2>3. QED
    BY <2>1, <2>2 DEF SubnetInv
<1>14. CASE Reload
  <2>1. TableHolds' /\ LengthsHold' /\ defs' \in Seq(Definitions)
    BY <1>14, EmptyTableNext DEF Reload
  <2>2. entities' \in Seq({})
    BY <1>14 DEF Reload
  <2>3. saState' = "PREFIX_MAPPING_EXPECT_LENGTH" => current_ipaddr' \in Addresses
    BY <1>14 DEF Reload, SubnetInv
  <2>4. QED
    BY <2>1, <2>2, <2>3 DEF SubnetInv
<1>15. CASE UNCHANGED saVars
  BY <1>15 DEF saVars, tableVars, SubnetInv, TableHolds, LengthsHold
<1>16. QED
  BY <1>1, <1>2, <1>3, <1>4, <1>5, <1>6, <1>7, <1>8, <1>9, <1>10, <1>11, <1>12,
     <1>13, <1>14, <1>15 DEF SubnetNext

\* The table agrees with the definitions that were read.
THEOREM SubnetInvariant == SubnetSpec => []SubnetInv
<1>1. SubnetInit => SubnetInv
  BY EmptyTable DEF SubnetInit, SubnetInv
<1>2. QED
  BY <1>1, SubnetStep, PTL DEF SubnetSpec

----------------------------------------------------------------------------
(* The longest match.                                                      *)

MaskOf(f, n) == IF f = "AF_INET" THEN Mask4(n) ELSE Mask6(n)

\* The masks of the lengths that were defined for the family of an address are
\* those of its first bits.
PlainMasks(a) ==
  \A i \in 1..Len(defs) :
    defs[i].prefix.address.af = a.af
      => MaskOf(a.af, defs[i].prefix.length) = 0..(defs[i].prefix.length - 1)

\* generate_all_ipv6_prefixes() is right for whole bytes.
LEMMA WholeBytes ==
  ASSUME NEW n \in Nat, n % ByteBits = 0
  PROVE  Mask6(n) = 0..(n - 1)
<1> DEFINE div == n \div ByteBits
<1>1. ByteBits \in Nat /\ ByteBits > 0
  BY SubnetAssumption
<1>2. div \in Nat /\ div * ByteBits = n
  BY <1>1
<1> HIDE DEF div
<1>3. (div + 1) * ByteBits \in Int
  BY <1>1, <1>2
<1>4. ((div + 1) * ByteBits - 0)..((div + 1) * ByteBits - 1) = {}
  BY <1>3
<1>5. Mask6(n) = 0..(div * ByteBits - 1) \cup {}
  BY <1>4 DEF Mask6, div
<1>6. QED
  BY <1>2, <1>5

\* A masked address is a definition's prefix exactly when the definition has that
\* length and is around the address.
LEMMA MaskedIsAround ==
  ASSUME NEW a \in Addresses, defs \in Seq(Definitions), PlainMasks(a),
         NEW i \in 1..Len(defs), NEW n \in Nat
  PROVE  defs[i].prefix = Masked(a, n)
           <=> Covers(defs[i].prefix, a) /\ defs[i].prefix.length = n
<1> DEFINE p == defs[i].prefix
           b == a.bits \cap MaskOf(a.af, n)
<1>1. /\ p = [address |-> p.address, length |-> p.length]
      /\ p.address \in Addresses /\ p.length \in Nat
  BY DefinitionTyped
<1>2. p.address = [af |-> p.address.af, bits |-> p.address.bits]
  BY <1>1, AddressTyped
<1>3. a = [af |-> a.af, bits |-> a.bits]
  BY AddressTyped
<1>4. [a EXCEPT !.bits = b] = [af |-> a.af, bits |-> b]
  <2> DEFINE r == [af |-> a.af, bits |-> a.bits]
  <2> HIDE DEF b
  <2>1. [r EXCEPT !.bits = b] = [af |-> a.af, bits |-> b]
    OBVIOUS
  <2>2. a = r
    BY <1>3
  <2> HIDE DEF r
  <2>3. QED
    BY <2>1, <2>2
<1>5. Masked(a, n) = [address |-> [a EXCEPT !.bits = b], length |-> n]
  BY DEF Masked, MaskOf
<1>6. Masked(a, n) = [address |-> [af |-> a.af, bits |-> b], length |-> n]
  BY <1>4, <1>5
<1>7. p.address.af = a.af => MaskOf(a.af, p.length) = 0..(p.length - 1)
  BY DEF PlainMasks
<1> HIDE DEF p
<1>8. p = Masked(a, n) <=> p.address.af = a.af /\ p.address.bits = b /\ p.length = n
  BY <1>1, <1>2, <1>6
<1>9. p = Masked(a, n) <=> Covers(p, a) /\ p.length = n
  BY <1>7, <1>8 DEF Covers
<1>10. QED
  BY <1>9 DEF p

\* A length at which the table has the address, and above which no definition is
\* around it, leads to the entity of the longest prefix.
LEMMA LongestOfLength ==
  ASSUME SubnetInv, saPc = "loaded", NEW a \in Addresses, PlainMasks(a), NEW m \in Nat,
         Masked(a, m) \in DOMAIN prefixes,
         \A j \in 1..Len(defs) : Covers(defs[j].prefix, a) => defs[j].prefix.length <= m
  PROVE  prefixes[Masked(a, m)] = LongestPrefix(a)
<1> DEFINE around == {i \in DOMAIN defs : Covers(defs[i].prefix, a)}
           long == {i \in around : \A j \in around :
                                     defs[j].prefix.length <= defs[i].prefix.length}
           k == Min(long)
<1>1. defs \in Seq(Definitions) /\ DOMAIN defs = 1..Len(defs) /\ Len(defs) \in Nat
  BY DEF SubnetInv
<1>2. TableHolds
  BY DEF SubnetInv
<1>3. ASSUME NEW i \in 1..Len(defs)
      PROVE  /\ defs[i].prefix.length \in Nat
             /\ defs[i].prefix = Masked(a, m) <=> i \in around /\ defs[i].prefix.length = m
  <2>1. defs[i].prefix.length \in Nat
    BY <1>1, DefinitionTyped
  <2>2. defs[i].prefix = Masked(a, m)
          <=> Covers(defs[i].prefix, a) /\ defs[i].prefix.length = m
    BY <1>1, MaskedIsAround
  <2>3. i \in around <=> Covers(defs[i].prefix, a)
    BY <1>1
  <2>4. QED
    BY <2>1, <2>2, <2>3
<1>4. PICK i \in 1..Len(defs) : defs[i].prefix = Masked(a, m)
  BY <1>2 DEF TableHolds
<1>5. i \in around /\ defs[i].prefix.length = m
  BY <1>3, <1>4
<1>6. \A j \in around : j \in 1..Len(defs) /\ defs[j].prefix.length <= m
  BY <1>1
<1>a. LongestPrefix(a) = IF around = {} THEN NoMatch ELSE defs[k].entity
  BY DEF LongestPrefix
<1>7. \A j \in 1..Len(defs) : j \in long <=> defs[j].prefix = Masked(a, m)
  <2>1. \A j \in around : j \in long <=> defs[j].prefix.length = m
    BY <1>3, <1>5, <1>6
  <2>2. QED
    BY <1>3, <2>1
<1>8. long \in SUBSET Nat /\ long # {}
  BY <1>1, <1>4, <1>7
<1>9. k \in long /\ \A j \in long : k <= j
  BY <1>8, MinOfSet
<1>10. k \in 1..Len(defs) /\ defs[k].prefix = Masked(a, m)
  BY <1>1, <1>7, <1>9
<1>b. around # {}
  BY <1>5
<1>c. LongestPrefix(a) = defs[k].entity
  BY <1>a, <1>b
<1> HIDE DEF k, long, around
<1>11. ASSUME NEW j \in 1..(k - 1)
       PROVE  defs[j].prefix # defs[k].prefix
  <2>1. j \in 1..Len(defs) /\ ~(k <= j)
    BY <1>1, <1>10
  <2>2. QED
    BY <1>7, <1>9, <1>10, <2>1
<1>12. prefixes[defs[k].prefix] = defs[k].entity
  BY <1>2, <1>10, <1>11 DEF TableHolds
<1>13. QED
  BY <1>10, <1>12, <1>c

\* Where the loop finds nothing above length 0, the definitions around an address
\* have length 0; and what it finds is the longest.
LEMMA LookupAbove ==
  ASSUME SubnetInv, saPc = "loaded", NEW a \in Addresses, PlainMasks(a),
         NEW found, found = {n \in Lengths(a.af) \ {0} : Masked(a, n) \in DOMAIN prefixes}
  PROVE  /\ \A j \in 1..Len(defs) : Covers(defs[j].prefix, a)
              => /\ defs[j].prefix.length \in Lengths(a.af)
                 /\ defs[j].prefix.length \in found \cup {0}
         /\ found # {} => prefixes[Masked(a, Max(found))] = LongestPrefix(a)
<1>1. defs \in Seq(Definitions)
  BY DEF SubnetInv
<1>2. TableHolds /\ LengthsHold
  BY DEF SubnetInv
<1>3. a.af \in Families
  BY AddressTyped
<1>4. shortest[a.af] \in Nat /\ longest[a.af] \in Nat
  BY <1>2, <1>3 DEF LengthsHold
<1>5. ASSUME NEW j \in 1..Len(defs), Covers(defs[j].prefix, a)
      PROVE  /\ defs[j].prefix.length \in Lengths(a.af)
             /\ defs[j].prefix.length \in found \cup {0}
  <2> DEFINE n == defs[j].prefix.length
  <2>1. n \in Nat
    BY <1>1, DefinitionTyped
  <2>2. defs[j].prefix.address.af = a.af
    BY <1>5 DEF Covers
  <2>3. shortest[a.af] <= n /\ n <= longest[a.af]
    BY <1>2, <2>2 DEF LengthsHold
  <2>4. n \in Lengths(a.af)
    BY <1>4, <2>1, <2>3 DEF Lengths
  <2>5. defs[j].prefix = Masked(a, n)
    BY <1>1, <1>5, <2>1, MaskedIsAround
  <2>6. Masked(a, n) \in DOMAIN prefixes
    BY <1>2, <2>5 DEF TableHolds
  <2>7. QED
    BY <2>4, <2>6
<1>6. ASSUME found # {}
      PROVE  prefixes[Masked(a, Max(found))] = LongestPrefix(a)
  <2>1. found \subseteq 0..longest[a.af]
    BY <1>4 DEF Lengths
  <2>2. Max(found) \in found /\ \A y \in found : Max(found) >= y
    BY <1>4, <1>6, <2>1, MaxOfBounded
  <2> DEFINE m == Max(found)
  <2>3. m \in Nat /\ Masked(a, m) \in DOMAIN prefixes
    BY <2>1, <2>2
  <2> HIDE DEF m
  <2>4. \A j \in 1..Len(defs) : Covers(defs[j].prefix, a) => defs[j].prefix.length <= m
    <3>1. \A y \in found \cup {0} : y <= m
      BY <2>1, <2>2, <2>3 DEF m
    <3>2. QED
      BY <1>5, <3>1
  <2>5. QED
    BY <2>3, <2>4, LongestOfLength DEF m
<1>7. QED
  BY <1>5, <1>6

\* The address a client has is looked up as the longest prefix around it, whatever
\* the definitions were, in whichever order they came and wherever reading them
\* stopped: the invariant relates the hash table and the bounds of the loop to the
\* definitions.
THEOREM LongestMatchHolds == SubnetSpec => []LongestMatch
<1>1. ASSUME SubnetInv, saPc = "loaded", NEW a \in Addresses, a.af = "AF_INET",
             \A p \in OfFamily(a.af) : p.length > 0 \/ Canonical(p)
      PROVE  subnet_activity_match_prefix(a) = LongestPrefix(a)
  <2> DEFINE found == {n \in Lengths(a.af) \ {0} : Masked(a, n) \in DOMAIN prefixes}
  <2>1. PlainMasks(a)
    BY <1>1 DEF PlainMasks, MaskOf, Mask4
  <2>2. /\ \A j \in 1..Len(defs) : Covers(defs[j].prefix, a)
             => /\ defs[j].prefix.length \in Lengths(a.af)
                /\ defs[j].prefix.length \in found \cup {0}
        /\ found # {} => prefixes[Masked(a, Max(found))] = LongestPrefix(a)
    BY <1>1, <2>1, LookupAbove
  <2>d. defs \in Seq(Definitions) /\ DOMAIN defs = 1..Len(defs) /\ LengthsHold /\ TableHolds
    BY <1>1 DEF SubnetInv
  <2>3. CASE found # {}
    BY <2>2, <2>3 DEF subnet_activity_match_prefix
  <2>4. CASE found = {} /\ 0 \notin Lengths(a.af)
    <3>1. \A j \in DOMAIN defs : ~Covers(defs[j].prefix, a)
      BY <2>2, <2>4, <2>d
    <3>2. LongestPrefix(a) = NoMatch
      BY <3>1 DEF LongestPrefix
    <3>3. QED
      BY <2>4, <3>2 DEF subnet_activity_match_prefix
  <2>5. CASE found = {} /\ 0 \in Lengths(a.af)
    <3>1. /\ a.af \in Families /\ Width[a.af] > 0 /\ Width[a.af] \in Nat
          /\ a.bits \subseteq 0..(Width[a.af] - 1)
      BY <1>1, AddressTyped
    <3>2. shortest[a.af] = 0
      BY <2>5, <2>d, <3>1 DEF LengthsHold, Lengths
    <3>s. \/ shortest[a.af] = Width[a.af]
          \/ \E i \in 1..Len(defs) :
               defs[i].prefix.address.af = a.af /\ defs[i].prefix.length = shortest[a.af]
      BY <2>d, <3>1 DEF LengthsHold
    <3>3. PICK i \in 1..Len(defs) :
            defs[i].prefix.address.af = a.af /\ defs[i].prefix.length = 0
      BY <3>1, <3>2, <3>s
    <3>4. defs[i].prefix \in OfFamily(a.af)
      BY <2>d, <3>3 DEF OfFamily
    <3>5. Canonical(defs[i].prefix)
      BY <1>1, <3>3, <3>4
    <3>e. 0..(0 - 1) = {}
      OBVIOUS
    <3>6. Covers(defs[i].prefix, a)
      BY <3>3, <3>5, <3>e DEF Canonical, Covers
    <3>7. defs[i].prefix = Masked(a, 0)
      BY <1>1, <2>1, <2>d, <3>3, <3>6, MaskedIsAround
    <3>8. Masked(a, 0) \in DOMAIN prefixes
      BY <2>d, <3>7 DEF TableHolds
    <3>9. \A j \in 1..Len(defs) : Covers(defs[j].prefix, a) => defs[j].prefix.length <= 0
      BY <2>2, <2>5
    <3>10. prefixes[Masked(a, 0)] = LongestPrefix(a)
      BY <1>1, <2>1, <3>8, <3>9, LongestOfLength
    <3>11. QED
      BY <1>1, <2>5, <3>8, <3>10 DEF subnet_activity_match_prefix
  <2>6. QED
    BY <2>3, <2>4, <2>5
<1>2. ASSUME SubnetInv, saPc = "loaded", NEW a \in Addresses, a.af = "AF_INET6",
             \A p \in OfFamily(a.af) : p.length > 0 /\ p.length % ByteBits = 0
      PROVE  subnet_activity_match_prefix(a) = LongestPrefix(a)
  <2> DEFINE found == {n \in Lengths(a.af) \ {0} : Masked(a, n) \in DOMAIN prefixes}
  <2>d. defs \in Seq(Definitions) /\ DOMAIN defs = 1..Len(defs) /\ LengthsHold
    BY <1>2 DEF SubnetInv
  <2>l. \A i \in 1..Len(defs) : defs[i].prefix.address.af = a.af
          => /\ defs[i].prefix.length > 0
             /\ defs[i].prefix.length % ByteBits = 0
             /\ defs[i].prefix.length \in Nat
    BY <1>2, <2>d, DefinitionTyped DEF OfFamily
  <2>1. PlainMasks(a)
    BY <1>2, <2>l, WholeBytes DEF PlainMasks, MaskOf
  <2>2. /\ \A j \in 1..Len(defs) : Covers(defs[j].prefix, a)
             => /\ defs[j].prefix.length \in Lengths(a.af)
                /\ defs[j].prefix.length \in found \cup {0}
        /\ found # {} => prefixes[Masked(a, Max(found))] = LongestPrefix(a)
    BY <1>2, <2>1, LookupAbove
  <2>3. CASE found # {}
    BY <2>2, <2>3 DEF subnet_activity_match_prefix
  <2>4. CASE found = {}
    <3>1. \A j \in DOMAIN defs : ~Covers(defs[j].prefix, a)
      BY <2>2, <2>4, <2>d, <2>l DEF Covers
    <3>2. LongestPrefix(a) = NoMatch
      BY <3>1 DEF LongestPrefix
    <3>3. a.af \in Families /\ Width[a.af] > 0 /\ Width[a.af] \in Nat
      BY <1>2, AddressTyped
    <3>4. shortest[a.af] \in Nat /\ shortest[a.af] > 0
      BY <2>d, <2>l, <3>3 DEF LengthsHold
    <3>5. longest[a.af] \in Nat
      BY <2>d, <3>3 DEF LengthsHold
    <3>6. 0 \notin Lengths(a.af)
      BY <3>4, <3>5 DEF Lengths
    <3>7. QED
      BY <2>4, <3>2, <3>6 DEF subnet_activity_match_prefix
  <2>5. QED
    BY <2>3, <2>4
<1>3. SubnetInv => LongestMatch
  BY <1>1, <1>2 DEF LongestMatch
<1>4. QED
  BY <1>3, SubnetInvariant, PTL

----------------------------------------------------------------------------
(***************************************************************************)
(* The configuration reader: for all files, however they include each      *)
(* other, any size of the buffer and any depth of includes.                *)
(***************************************************************************)

\* Joining sequences is associative.
LEMMA Regrouped ==
  \A S : \A x, y, z \in Seq(S) : (x \o y) \o z = x \o (y \o z)
BY ConcatAssociative

\* Sequences that are joined: what the last n of them are, one after the other.
LEMMA JoinedAre ==
  ASSUME NEW V, NEW s \in Seq(Seq(V))
  PROVE  /\ Joined(s) \in [0..Len(s) -> Seq(V)]
         /\ Joined(s)[0] = <<>>
         /\ \A n \in 1..Len(s) : Joined(s)[n] = s[Len(s) - n + 1] \o Joined(s)[n - 1]
<1> DEFINE N == Len(s)
           W == Seq(V)
           at(n) == IF n \in 1..N THEN s[N - n + 1] ELSE <<>>
           G == [n \in Nat |-> [x \in W |-> at(n) \o x]]
           Recursion(f) == f = [n \in 0..N |-> IF n = 0 THEN <<>> ELSE s[N - n + 1] \o f[n - 1]]
<1>1. /\ N \in Nat /\ <<>> \in W
      /\ \A n \in 1..N : N - n + 1 \in 1..N /\ s[N - n + 1] \in W
  BY LenProperties, ElementOfSeq
<1>2. G \in Steps(W) /\ \A n \in 1..N : \A x \in W : G[n][x] = s[N - n + 1] \o x
  <2>1. \A n \in Nat : at(n) \in W
    BY <1>1
  <2>2. \A n \in Nat : \A x \in W : at(n) \o x \in W
    <3> HIDE DEF at
    <3>1. QED
      BY <2>1, ConcatProperties
  <2>3. \A n \in 1..N : at(n) = s[N - n + 1] /\ n \in Nat
    OBVIOUS
  <2> HIDE DEF at, W
  <2>4. G \in [Nat -> [W -> W]]
    BY <2>2
  <2>5. \A n \in Nat : \A x \in W : G[n][x] = at(n) \o x
    OBVIOUS
  <2>6. QED
    BY <2>3, <2>4, <2>5 DEF Steps
<1> HIDE DEF G
<1>3. PICK f : Iterates(f, W, <<>>, G, N)
  <2> HIDE DEF W
  <2>1. QED
    BY <1>1, <1>2, Iterated
<1>4. f \in [0..N -> W] /\ f[0] = <<>> /\ \A n \in 1..N : f[n] = s[N - n + 1] \o f[n - 1]
  <2> HIDE DEF W
  <2>1. f \in [0..N -> W] /\ f[0] = <<>> /\ \A n \in 1..N : f[n] = G[n][f[n - 1]]
    BY <1>3 DEF Iterates
  <2>2. \A n \in 1..N : f[n - 1] \in W
    <3>1. \A n \in 1..N : n - 1 \in 0..N
      BY <1>1
    <3> HIDE DEF N
    <3>2. QED
      BY <2>1, <3>1
  <2>3. QED
    BY <1>2, <2>1, <2>2
<1>5. Recursion(f)
  <2>1. \A n \in 0..N : f[n] = IF n = 0 THEN <<>> ELSE s[N - n + 1] \o f[n - 1]
    BY <1>1, <1>4
  <2>2. f = [n \in 0..N |-> f[n]]
    BY <1>4
  <2>3. QED
    BY <2>1, <2>2
<1>6. Recursion(Joined(s))
  <2>1. Joined(s) = CHOOSE g : Recursion(g)
    BY DEF Joined
  <2> HIDE DEF Recursion
  <2>2. QED
    BY <1>5, <2>1
<1> DEFINE g == Joined(s)
<1>7. g = [n \in 0..N |-> g[n]] /\ g[0] = <<>> /\ \A n \in 1..N : g[n] = s[N - n + 1] \o g[n - 1]
  <2> HIDE DEF g
  <2>1. g = [n \in 0..N |-> IF n = 0 THEN <<>> ELSE s[N - n + 1] \o g[n - 1]]
    BY <1>6 DEF g
  <2>2. \A n \in 0..N : g[n] = IF n = 0 THEN <<>> ELSE s[N - n + 1] \o g[n - 1]
    BY <2>1
  <2>3. 0 \in 0..N /\ \A n \in 1..N : n \in 0..N /\ n # 0
    BY <1>1
  <2>4. g = [n \in 0..N |-> g[n]]
    BY <2>1
  <2> HIDE DEF N
  <2>5. QED
    BY <2>2, <2>3, <2>4
<1> HIDE DEF g
<1>8. \A n \in 0..N : g[n] \in W
  <2>1. \A n \in 1..N : g[n - 1] \in W => g[n] \in W
    BY <1>1, <1>7, ConcatProperties
  <2> HIDE DEF W
  <2>2. QED
    BY <1>1, <1>7, <2>1, IteratedStays
<1>9. g \in [0..N -> W]
  BY <1>7, <1>8
<1>10. QED
  BY <1>7, <1>9 DEF g

\* Joining begins with the first sequence.
LEMMA AllOfTail ==
  ASSUME NEW V, NEW s \in Seq(Seq(V))
  PROVE  /\ All(s) \in Seq(V)
         /\ s = <<>> => All(s) = <<>>
         /\ s # <<>> => All(s) = Head(s) \o All(Tail(s))
<1>1. Len(s) \in Nat /\ (s = <<>> => Len(s) = 0)
  OBVIOUS
<1>2. All(s) \in Seq(V) /\ (s = <<>> => All(s) = <<>>)
  <2> DEFINE f == Joined(s)
             N == Len(s)
  <2>1. f \in [0..N -> Seq(V)] /\ f[0] = <<>>
    BY JoinedAre
  <2>2. N \in 0..N
    BY <1>1
  <2> HIDE DEF f
  <2>3. f[N] \in Seq(V)
    BY <2>1, <2>2
  <2>4. All(s) = f[N]
    BY DEF All, f
  <2>5. QED
    BY <1>1, <2>1, <2>3, <2>4
<1>3. ASSUME s # <<>>
      PROVE  All(s) = Head(s) \o All(Tail(s))
  <2> DEFINE N == Len(s)
             t == Tail(s)
             f == Joined(s)
             g == Joined(t)
             Q == {n \in Nat : n < N => f[n] = g[n]}
  <2>1. /\ t \in Seq(Seq(V)) /\ Len(t) = N - 1 /\ N \in Nat /\ N > 0
        /\ \A k \in 1..(N - 1) : t[k] = s[k + 1]
        /\ Head(s) = s[1]
    BY <1>3, HeadTailProperties
  <2>2. /\ f[0] = <<>> /\ g[0] = <<>>
        /\ \A n \in 1..N : f[n] = s[N - n + 1] \o f[n - 1]
        /\ \A n \in 1..(N - 1) : g[n] = t[N - 1 - n + 1] \o g[n - 1]
    BY <2>1, JoinedAre
  <2> HIDE DEF f, g, t
  <2>3. Q \in SUBSET Nat /\ 0 \in Q
    BY <2>2
  <2>4. ASSUME NEW n \in Nat, n \in Q
        PROVE  n + 1 \in Q
    <3>1. ASSUME n + 1 < N
          PROVE  f[n + 1] = g[n + 1]
      <4>1. /\ n + 1 \in 1..N /\ n + 1 \in 1..(N - 1) /\ (n + 1) - 1 = n
            /\ N - (n + 1) + 1 = N - n /\ N - 1 - (n + 1) + 1 = N - n - 1
            /\ N - n - 1 \in 1..(N - 1) /\ (N - n - 1) + 1 = N - n
        BY <2>1, <3>1
      <4>2. f[n + 1] = s[N - n] \o f[n]
        BY <2>2, <4>1
      <4>3. g[n + 1] = t[N - n - 1] \o g[n]
        BY <2>2, <4>1
      <4>4. t[N - n - 1] = s[N - n]
        BY <2>1, <4>1
      <4>5. f[n] = g[n]
        BY <2>4, <2>1, <3>1
      <4>6. QED
        BY <4>2, <4>3, <4>4, <4>5
    <3>2. QED
      BY <3>1
  <2>5. Q = Nat
    <3> HIDE DEF Q
    <3>1. QED
      BY <2>3, <2>4, Induction
  <2>6. f[N - 1] = g[N - 1]
    <3>1. N - 1 \in Nat /\ N - 1 < N
      BY <2>1
    <3>2. N - 1 \in Q
      BY <2>5, <3>1
    <3>3. QED
      BY <3>1, <3>2
  <2>7. f[N] = s[1] \o f[N - 1]
    <3>1. N \in 1..N /\ N - N + 1 = 1
      BY <2>1
    <3>2. QED
      BY <2>2, <3>1
  <2>8. QED
    BY <2>1, <2>6, <2>7 DEF All, f, g, t
<1>4. QED
  BY <1>2, <1>3

\* The places of the lines of a file.
LEMMA StartsAre ==
  ASSUME NEW e, NEW names, WellFormedEntry(e, names), e.type = "file"
  PROVE  /\ Len(e.lines) \in Nat
         /\ Start(e.lines, 1) = 0
         /\ \A n \in 1..(Len(e.lines) + 1) : Start(e.lines, n) \in Nat
         /\ \A n \in 1..Len(e.lines) :
              Start(e.lines, n + 1) = Start(e.lines, n) + e.lines[n].len + 1
         /\ \A m, n \in 1..(Len(e.lines) + 1) :
              m <= n => Start(e.lines, m) <= Start(e.lines, n)
<1> DEFINE N == Len(e.lines)
           s == [k \in 1..N |-> e.lines[k].len + 1]
<1>1. N \in Nat /\ \A k \in 1..N : e.lines[k].len + 1 \in Nat
  BY DEF WellFormedEntry, WellFormedLine
<1>2. s \in Seq(Nat) /\ Len(s) = N
  <2> HIDE DEF N
  <2>1. QED
    BY <1>1
<1>3. \A k \in 1..N : s[k] = e.lines[k].len + 1
  OBVIOUS
<1>4. \A n : Start(e.lines, n) = Sums(s)[n - 1]
  BY DEF Start
<1> HIDE DEF s
<1> DEFINE f == Sums(s)
<1>5. f \in [0..N -> Nat] /\ f[0] = 0 /\ \A n \in 1..N : f[n] = f[n - 1] + s[n]
  BY <1>2, SumsAre
<1>6. \A m, n \in 0..N : m <= n => f[m] <= f[n]
  BY <1>2, SumsMonotone
<1> HIDE DEF f
<1>7. \A n : Start(e.lines, n) = f[n - 1]
  BY <1>4 DEF f
<1>8. \A n \in 1..(N + 1) : n - 1 \in 0..N
  BY <1>1
<1>9. \A n \in 1..N : (n + 1) - 1 = n
  BY <1>1
<1> HIDE DEF N
<1>10. Start(e.lines, 1) = 0
  BY <1>5, <1>7
<1>11. \A n \in 1..(N + 1) : Start(e.lines, n) \in Nat
  BY <1>5, <1>7, <1>8
<1>12. \A n \in 1..N : Start(e.lines, n + 1) = Start(e.lines, n) + e.lines[n].len + 1
  <2> SUFFICES ASSUME NEW n \in 1..N
               PROVE  Start(e.lines, n + 1) = Start(e.lines, n) + e.lines[n].len + 1
    OBVIOUS
  <2>1. Start(e.lines, n + 1) = f[n] /\ Start(e.lines, n) = f[n - 1]
    BY <1>7, <1>9
  <2>2. f[n] = f[n - 1] + (e.lines[n].len + 1)
    BY <1>3, <1>5
  <2>3. f[n - 1] \in Nat /\ e.lines[n].len \in Nat
    <3>1. n - 1 \in 0..N
      BY <1>1
    <3>2. e.lines[n].len \in Nat
      BY DEF N, WellFormedEntry, WellFormedLine
    <3>3. QED
      BY <1>5, <3>1, <3>2
  <2>4. QED
    BY <2>1, <2>2, <2>3
<1>13. \A m, n \in 1..(N + 1) : m <= n => Start(e.lines, m) <= Start(e.lines, n)
  <2> SUFFICES ASSUME NEW m \in 1..(N + 1), NEW n \in 1..(N + 1), m <= n
               PROVE  Start(e.lines, m) <= Start(e.lines, n)
    OBVIOUS
  <2>1. m - 1 <= n - 1
    BY <1>1
  <2>2. QED
    BY <1>6, <1>7, <1>8, <2>1
<1>14. QED
  BY <1>1, <1>10, <1>11, <1>12, <1>13 DEF N

\* The n-th smallest of a finite set of numbers, for each n up to its size.
LEMMA Ranked ==
  ASSUME NEW S \in SUBSET Nat, IsFiniteSet(S)
  PROVE  /\ Cardinality(S) \in Nat
         /\ \A n \in 1..Cardinality(S) :
              \E x \in S : Cardinality({y \in S : y < x}) = n - 1
<1> DEFINE Has(T) == \A n \in 1..Cardinality(T) :
                       \E x \in T : Cardinality({y \in T : y < x}) = n - 1
           Q == {k \in Nat : \A T \in SUBSET Nat :
                               IsFiniteSet(T) /\ Cardinality(T) = k => Has(T)}
<1>1. 0 \in Q
  OBVIOUS
<1>2. ASSUME NEW k \in Nat, k \in Q
      PROVE  k + 1 \in Q
  <2> SUFFICES ASSUME NEW T \in SUBSET Nat, IsFiniteSet(T), Cardinality(T) = k + 1,
                      NEW n \in 1..(k + 1)
               PROVE  \E x \in T : Cardinality({y \in T : y < x}) = n - 1
    OBVIOUS
  <2>1. T # {}
    BY FS_EmptySet
  <2>2. PICK m \in T : \A y \in T : m <= y
    BY <2>1, Least
  <2> DEFINE U == T \ {m}
  <2>3. U \in SUBSET Nat /\ IsFiniteSet(U) /\ Cardinality(U) = k
    <3>1. U \in SUBSET Nat
      OBVIOUS
    <3>2. IsFiniteSet(U) /\ Cardinality(U) = Cardinality(T) - 1
      BY <2>2, FS_RemoveElement
    <3>3. QED
      BY <3>1, <3>2
  <2>4. CASE n = 1
    <3>0. \A y \in T : y \in Nat /\ m \in Nat /\ m <= y
      BY <2>2
    <3>1. {y \in T : y < m} = {}
      <4> SUFFICES ASSUME NEW y \in T, y < m PROVE FALSE
        OBVIOUS
      <4>1. QED
        BY <3>0
    <3>2. Cardinality({y \in T : y < m}) = n - 1
      BY <2>4, <3>1, FS_EmptySet
    <3>3. QED
      BY <3>2
  <2>5. CASE n # 1
    <3>1. n - 1 \in 1..k
      BY <2>5
    <3>2. Has(U)
      BY <1>2, <2>3
    <3>3. PICK x \in U : Cardinality({y \in U : y < x}) = (n - 1) - 1
      BY <2>3, <3>1, <3>2
    <3> DEFINE A == {y \in U : y < x}
    <3>4. {y \in T : y < x} = A \cup {m} /\ m \notin A /\ x \in T
      BY <2>2
    <3>5. IsFiniteSet(A)
      BY <2>3, FS_Subset
    <3>6. Cardinality(A \cup {m}) = Cardinality(A) + 1
      BY <3>4, <3>5, FS_AddElement
    <3>7. Cardinality({y \in T : y < x}) = n - 1
      BY <3>1, <3>3, <3>4, <3>6
    <3>8. QED
      BY <3>4, <3>7
  <2>6. QED
    BY <2>4, <2>5
<1>3. Q \in SUBSET Nat
  OBVIOUS
<1>4. Q = Nat
  <2> HIDE DEF Q
  <2>1. QED
    BY <1>1, <1>2, <1>3, Induction
<1>5. Cardinality(S) \in Nat
  BY FS_CardinalityType
<1>6. QED
  BY <1>4, <1>5

\* The names of a directory in their order.
LEMMA NamesInOrder ==
  ASSUME NEW S \in SUBSET Nat, IsFiniteSet(S)
  PROVE  Sorted(S) \in Seq(S) /\ (Sorted(S) = <<>> <=> S = {})
<1>1. Cardinality(S) \in Nat
  BY Ranked
<1>2. \A n \in 1..Cardinality(S) :
        (CHOOSE x \in S : Cardinality({y \in S : y < x}) = n - 1) \in S
  BY Ranked
<1>3. Sorted(S) \in Seq(S) /\ Len(Sorted(S)) = Cardinality(S)
  <2> DEFINE N == Cardinality(S)
             nth(n) == CHOOSE x \in S : Cardinality({y \in S : y < x}) = n - 1
  <2>1. N \in Nat /\ \A n \in 1..N : nth(n) \in S
    BY <1>1, <1>2
  <2>2. Sorted(S) = [n \in 1..N |-> nth(n)]
    BY DEF Sorted
  <2> HIDE DEF N, nth
  <2>3. [n \in 1..N |-> nth(n)] \in Seq(S) /\ Len([n \in 1..N |-> nth(n)]) = N
    BY <2>1
  <2>4. QED
    BY <2>2, <2>3 DEF N
<1>4. Cardinality(S) = 0 <=> S = {}
  BY FS_EmptySet
<1>5. QED
  BY <1>3, <1>4

----------------------------------------------------------------------------
(* The meaning of files.                                                   *)

LinesOf(system) ==
  UNION {{system.files[f].lines[n] : n \in 1..Len(system.files[f].lines)} :
           f \in DOMAIN system.files}

Items(system) == {Broken} \cup {l.arg : l \in LinesOf(system)}

\* What the files that may be included mean; nothing may be included: <<>>.
Deepers(system) == {<<>>} \cup [DOMAIN system.files -> Seq(Items(system))]

\* What may be left to read of a line, a file or a directory is a sequence of items.
LEMMA BrokenItems ==
  ASSUME NEW system
  PROVE  Broken \in Items(system) /\ <<>> \in Seq(Items(system)) /\ <<Broken>> \in Seq(Items(system))
<1>1. Broken \in Items(system)
  BY DEF Items
<1> HIDE DEF Items
<1>2. QED
  BY <1>1

\* The item of a line is one of the items of the system.
LEMMA ItemOfLine ==
  ASSUME NEW system, NEW file \in DOMAIN system.files,
         NEW n \in 1..Len(system.files[file].lines)
  PROVE  system.files[file].lines[n].arg \in Items(system)
<1>1. system.files[file].lines[n] \in LinesOf(system)
  BY DEF LinesOf
<1>2. QED
  BY <1>1 DEF Items

\* An include stands for a sequence of files.
LEMMA ListedAre ==
  ASSUME NEW system, WellFormed(system), NEW file \in DOMAIN system.files,
         system.files[file].type \in {"file", "dir"}
  PROVE  Listed(system.files[file], file) \in Seq(DOMAIN system.files)
<1> DEFINE e == system.files[file]
           names == DOMAIN system.files
<1>1. WellFormedEntry(e, names) /\ names \subseteq Nat
  BY DEF WellFormed
<1> HIDE DEF e, names
<1>2. CASE e.type = "dir"
  <2> DEFINE S == e.names \cap PlainNames
  <2>1. S \in SUBSET Nat /\ IsFiniteSet(S) /\ S \subseteq names
    BY <1>1, <1>2, FS_Subset DEF WellFormedEntry
  <2>2. Sorted(S) \in Seq(S)
    BY <2>1, NamesInOrder
  <2>3. Sorted(S) \in Seq(names)
    BY <2>1, <2>2, SeqMonotonic
  <2>4. QED
    BY <1>2, <2>3 DEF Listed, e, names
<1>3. CASE e.type = "file"
  <2>1. <<file>> \in Seq(names)
    <3>1. file \in names
      BY DEF names
    <3>2. QED
      BY <3>1
  <2>2. QED
    BY <1>3, <2>1 DEF Listed, e, names
<1>4. QED
  BY <1>2, <1>3 DEF e

\* What an include, a line and a file mean are sequences of items.
LEMMA IncludedMeans ==
  ASSUME NEW system, WellFormed(system), NEW l, l.arg \in DOMAIN system.files,
         l.if_exist \in BOOLEAN, NEW deeper \in Deepers(system)
  PROVE  Included(system, l, deeper) \in Seq(Items(system))
<1> DEFINE e == system.files[l.arg]
           files == Listed(e, l.arg)
           V == Items(system)
           names == DOMAIN system.files
<1>1. <<>> \in Seq(V) /\ <<Broken>> \in Seq(V)
  BY BrokenItems
<1>2. e.type \in {"file", "dir", "absent", "other"}
  BY DEF WellFormed, WellFormedEntry
<1>3. CASE deeper = <<>> \/ e.type = "other"
  BY <1>1, <1>3 DEF Included
<1>4. CASE deeper # <<>> /\ e.type = "absent"
  BY <1>1, <1>4 DEF Included
<1>5. CASE deeper # <<>> /\ e.type \in {"file", "dir"}
  <2> DEFINE s == [n \in 1..Len(files) |-> deeper[files[n]]]
  <2>1. files \in Seq(names)
    BY <1>5, ListedAre
  <2>2. deeper \in [names -> Seq(V)]
    BY <1>5 DEF Deepers
  <2>3. s \in Seq(Seq(V))
    <3> HIDE DEF files, V, names
    <3>1. Len(files) \in Nat /\ \A n \in 1..Len(files) : files[n] \in names
      BY <2>1
    <3>2. \A n \in 1..Len(files) : deeper[files[n]] \in Seq(V)
      BY <2>2, <3>1
    <3> DEFINE W == Seq(V)
               N == Len(files)
               at(n) == deeper[files[n]]
    <3>3. N \in Nat /\ \A n \in 1..N : at(n) \in W
      BY <3>1, <3>2
    <3> HIDE DEF W, N, at
    <3>4. [n \in 1..N |-> at(n)] \in Seq(W)
      BY <3>3
    <3>5. QED
      BY <3>4 DEF W, N, at
  <2>4. All(s) \in Seq(V)
    BY <2>3, AllOfTail
  <2>5. Included(system, l, deeper) = All(s)
    BY <1>5 DEF Included
  <2>6. QED
    BY <2>4, <2>5
<1>6. QED
  BY <1>2, <1>3, <1>4, <1>5

\* A line: an item, nothing, something broken or what it includes.
LEMMA LineMeans ==
  ASSUME NEW system, WellFormed(system), NEW file \in DOMAIN system.files,
         system.files[file].type = "file",
         NEW n \in 1..Len(system.files[file].lines), NEW deeper \in Deepers(system)
  PROVE  Meaning(system, system.files[file].lines[n], deeper) \in Seq(Items(system))
<1> DEFINE l == system.files[file].lines[n]
           V == Items(system)
<1>1. <<>> \in Seq(V) /\ <<Broken>> \in Seq(V)
  BY BrokenItems
<1>2. l.arg \in V
  BY ItemOfLine
<1>3. l.len \in Nat /\ (l.what = "include" => l.arg \in DOMAIN system.files /\ l.if_exist \in BOOLEAN)
  <2>1. WellFormedEntry(system.files[file], DOMAIN system.files)
    BY DEF WellFormed
  <2>2. WellFormedLine(l, DOMAIN system.files)
    BY <2>1 DEF WellFormedEntry
  <2>3. QED
    BY <2>2 DEF WellFormedLine
<1> HIDE DEF l
<1>4. l.what = "include" => Included(system, l, deeper) \in Seq(V)
  BY <1>3, IncludedMeans
<1>5. <<l.arg>> \in Seq(V)
  <2> HIDE DEF V
  <2>1. QED
    BY <1>2
<1>6. MAX_FILE_LINE_LENGTH \in Nat
  BY ConfigAssumption
<1> HIDE DEF V
<1>7. Meaning(system, l, deeper) \in {<<>>, <<Broken>>, <<l.arg>>}
        \/ (l.what = "include" /\ Meaning(system, l, deeper) = Included(system, l, deeper))
  <2>1. CASE l.len >= MAX_FILE_LINE_LENGTH
    BY <1>3, <1>6, <2>1 DEF Meaning
  <2>2. CASE l.len < MAX_FILE_LINE_LENGTH
    <3>1. ~(l.len >= MAX_FILE_LINE_LENGTH)
      BY <1>3, <1>6, <2>2
    <3>2. QED
      BY <2>2, <3>1 DEF Meaning
  <2>3. QED
    BY <1>3, <1>6, <2>1, <2>2
<1>8. QED
  BY <1>1, <1>4, <1>5, <1>7 DEF l, V

\* A file: its lines and its end.
LEMMA FileMeans ==
  ASSUME NEW system, WellFormed(system), NEW file \in DOMAIN system.files,
         NEW deeper \in Deepers(system)
  PROVE  /\ FileMeaning(system, file, deeper) \in Seq(Items(system))
         /\ system.files[file].type = "file" =>
              /\ LineMeanings(system, system.files[file], deeper) \in Seq(Seq(Items(system)))
              /\ Len(LineMeanings(system, system.files[file], deeper)) = Len(system.files[file].lines)
              /\ Ending(system, system.files[file]) \in Seq(Items(system))
<1> DEFINE e == system.files[file]
           V == Items(system)
           W == Seq(V)
           N == Len(e.lines)
           at(n) == Meaning(system, e.lines[n], deeper)
<1>1. <<>> \in W /\ <<Broken>> \in W
  BY BrokenItems
<1>2. ASSUME e.type = "file"
      PROVE  /\ LineMeanings(system, e, deeper) \in Seq(W)
             /\ Len(LineMeanings(system, e, deeper)) = N
             /\ Ending(system, e) \in W
  <2>1. N \in Nat
    BY <1>2 DEF WellFormed, WellFormedEntry
  <2>2. \A n \in 1..N : at(n) \in W
    BY <1>2, LineMeans
  <2>3. LineMeanings(system, e, deeper) = [n \in 1..N |-> at(n)]
    BY DEF LineMeanings
  <2>4. Ending(system, e) \in W
    <3> DEFINE a == IF e.ended THEN <<>> ELSE <<Broken>>
               b == IF e.status > 0 /\ ~system.ignored THEN <<Broken>> ELSE <<>>
    <3>1. a \in W /\ b \in W
      <4> HIDE DEF W, e
      <4>1. QED
        BY <1>1
    <3>2. Ending(system, e) = a \o b
      BY DEF Ending
    <3> HIDE DEF a, b, V
    <3>3. QED
      BY <3>1, <3>2, ConcatProperties
  <2> HIDE DEF N, at, W
  <2>5. [n \in 1..N |-> at(n)] \in Seq(W) /\ Len([n \in 1..N |-> at(n)]) = N
    BY <2>1, <2>2
  <2>6. QED
    BY <2>3, <2>4, <2>5
<1>3. FileMeaning(system, file, deeper) \in W
  <2>1. CASE e.type # "file"
    BY <1>1, <2>1 DEF FileMeaning
  <2>2. CASE e.type = "file"
    <3>1. All(LineMeanings(system, e, deeper)) \in W
      BY <1>2, <2>2, AllOfTail
    <3>2. All(LineMeanings(system, e, deeper)) \o Ending(system, e) \in W
      BY <1>2, <2>2, <3>1, ConcatProperties
    <3>3. QED
      BY <2>2, <3>2 DEF FileMeaning
  <2>3. QED
    BY <2>1, <2>2
<1>4. QED
  BY <1>2, <1>3

\* The recursion over how many includes are still allowed.
LEMMA MeaningsAre ==
  ASSUME NEW system, WellFormed(system)
  PROVE  \A d \in 0..(MaxInclude + 1) :
           /\ Meanings(system)[d] \in Deepers(system)
           /\ Meanings(system)[d] # <<>>
           /\ Meanings(system)[d] =
                [file \in DOMAIN system.files |->
                   FileMeaning(system, file, IF d = 0 THEN <<>> ELSE Meanings(system)[d - 1])]
<1> DEFINE N == MaxInclude + 1
           names == DOMAIN system.files
           W == Seq(Items(system))
           S == [names -> W]
           D == Deepers(system)
           means(x) == [file \in names |-> FileMeaning(system, file, x)]
           G == [n \in Nat |-> [x \in S |-> means(x)]]
           Recursion(f) == f = [d \in 0..N |->
                                  [file \in names |->
                                     FileMeaning(system, file, IF d = 0 THEN <<>> ELSE f[d - 1])]]
<1>1. N \in Nat
  BY ConfigAssumption
<1>2. <<>> \in D /\ S \subseteq D
  BY DEF Deepers
<1>3. \A x \in D : means(x) \in S
  <2>1. \A x \in D : \A file \in names : FileMeaning(system, file, x) \in W
    BY FileMeans
  <2> HIDE DEF W, D, names
  <2>2. QED
    BY <2>1
<1>4. G \in Steps(S) /\ \A n \in 1..N : \A x \in S : G[n][x] = means(x)
  <2> HIDE DEF S, means, D
  <2>1. \A x \in S : means(x) \in S
    BY <1>2, <1>3
  <2>2. QED
    BY <1>1, <2>1 DEF Steps
<1> HIDE DEF G
<1>5. PICK f : Iterates(f, S, means(<<>>), G, N)
  <2>1. means(<<>>) \in S
    BY <1>2, <1>3
  <2> HIDE DEF S, means
  <2>2. QED
    BY <1>1, <1>4, <2>1, Iterated
<1>6. f \in [0..N -> S] /\ f[0] = means(<<>>) /\ \A n \in 1..N : f[n] = means(f[n - 1])
  <2> HIDE DEF S, means
  <2>1. f \in [0..N -> S] /\ f[0] = means(<<>>) /\ \A n \in 1..N : f[n] = G[n][f[n - 1]]
    BY <1>5 DEF Iterates
  <2>2. \A n \in 1..N : f[n - 1] \in S
    <3>1. \A n \in 1..N : n - 1 \in 0..N
      BY <1>1
    <3> HIDE DEF N
    <3>2. QED
      BY <2>1, <3>1
  <2>3. QED
    BY <1>4, <2>1, <2>2
<1> DEFINE below(g, d) == IF d = 0 THEN <<>> ELSE g[d - 1]
<1>7. Recursion(f)
  <2>1. ASSUME NEW d \in 0..N
        PROVE  f[d] = means(below(f, d))
    <3>1. CASE d = 0
      BY <1>6, <3>1
    <3>2. CASE d # 0
      <4>1. d \in 1..N
        BY <1>1, <3>2
      <4>2. f[d] = means(f[d - 1])
        BY <1>6, <4>1
      <4>3. below(f, d) = f[d - 1]
        BY <3>2
      <4> HIDE DEF below, means
      <4>4. QED
        BY <4>2, <4>3
    <3>3. QED
      BY <3>1, <3>2
  <2>2. f = [d \in 0..N |-> f[d]]
    BY <1>6
  <2>3. f = [d \in 0..N |-> means(below(f, d))]
    <3> HIDE DEF means, below
    <3>1. QED
      BY <2>1, <2>2
  <2>4. QED
    BY <2>3
<1>8. Recursion(Meanings(system))
  <2>1. Meanings(system) = CHOOSE g : Recursion(g)
    BY DEF Meanings
  <2> HIDE DEF Recursion
  <2>2. QED
    BY <1>7, <2>1
<1> DEFINE g == Meanings(system)
<1>9. g = [d \in 0..N |-> means(below(g, d))]
  BY <1>8
<1> HIDE DEF g, means, below
<1>10. \A d \in 0..N : g[d] = means(below(g, d))
  BY <1>9
<1>11. \A d \in 0..N : g[d] \in S
  <2>1. g[0] \in S
    <3>1. below(g, 0) = <<>> /\ 0 \in 0..N
      BY <1>1 DEF below
    <3>2. g[0] = means(<<>>)
      BY <1>10, <3>1
    <3>3. QED
      BY <1>2, <1>3, <3>2
  <2>2. ASSUME NEW n \in 1..N, g[n - 1] \in S
        PROVE  g[n] \in S
    <3>1. n \in 0..N /\ n # 0
      BY <1>1
    <3>2. below(g, n) = g[n - 1]
      BY <3>1 DEF below
    <3>3. g[n] = means(g[n - 1])
      BY <1>10, <3>1, <3>2
    <3>4. g[n - 1] \in D
      BY <1>2, <2>2
    <3> HIDE DEF D, S
    <3>5. QED
      BY <1>3, <3>3, <3>4
  <2> DEFINE h == [d \in 0..N |-> g[d]]
  <2> HIDE DEF S
  <2>3. \A n \in 1..N : g[n - 1] \in S => g[n] \in S
    BY <2>2
  <2>4. g[0] \in S
    BY <2>1
  <2>5. PICK s \in S : s = g[0]
    BY <2>4
  <2>6. QED
    BY <1>1, <2>3, <2>5, IteratedStays
<1>12. Main \in names
  BY DEF WellFormed
<1>13. \A x \in S : x # <<>>
  <2>1. \A x \in S : DOMAIN x # {}
    BY <1>12
  <2>2. DOMAIN <<>> = {}
    OBVIOUS
  <2>3. QED
    BY <2>1, <2>2
<1>14. QED
  <2> SUFFICES ASSUME NEW d \in 0..N
               PROVE  /\ g[d] \in D /\ g[d] # <<>>
                      /\ g[d] = means(below(g, d))
    BY DEF g, means, below
  <2> HIDE DEF S, D
  <2>1. QED
    BY <1>2, <1>10, <1>11, <1>13

----------------------------------------------------------------------------
(* What is left to read.                                                   *)

Calls(system) ==
  [file : DOMAIN system.files, got : Nat, line : Nat,
   at : {"open", "read", "lines", "include", "close"},
   todo : Seq(DOMAIN system.files), child : {"none", "running", "exited"},
   err : {0, -1, -3, -4}]

\* What may be included by the k-th call of read_file().
DeeperAt(system, k) ==
  IF k = MaxInclude + 2 THEN <<>> ELSE Meanings(system)[MaxInclude + 1 - k]

\* What the files of the directory, the lines and the end of a call still mean.
Remaining(system, c, deeper) ==
  LET e == system.files[c.file]
  IN  IF e.type # "file" THEN <<Broken>>
      ELSE All([n \in 1..Len(c.todo) |-> deeper[c.todo[n]]])
             \o (Joined(LineMeanings(system, e, deeper))[Len(e.lines) + 1 - c.line]
                  \o Ending(system, e))

TextOf(system) == Meanings(system)[MaxInclude + 1][Main]

\* What the k-th call may include is what the files mean that the next call reads.
LEMMA DeeperAtIs ==
  ASSUME NEW system, WellFormed(system), NEW k \in 1..(MaxInclude + 2)
  PROVE  /\ DeeperAt(system, k) \in Deepers(system)
         /\ DeeperAt(system, k) = <<>> <=> k = MaxInclude + 2
         /\ k # MaxInclude + 2 =>
              /\ DeeperAt(system, k) \in [DOMAIN system.files -> Seq(Items(system))]
              /\ \A file \in DOMAIN system.files :
                   DeeperAt(system, k)[file] = FileMeaning(system, file, DeeperAt(system, k + 1))
<1> DEFINE M == Meanings(system)
           d == MaxInclude + 1 - k
           D == Deepers(system)
           names == DOMAIN system.files
           deeper(n) == IF n = 0 THEN <<>> ELSE M[n - 1]
<1>1. MaxInclude \in Nat
  BY ConfigAssumption
<1>2. CASE k = MaxInclude + 2
  BY <1>2 DEF DeeperAt, Deepers
<1>3. CASE k # MaxInclude + 2
  <2>1. d \in 0..(MaxInclude + 1)
    BY <1>1, <1>3
  <2>2. /\ M[d] \in D /\ M[d] # <<>>
        /\ M[d] = [file \in names |-> FileMeaning(system, file, deeper(d))]
    <3> HIDE DEF d
    <3>1. QED
      BY <2>1, MeaningsAre
  <2>3. DeeperAt(system, k) = M[d]
    BY <1>3 DEF DeeperAt
  <2>4. deeper(d) = DeeperAt(system, k + 1)
    <3>1. CASE k + 1 = MaxInclude + 2
      <4>1. d = 0
        BY <1>1, <3>1
      <4>2. QED
        BY <3>1, <4>1 DEF DeeperAt
    <3>2. CASE k + 1 # MaxInclude + 2
      <4>1. d # 0 /\ d - 1 = MaxInclude + 1 - (k + 1)
        BY <1>1, <3>2
      <4>2. QED
        BY <3>2, <4>1 DEF DeeperAt
    <3>3. QED
      BY <3>1, <3>2
  <2> HIDE DEF d, deeper, M
  <2>5. M[d] \in [names -> Seq(Items(system))]
    BY <2>2 DEF Deepers
  <2>6. \A file \in names : M[d][file] = FileMeaning(system, file, deeper(d))
    BY <2>2
  <2>7. QED
    BY <1>3, <2>2, <2>3, <2>4, <2>5, <2>6
<1>4. QED
  BY <1>2, <1>3

\* The text is what the first call reads.
LEMMA TextIs ==
  ASSUME NEW system, WellFormed(system)
  PROVE  TextOf(system) = FileMeaning(system, Main, DeeperAt(system, 1))
<1> DEFINE M == Meanings(system)
           d == MaxInclude + 1
           deeper == IF d = 0 THEN <<>> ELSE M[d - 1]
<1>1. d \in 0..(MaxInclude + 1) /\ d # 0 /\ d - 1 = MaxInclude + 1 - 1 /\ 1 # MaxInclude + 2
  BY ConfigAssumption
<1>2. M[d] = [file \in DOMAIN system.files |-> FileMeaning(system, file, deeper)]
  <2> HIDE DEF d
  <2>1. QED
    BY <1>1, MeaningsAre
<1>3. deeper = DeeperAt(system, 1)
  BY <1>1 DEF DeeperAt
<1>4. Main \in DOMAIN system.files
  BY DEF WellFormed
<1>5. TextOf(system) = M[d][Main]
  BY DEF TextOf
<1> HIDE DEF deeper, d, M
<1>6. QED
  BY <1>2, <1>3, <1>4, <1>5

\* The files of a directory that are still to be read.
TodoMeanings(todo, deeper) == [n \in 1..Len(todo) |-> deeper[todo[n]]]

\* The first of the files still to be read, and the others.
LEMMA TodoMeans ==
  ASSUME NEW names, NEW V, NEW deeper \in [names -> Seq(V)], NEW todo \in Seq(names)
  PROVE  /\ TodoMeanings(todo, deeper) \in Seq(Seq(V))
         /\ todo # <<>> =>
              /\ TodoMeanings(todo, deeper) # <<>>
              /\ Head(TodoMeanings(todo, deeper)) = deeper[Head(todo)]
              /\ Tail(TodoMeanings(todo, deeper)) = TodoMeanings(Tail(todo), deeper)
<1> DEFINE W == Seq(V)
           N == Len(todo)
           at(n) == deeper[todo[n]]
           s == [n \in 1..N |-> at(n)]
<1>1. N \in Nat /\ \A n \in 1..N : at(n) \in W
  BY LenProperties, ElementOfSeq
<1>2. s \in Seq(W) /\ Len(s) = N /\ \A n \in 1..N : s[n] = at(n)
  <2> HIDE DEF W, N, at
  <2>1. QED
    BY <1>1
<1>3. ASSUME todo # <<>>
      PROVE  /\ s # <<>> /\ Head(s) = deeper[Head(todo)]
             /\ Tail(s) = [n \in 1..Len(Tail(todo)) |-> deeper[Tail(todo)[n]]]
  <2> DEFINE t == Tail(todo)
             r == [n \in 1..Len(t) |-> deeper[t[n]]]
  <2>1. /\ t \in Seq(names) /\ Len(t) = N - 1 /\ Head(todo) = todo[1] /\ N > 0
        /\ \A n \in 1..(N - 1) : t[n] = todo[n + 1]
    BY <1>3, <1>1, HeadTailProperties
  <2> HIDE DEF t, W
  <2>2. s # <<>> /\ Head(s) = s[1]
    <3> HIDE DEF s
    <3>1. QED
      BY <1>1, <1>2, <2>1
  <2>3. /\ Tail(s) \in Seq(W) /\ Len(Tail(s)) = N - 1
        /\ \A n \in 1..(N - 1) : Tail(s)[n] = s[n + 1]
    <3> HIDE DEF s, N
    <3>1. QED
      BY <1>2, <2>2, HeadTailProperties
  <2>4. /\ \A n \in 1..(N - 1) : n + 1 \in 1..N
        /\ 1 \in 1..N /\ N - 1 \in Nat
    BY <1>1, <2>1
  <2>5. Head(s) = deeper[Head(todo)]
    BY <1>2, <2>1, <2>2, <2>4
  <2>6. \A n \in 1..(N - 1) : deeper[t[n]] = s[n + 1] /\ s[n + 1] \in W
    <3> SUFFICES ASSUME NEW n \in 1..(N - 1)
                 PROVE  deeper[t[n]] = s[n + 1] /\ s[n + 1] \in W
      OBVIOUS
    <3>1. n + 1 \in 1..N /\ t[n] = todo[n + 1]
      BY <2>1, <2>4
    <3>2. s[n + 1] = deeper[todo[n + 1]] /\ s[n + 1] \in W
      BY <1>1, <1>2, <3>1
    <3>3. QED
      BY <3>1, <3>2
  <2>7. r \in Seq(W) /\ Len(r) = N - 1 /\ \A n \in 1..(N - 1) : r[n] = deeper[t[n]]
    <3> DEFINE K == Len(t)
               el(n) == deeper[t[n]]
    <3>1. K = N - 1 /\ K \in Nat /\ \A n \in 1..K : el(n) \in W
      BY <2>1, <2>4, <2>6
    <3> HIDE DEF K, el
    <3>2. [n \in 1..K |-> el(n)] \in Seq(W) /\ Len([n \in 1..K |-> el(n)]) = K
          /\ \A n \in 1..K : [j \in 1..K |-> el(j)][n] = el(n)
      BY <3>1
    <3>3. QED
      BY <3>1, <3>2 DEF K, el
  <2>8. Tail(s) = r
    <3> HIDE DEF s, r
    <3>1. QED
      BY <2>3, <2>6, <2>7, SeqEqual
  <2>9. QED
    BY <2>2, <2>5, <2>8 DEF t
<1>4. TodoMeanings(todo, deeper) = s
  BY DEF TodoMeanings
<1>5. TodoMeanings(Tail(todo), deeper) = [n \in 1..Len(Tail(todo)) |-> deeper[Tail(todo)[n]]]
  BY DEF TodoMeanings
<1> HIDE DEF s
<1>6. QED
  BY <1>2, <1>3, <1>4, <1>5

\* What is left of a call that has begun.
LEMMA RemainingIs ==
  ASSUME NEW system, WellFormed(system), NEW c \in Calls(system),
         NEW deeper \in Deepers(system), deeper = <<>> => c.todo = <<>>,
         system.files[c.file].type = "file" =>
           c.line \in 1..(Len(system.files[c.file].lines) + 1)
  PROVE  /\ Remaining(system, c, deeper) \in Seq(Items(system))
         /\ system.files[c.file].type = "file" =>
              /\ All(TodoMeanings(c.todo, deeper)) \in Seq(Items(system))
              /\ Joined(LineMeanings(system, system.files[c.file], deeper))
                   [Len(system.files[c.file].lines) + 1 - c.line] \in Seq(Items(system))
              /\ Ending(system, system.files[c.file]) \in Seq(Items(system))
<1> DEFINE e == system.files[c.file]
           V == Items(system)
           names == DOMAIN system.files
           s == LineMeanings(system, e, deeper)
           N == Len(e.lines)
           line == c.line
<1>1. c.file \in names /\ c.todo \in Seq(names)
  BY DEF Calls
<1>2. CASE e.type # "file"
  BY <1>2, BrokenItems DEF Remaining
<1>3. CASE e.type = "file"
  <2>1. s \in Seq(Seq(V)) /\ Len(s) = N /\ Ending(system, e) \in Seq(V)
    BY <1>1, <1>3, FileMeans
  <2>2. line \in 1..(N + 1) /\ N \in Nat
    BY <1>1, <1>3 DEF WellFormed, WellFormedEntry
  <2>3. N + 1 - line \in 0..N
    <3> HIDE DEF N, line
    <3>1. QED
      BY <2>2
  <2>4. Joined(s)[N + 1 - line] \in Seq(V)
    <3>1. Joined(s) \in [0..N -> Seq(V)]
      <4> HIDE DEF s
      <4>1. Joined(s) \in [0..Len(s) -> Seq(V)]
        BY <2>1, JoinedAre
      <4>2. QED
        BY <2>1, <4>1
    <3> HIDE DEF N, line, s, V
    <3>2. QED
      BY <2>3, <3>1
  <2>5. All(TodoMeanings(c.todo, deeper)) \in Seq(V)
    <3>1. CASE c.todo = <<>>
      <4>1. Len(c.todo) = 0 /\ 1..0 = {}
        BY <3>1
      <4>2. TodoMeanings(c.todo, deeper) = <<>>
        BY <4>1 DEF TodoMeanings
      <4>3. <<>> \in Seq(Seq(V))
        OBVIOUS
      <4>4. QED
        BY <4>2, <4>3, AllOfTail
    <3>2. CASE c.todo # <<>>
      <4>1. deeper \in [names -> Seq(V)]
        BY <3>2 DEF Deepers
      <4>2. TodoMeanings(c.todo, deeper) \in Seq(Seq(V))
        <5> HIDE DEF V, names
        <5>1. QED
          BY <1>1, <4>1, TodoMeans
      <4>3. QED
        BY <4>2, AllOfTail
    <3>3. QED
      BY <3>1, <3>2
  <2>6. Joined(s)[N + 1 - line] \o Ending(system, e) \in Seq(V)
    <3> HIDE DEF s, N, line, V
    <3>1. QED
      BY <2>1, <2>4, ConcatProperties
  <2>7. Remaining(system, c, deeper)
          = All(TodoMeanings(c.todo, deeper)) \o (Joined(s)[N + 1 - line] \o Ending(system, e))
    BY <1>3 DEF Remaining, TodoMeanings
  <2>8. Remaining(system, c, deeper) \in Seq(V)
    <3> HIDE DEF s, N, line, V
    <3>1. QED
      BY <2>5, <2>6, <2>7, ConcatProperties
  <2>9. QED
    BY <2>1, <2>4, <2>5, <2>8
<1>4. QED
  BY <1>2, <1>3

\* Of a new call everything is left.
LEMMA CallMeans ==
  ASSUME NEW system, WellFormed(system), NEW file \in DOMAIN system.files,
         NEW deeper \in Deepers(system)
  PROVE  /\ Call(file) \in Calls(system)
         /\ Remaining(system, Call(file), deeper) = FileMeaning(system, file, deeper)
<1> DEFINE e == system.files[file]
           V == Items(system)
           s == LineMeanings(system, e, deeper)
           c == Call(file)
<1>1. /\ c \in Calls(system) /\ c.file = file /\ c.line = 1 /\ c.todo = <<>>
  BY DEF Call, Calls
<1> HIDE DEF c
<1>2. CASE e.type # "file"
  <2>1. Remaining(system, c, deeper) = <<Broken>> /\ FileMeaning(system, file, deeper) = <<Broken>>
    BY <1>1, <1>2 DEF Remaining, FileMeaning
  <2>2. QED
    BY <1>1, <2>1 DEF c
<1>3. CASE e.type = "file"
  <2>1. s \in Seq(Seq(V)) /\ Len(s) = Len(e.lines) /\ Ending(system, e) \in Seq(V)
    BY <1>3, FileMeans
  <2>2. All(s) \in Seq(V) /\ All(s) = Joined(s)[Len(e.lines)]
    <3>1. All(s) \in Seq(V)
      BY <2>1, AllOfTail
    <3>2. All(s) = Joined(s)[Len(s)]
      BY DEF All
    <3>3. QED
      BY <2>1, <3>1, <3>2
  <2>3. Len(e.lines) + 1 - c.line = Len(e.lines)
    <3>1. Len(e.lines) \in Nat
      BY <1>3 DEF WellFormed, WellFormedEntry
    <3>2. QED
      BY <1>1, <3>1
  <2>4. All([n \in 1..Len(c.todo) |-> deeper[c.todo[n]]]) = <<>>
    <3>1. Len(c.todo) = 0 /\ 1..0 = {}
      BY <1>1
    <3>2. [n \in 1..Len(c.todo) |-> deeper[c.todo[n]]] = <<>>
      BY <3>1
    <3>3. <<>> \in Seq(Seq(V))
      OBVIOUS
    <3>4. QED
      BY <3>2, <3>3, AllOfTail
  <2>5. Remaining(system, c, deeper)
          = All([n \in 1..Len(c.todo) |-> deeper[c.todo[n]]])
              \o (Joined(s)[Len(e.lines) + 1 - c.line] \o Ending(system, e))
    BY <1>1, <1>3 DEF Remaining
  <2>6. Remaining(system, c, deeper) = <<>> \o (All(s) \o Ending(system, e))
    BY <2>2, <2>3, <2>4, <2>5
  <2>7. All(s) \o Ending(system, e) \in Seq(V)
    <3> HIDE DEF s, V
    <3>1. QED
      BY <2>1, <2>2, ConcatProperties
  <2>8. FileMeaning(system, file, deeper) = All(s) \o Ending(system, e)
    BY <1>3 DEF FileMeaning
  <2>9. Remaining(system, c, deeper) = FileMeaning(system, file, deeper)
    <3> DEFINE a == All(s) \o Ending(system, e)
    <3> HIDE DEF a, V
    <3>1. a \in Seq(V)
      BY <2>7 DEF a
    <3>2. <<>> \o a = a
      BY <3>1, ConcatEmptySeq
    <3>3. QED
      BY <2>6, <2>8, <3>2 DEF a
  <2>10. QED
    BY <1>1, <2>9 DEF c
<1>4. QED
  BY <1>1, <1>2, <1>3 DEF c

\* What is left does not depend on how far the bytes of the lines have come.
LEMMA SameRemains ==
  ASSUME NEW system, NEW c, NEW d, NEW deeper,
         d.file = c.file, d.line = c.line, d.todo = c.todo
  PROVE  Remaining(system, d, deeper) = Remaining(system, c, deeper)
BY DEF Remaining

\* The next line is what is left before what is left after it.
LEMMA NextLine ==
  ASSUME NEW system, WellFormed(system), NEW c \in Calls(system),
         NEW deeper \in Deepers(system), c.todo = <<>>,
         system.files[c.file].type = "file",
         c.line \in 1..Len(system.files[c.file].lines)
  PROVE  LET d == [c EXCEPT !.line = @ + 1]
         IN  /\ Remaining(system, c, deeper)
                  = Meaning(system, system.files[c.file].lines[c.line], deeper)
                      \o Remaining(system, d, deeper)
             /\ Remaining(system, d, deeper) \in Seq(Items(system))
             /\ Meaning(system, system.files[c.file].lines[c.line], deeper) \in Seq(Items(system))
<1> DEFINE d == [c EXCEPT !.line = @ + 1]
           e == system.files[c.file]
           V == Items(system)
           W == Seq(V)
           s == LineMeanings(system, e, deeper)
           f == Joined(s)
           N == Len(e.lines)
           line == c.line
           l == e.lines[line]
           m == Meaning(system, l, deeper)
           end == Ending(system, e)
           none == All([n \in 1..Len(c.todo) |-> deeper[c.todo[n]]])
<1>1. d \in Calls(system) /\ d.file = c.file /\ d.line = line + 1 /\ d.todo = <<>>
  BY DEF Calls
<1>2. N \in Nat /\ line \in 1..N /\ c.file \in DOMAIN system.files
  BY DEF WellFormed, WellFormedEntry, Calls
<1>3. s \in Seq(W) /\ Len(s) = N /\ end \in W
  BY <1>2, FileMeans
<1>4. s[line] = m /\ m \in W
  <2>1. s[line] = m
    BY <1>2 DEF LineMeanings
  <2>2. m \in W
    BY <1>2, LineMeans
  <2>3. QED
    BY <2>1, <2>2
<1>5. /\ none = <<>> /\ All([n \in 1..Len(d.todo) |-> deeper[d.todo[n]]]) = <<>>
  <2>1. Len(<<>>) = 0 /\ 1..0 = {}
    OBVIOUS
  <2>2. [n \in 1..Len(<<>>) |-> deeper[<<>>[n]]] = <<>>
    BY <2>1
  <2>3. <<>> \in Seq(Seq(V))
    OBVIOUS
  <2>4. All([n \in 1..Len(<<>>) |-> deeper[<<>>[n]]]) = <<>>
    BY <2>2, <2>3, AllOfTail
  <2>5. QED
    BY <1>1, <2>4
<1>6. /\ Remaining(system, c, deeper) = <<>> \o (f[N + 1 - line] \o end)
      /\ Remaining(system, d, deeper) = <<>> \o (f[N + 1 - (line + 1)] \o end)
  BY <1>1, <1>5 DEF Remaining
<1> HIDE DEF s, N, line, V, m, end, d, e
<1>7. f \in [0..N -> W] /\ \A n \in 1..N : f[n] = s[N - n + 1] \o f[n - 1]
  <2>1. f \in [0..Len(s) -> W] /\ \A n \in 1..Len(s) : f[n] = s[Len(s) - n + 1] \o f[n - 1]
    BY <1>3, JoinedAre
  <2>2. QED
    BY <1>3, <2>1
<1> HIDE DEF f
<1>8. /\ N + 1 - line \in 1..N /\ N + 1 - line \in 0..N
      /\ N - (N + 1 - line) + 1 = line /\ (N + 1 - line) - 1 = N + 1 - (line + 1)
      /\ N + 1 - (line + 1) \in 0..N
  BY <1>2
<1> DEFINE a == f[N + 1 - line]
           b == f[N + 1 - (line + 1)]
<1>9. a = m \o b /\ a \in W /\ b \in W
  BY <1>4, <1>7, <1>8
<1> HIDE DEF a, b
<1>10. a \o end \in W /\ b \o end \in W /\ a \o end = m \o (b \o end)
  <2>1. a \o end \in W
    BY <1>3, <1>9, ConcatProperties
  <2>2. b \o end \in W
    BY <1>3, <1>9, ConcatProperties
  <2>3. (m \o b) \o end = m \o (b \o end)
    <3>1. \A x, y, z \in W : (x \o y) \o z = x \o (y \o z)
      BY Regrouped, SMTT(60)
    <3> HIDE DEF W
    <3>2. QED
      BY <1>3, <1>4, <1>9, <3>1
  <2>4. QED
    BY <1>9, <2>1, <2>2, <2>3
<1>11. Remaining(system, c, deeper) = a \o end /\ Remaining(system, d, deeper) = b \o end
  BY <1>6, <1>10, ConcatEmptySeq DEF a, b
<1>12. Remaining(system, c, deeper) = m \o Remaining(system, d, deeper) /\ Remaining(system, d, deeper) \in W
  BY <1>10, <1>11
<1>13. QED
  BY <1>4, <1>12 DEF d, m, l, line, V, e

\* Of a directory the next file is left and then the others.
LEMMA NextFile ==
  ASSUME NEW system, WellFormed(system), NEW c \in Calls(system),
         NEW k \in 1..(MaxInclude + 1), c.todo # <<>>,
         system.files[c.file].type = "file",
         c.line \in 1..(Len(system.files[c.file].lines) + 1)
  PROVE  LET d == [c EXCEPT !.todo = Tail(@)]
             deeper == DeeperAt(system, k)
         IN  /\ d \in Calls(system) /\ Head(c.todo) \in DOMAIN system.files
             /\ Remaining(system, c, deeper)
                  = Remaining(system, Call(Head(c.todo)), DeeperAt(system, k + 1))
                      \o Remaining(system, d, deeper)
             /\ Remaining(system, Call(Head(c.todo)), DeeperAt(system, k + 1)) \in Seq(Items(system))
             /\ Remaining(system, d, deeper) \in Seq(Items(system))
<1> DEFINE d == [c EXCEPT !.todo = Tail(@)]
           deeper == DeeperAt(system, k)
           e == system.files[c.file]
           V == Items(system)
           W == Seq(V)
           names == DOMAIN system.files
           todo == c.todo
           s == TodoMeanings(todo, deeper)
           t == TodoMeanings(Tail(todo), deeper)
           rest == Joined(LineMeanings(system, e, deeper))[Len(e.lines) + 1 - c.line]
                     \o Ending(system, e)
           file == Head(todo)
           call == Remaining(system, Call(file), DeeperAt(system, k + 1))
<1>1. todo \in Seq(names) /\ Tail(todo) \in Seq(names) /\ file \in names
  BY HeadTailProperties DEF Calls
<1>2. d \in Calls(system) /\ d.file = c.file /\ d.line = c.line /\ d.todo = Tail(todo)
  BY <1>1 DEF Calls
<1>3. /\ k \in 1..(MaxInclude + 2) /\ k + 1 \in 1..(MaxInclude + 2) /\ k # MaxInclude + 2
  BY ConfigAssumption
<1>4. /\ deeper \in Deepers(system) /\ deeper # <<>> /\ deeper \in [names -> W]
      /\ DeeperAt(system, k + 1) \in Deepers(system)
      /\ deeper[file] = FileMeaning(system, file, DeeperAt(system, k + 1))
  <2>1. deeper[file] = FileMeaning(system, file, DeeperAt(system, k + 1))
    BY <1>1, <1>3, DeeperAtIs
  <2>2. QED
    BY <1>3, <2>1, DeeperAtIs
<1>5. call = deeper[file] /\ call \in W
  <2>1. call = FileMeaning(system, file, DeeperAt(system, k + 1))
    BY <1>1, <1>4, CallMeans
  <2>2. deeper[file] \in W
    BY <1>1, <1>4
  <2>3. QED
    BY <1>4, <2>1, <2>2
<1>6. /\ Remaining(system, c, deeper) = All(s) \o rest
      /\ Remaining(system, d, deeper) = All(t) \o rest
  <2> HIDE DEF d, deeper
  <2>1. Remaining(system, c, deeper) = All(s) \o rest
    BY DEF Remaining, TodoMeanings
  <2>2. Remaining(system, d, deeper) = All(t) \o rest
    BY <1>2 DEF Remaining, TodoMeanings
  <2>3. QED
    BY <2>1, <2>2
<1>7. rest \in W
  <2> DEFINE left == Joined(LineMeanings(system, e, deeper))[Len(e.lines) + 1 - c.line]
             end == Ending(system, e)
  <2>1. left \in W /\ end \in W
    BY <1>4, RemainingIs
  <2> HIDE DEF left, end, W
  <2>2. left \o end \in W
    BY <2>1, ConcatProperties DEF W
  <2>3. QED
    BY <2>2 DEF left, end
<1>8. s \in Seq(W) /\ s # <<>> /\ Head(s) = deeper[file] /\ Tail(s) = t
  <2>1. /\ s \in Seq(W)
        /\ todo # <<>> => s # <<>> /\ Head(s) = deeper[Head(todo)] /\ Tail(s) = t
    <3>1. deeper \in [names -> Seq(V)] /\ todo \in Seq(names)
      BY <1>1, <1>4
    <3> HIDE DEF deeper, names, todo, V
    <3>2. s \in Seq(Seq(V))
      BY <3>1, TodoMeans
    <3>3. todo # <<>> => s # <<>> /\ Head(s) = deeper[Head(todo)] /\ Tail(s) = t
      <4>1. /\ s \in Seq(Seq(V))
            /\ todo # <<>> => s # <<>> /\ Head(s) = deeper[Head(todo)] /\ Tail(s) = t
        BY <3>1, TodoMeans
      <4> HIDE DEF s, t
      <4>2. QED
        BY <4>1
    <3>4. QED
      BY <3>2, <3>3
  <2>2. QED
    BY <2>1
<1> HIDE DEF rest, s, t, call, deeper, V, d
<1>9. All(s) = call \o All(t) /\ t \in Seq(W) /\ All(t) \in W
  <2>1. All(s) = Head(s) \o All(Tail(s))
    BY <1>8, AllOfTail
  <2>2. Tail(s) \in Seq(W)
    BY <1>8, HeadTailProperties
  <2>3. All(t) \in W
    BY <1>8, <2>2, AllOfTail
  <2>4. QED
    BY <1>5, <1>8, <2>1, <2>2, <2>3
<1>10. All(s) \o rest = call \o (All(t) \o rest) /\ All(t) \o rest \in W
  <2>1. All(t) \o rest \in W
    BY <1>7, <1>9, ConcatProperties
  <2>2. (call \o All(t)) \o rest = call \o (All(t) \o rest)
    <3>1. \A x, y, z \in W : (x \o y) \o z = x \o (y \o z)
      BY Regrouped, SMTT(60)
    <3> HIDE DEF W
    <3>2. QED
      BY <1>5, <1>7, <1>9, <3>1
  <2>3. QED
    BY <1>9, <2>1, <2>2
<1>11. QED
  BY <1>1, <1>2, <1>5, <1>6, <1>10 DEF call, deeper, V, d

\* Of a file whose lines are handled, that ends with a newline and whose child ended
\* well or unseen, nothing is left.
LEMMA NothingRemains ==
  ASSUME NEW system, WellFormed(system), NEW c \in Calls(system),
         NEW deeper \in Deepers(system), c.todo = <<>>,
         system.files[c.file].type = "file",
         system.files[c.file].ended,
         ~(system.files[c.file].status > 0 /\ ~system.ignored),
         c.line = Len(system.files[c.file].lines) + 1
  PROVE  Remaining(system, c, deeper) = <<>>
<1> DEFINE e == system.files[c.file]
           s == LineMeanings(system, e, deeper)
           V == Items(system)
<1>1. Len(e.lines) \in Nat /\ c.file \in DOMAIN system.files
  BY DEF WellFormed, WellFormedEntry, Calls
<1>2. Len(e.lines) + 1 - c.line = 0
  BY <1>1
<1>3. Joined(s)[0] = <<>>
  <2>1. s \in Seq(Seq(V))
    BY <1>1, FileMeans
  <2> HIDE DEF s
  <2>2. QED
    BY <2>1, JoinedAre
<1>4. Ending(system, e) = <<>> \o <<>>
  BY DEF Ending
<1>5. All([n \in 1..Len(c.todo) |-> deeper[c.todo[n]]]) = <<>>
  <2>1. Len(<<>>) = 0 /\ 1..0 = {}
    OBVIOUS
  <2>2. [n \in 1..Len(<<>>) |-> deeper[<<>>[n]]] = <<>>
    BY <2>1
  <2>3. <<>> \in Seq(Seq(V))
    OBVIOUS
  <2>4. All([n \in 1..Len(<<>>) |-> deeper[<<>>[n]]]) = <<>>
    BY <2>2, <2>3, AllOfTail
  <2>5. QED
    BY <2>4
<1>6. <<>> \o <<>> = <<>>
  BY EmptySeq, ConcatEmptySeq
<1>7. QED
  BY <1>2, <1>3, <1>4, <1>5, <1>6 DEF Remaining

----------------------------------------------------------------------------
(* What was read.                                                          *)

MeantConfig(items) == [f \in Fields |-> LastValue(items, f)]

\* One more item gives one option its value.
LEMMA LastValueOfMore ==
  ASSUME NEW V, NEW items \in Seq(V), NEW item \in V, NEW f
  PROVE  LastValue(items \o <<item>>, f)
           = IF item.field = f THEN item.value ELSE LastValue(items, f)
<1> DEFINE N == Len(items)
           s == items \o <<item>>
           G == {k \in DOMAIN items : items[k].field = f}
           H == {k \in DOMAIN s : s[k].field = f}
<1>1. /\ N \in Nat /\ DOMAIN items = 1..N /\ DOMAIN s = 1..(N + 1)
      /\ s[N + 1] = item /\ \A k \in 1..N : s[k] = items[k]
  <2>1. <<item>> \in Seq(V) /\ Len(<<item>>) = 1 /\ <<item>>[1] = item
    OBVIOUS
  <2>2. /\ s \in Seq(V) /\ Len(s) = N + 1
        /\ \A k \in 1..(N + 1) : s[k] = IF k <= N THEN items[k] ELSE <<item>>[k - N]
    BY <2>1, ConcatProperties
  <2>3. N \in Nat /\ DOMAIN items = 1..N
    BY LenProperties
  <2> HIDE DEF s, N
  <2>4. DOMAIN s = 1..(N + 1)
    BY <2>2, LenProperties
  <2>5. N + 1 \in 1..(N + 1) /\ ~(N + 1 <= N) /\ (N + 1) - N = 1
    BY <2>3
  <2>6. s[N + 1] = item
    BY <2>1, <2>2, <2>5
  <2>7. \A k \in 1..N : k \in 1..(N + 1) /\ k <= N
    BY <2>3
  <2>8. QED
    BY <2>2, <2>3, <2>4, <2>6, <2>7
<1>2. LastValue(items, f) = IF G = {} THEN Unset ELSE items[Max(G)].value
  BY DEF LastValue
<1>3. LastValue(s, f) = IF H = {} THEN Unset ELSE s[Max(H)].value
  BY DEF LastValue
<1> HIDE DEF s
<1>4. H \subseteq 0..(N + 1) /\ G \subseteq 0..N
  BY <1>1
<1>5. CASE item.field = f
  <2>1. N + 1 \in H
    BY <1>1, <1>5
  <2>2. Max(H) \in H /\ Max(H) >= N + 1
    <3> HIDE DEF H
    <3>1. N + 1 \in Nat /\ H # {}
      BY <1>1, <2>1
    <3>2. QED
      BY <1>4, <2>1, <3>1, MaxOfBounded
  <2>3. Max(H) = N + 1
    <3>1. Max(H) \in 0..(N + 1)
      BY <1>4, <2>2
    <3> HIDE DEF H, N
    <3>2. QED
      BY <1>1, <2>2, <3>1
  <2> HIDE DEF H
  <2>4. QED
    BY <1>1, <1>3, <1>5, <2>1, <2>3 DEF s
<1>6. CASE item.field # f
  <2>1. H = G
    <3>1. \A k \in H : k \in G
      <4> SUFFICES ASSUME NEW k \in H PROVE k \in G
        OBVIOUS
      <4>1. k \in 1..(N + 1) /\ s[k].field = f
        BY <1>1
      <4>2. k # N + 1
        BY <1>1, <1>6, <4>1
      <4>3. k \in 1..N
        BY <1>1, <4>1, <4>2
      <4>4. QED
        BY <1>1, <4>1, <4>3
    <3>2. \A k \in G : k \in H
      <4> SUFFICES ASSUME NEW k \in G PROVE k \in H
        OBVIOUS
      <4>1. k \in 1..N /\ k \in 1..(N + 1)
        BY <1>1
      <4>2. QED
        BY <1>1, <4>1
    <3>3. QED
      BY <3>1, <3>2
  <2>2. ASSUME G # {}
        PROVE  s[Max(G)] = items[Max(G)]
    <3>1. Max(G) \in G
      <4> HIDE DEF G
      <4>1. QED
        BY <1>1, <1>4, <2>2, MaxOfBounded
    <3>2. QED
      BY <1>1, <3>1
  <2> HIDE DEF G, H
  <2>3. QED
    BY <1>2, <1>3, <1>6, <2>1, <2>2 DEF s
<1>7. QED
  BY <1>5, <1>6

\* The configuration after one more item.
LEMMA ParsedIs ==
  ASSUME NEW V, NEW items \in Seq(V), NEW item \in V
  PROVE  Parsed(MeantConfig(items), item) = MeantConfig(items \o <<item>>)
<1> DEFINE m(f) == LastValue(items, f)
           n(f) == LastValue(items \o <<item>>, f)
<1>1. \A f : n(f) = IF item.field = f THEN item.value ELSE m(f)
  BY LastValueOfMore
<1> HIDE DEF m, n
<1>2. [[f \in Fields |-> m(f)] EXCEPT ![item.field] = item.value] = [f \in Fields |-> n(f)]
  BY <1>1
<1>3. QED
  BY <1>2 DEF m, n, MeantConfig, Parsed

\* Beginning or going on with an item does not break what was read.
LEMMA RangeOfMore ==
  ASSUME NEW V, NEW a \in Seq(V), NEW b \in Seq(V)
  PROVE  Broken \in Range(a \o b) <=> Broken \in Range(a) \/ Broken \in Range(b)
<1>1. /\ DOMAIN a = 1..Len(a) /\ DOMAIN b = 1..Len(b) /\ Len(a) \in Nat /\ Len(b) \in Nat
      /\ DOMAIN (a \o b) = 1..(Len(a) + Len(b))
      /\ \A k \in 1..(Len(a) + Len(b)) : (a \o b)[k] = IF k <= Len(a) THEN a[k] ELSE b[k - Len(a)]
  BY ConcatProperties, LenProperties
<1> DEFINE s == a \o b
           m == Len(a)
           n == Len(b)
<1> HIDE DEF s, m, n
<1>2. /\ DOMAIN a = 1..m /\ DOMAIN b = 1..n /\ m \in Nat /\ n \in Nat
      /\ DOMAIN s = 1..(m + n)
      /\ \A k \in 1..(m + n) : s[k] = IF k <= m THEN a[k] ELSE b[k - m]
  BY <1>1 DEF s, m, n
<1>3. ASSUME NEW k \in 1..(m + n), s[k] = Broken
      PROVE  (\E j \in 1..m : a[j] = Broken) \/ (\E j \in 1..n : b[j] = Broken)
  <2>1. CASE k <= m
    <3>1. k \in 1..m /\ s[k] = a[k]
      BY <1>2, <2>1
    <3>2. QED
      BY <1>3, <3>1
  <2>2. CASE ~(k <= m)
    <3>1. k - m \in 1..n /\ s[k] = b[k - m]
      BY <1>2, <2>2
    <3>2. QED
      BY <1>3, <3>1
  <2>3. QED
    BY <2>1, <2>2
<1>4. ASSUME NEW j \in 1..m, a[j] = Broken
      PROVE  \E k \in 1..(m + n) : s[k] = Broken
  <2>1. j \in 1..(m + n) /\ j <= m
    BY <1>2
  <2>2. s[j] = a[j]
    BY <1>2, <2>1
  <2>3. QED
    BY <1>4, <2>1, <2>2
<1>5. ASSUME NEW j \in 1..n, b[j] = Broken
      PROVE  \E k \in 1..(m + n) : s[k] = Broken
  <2>1. m + j \in 1..(m + n) /\ ~(m + j <= m) /\ (m + j) - m = j
    BY <1>2
  <2>2. s[m + j] = b[(m + j) - m]
    BY <1>2, <2>1
  <2>3. QED
    BY <1>5, <2>1, <2>2
<1>6. \A r : Broken \in Range(r) <=> \E k \in DOMAIN r : r[k] = Broken
  BY DEF Range
<1>7. QED
  BY <1>2, <1>3, <1>4, <1>5, <1>6 DEF s

----------------------------------------------------------------------------
(* The stack of calls.                                                     *)

\* The stack without its last call, with another last call, and with one more: what
\* is below stays.
LEMMA TopPopped ==
  ASSUME NEW S, NEW st \in Seq(S), st # <<>>
  PROVE  LET r == Front(st)
         IN  /\ r \in Seq(S) /\ Len(r) = Len(st) - 1
             /\ \A k \in 1..(Len(st) - 1) : r[k] = st[k]
<1> DEFINE n == Len(st)
<1>1. n \in Nat /\ n > 0
  BY EmptySeq
<1>2. /\ 1 \in 1..(n + 1) /\ n - 1 \in (1 - 1)..n
      /\ \A k \in 1..n : st[k] \in S
  BY <1>1, ElementOfSeq
<1>3. \A k \in 1..(n - 1) : k \in 1..n
  BY <1>1
<1>4. /\ SubSeq(st, 1, n - 1) \in Seq(S)
      /\ Len(SubSeq(st, 1, n - 1)) = IF 1 <= n - 1 THEN (n - 1) - 1 + 1 ELSE 0
      /\ \A k \in 1..((n - 1) - 1 + 1) : SubSeq(st, 1, n - 1)[k] = st[1 + k - 1]
  <2> HIDE DEF n
  <2>1. 1 \in 1..n /\ \A k \in 1..(n - 1) : k \in 1..n
    BY <1>1
  <2>2. \A k \in 1..(n - 1) : st[k] \in S
    BY <1>2, <2>1
  <2>3. QED
    BY <1>1, <2>2, SubSeqProperties
<1> HIDE DEF n
<1>5. /\ (IF 1 <= n - 1 THEN (n - 1) - 1 + 1 ELSE 0) = n - 1 /\ (n - 1) - 1 + 1 = n - 1
      /\ \A k \in 1..(n - 1) : 1 + k - 1 = k
  BY <1>1
<1>6. Front(st) = SubSeq(st, 1, n - 1)
  BY DEF Front, n
<1> DEFINE r == SubSeq(st, 1, n - 1)
<1> HIDE DEF r
<1>7. r \in Seq(S) /\ Len(r) = n - 1 /\ \A k \in 1..(n - 1) : r[k] = st[k]
  BY <1>4, <1>5 DEF r
<1>8. QED
  BY <1>6, <1>7 DEF r, n

\* The last call replaced.
LEMMA TopReplaced ==
  ASSUME NEW S, NEW st \in Seq(S), st # <<>>, NEW c \in S
  PROVE  LET r == Append(Front(st), c)
         IN  /\ r \in Seq(S) /\ r # <<>> /\ Len(r) = Len(st) /\ r[Len(st)] = c
             /\ Front(r) = Front(st)
             /\ \A k \in 1..(Len(st) - 1) : r[k] = st[k]
<1>1. Len(st) \in Nat /\ Len(st) > 0
  BY EmptySeq
<1> DEFINE n == Len(st)
           b == Front(st)
<1>2. b \in Seq(S) /\ Len(b) = n - 1 /\ \A k \in 1..(n - 1) : b[k] = st[k]
  BY TopPopped
<1> HIDE DEF b, n
<1>3. n \in Nat /\ n > 0
  BY <1>1 DEF n
<1> DEFINE r == Append(b, c)
<1>4. r \in Seq(S) /\ Len(r) = n /\ r[n] = c /\ \A k \in 1..(n - 1) : r[k] = b[k]
  BY <1>2, <1>3
<1> HIDE DEF r
<1>5. r # <<>>
  BY <1>3, <1>4
<1>6. Front(r) = b
  <2>1. Front(r) \in Seq(S) /\ Len(Front(r)) = n - 1 /\ \A k \in 1..(n - 1) : Front(r)[k] = r[k]
    BY <1>4, <1>5, TopPopped
  <2> DEFINE q == Front(r)
  <2> HIDE DEF q
  <2>2. q \in Seq(S) /\ Len(q) = Len(b) /\ \A k \in 1..Len(q) : q[k] = b[k]
    BY <1>2, <1>4, <2>1 DEF q
  <2>3. QED
    BY <1>2, <2>2, SeqEqual DEF q
<1>7. \A k \in 1..(n - 1) : r[k] = st[k]
  BY <1>2, <1>4
<1>8. QED
  BY <1>4, <1>5, <1>6, <1>7 DEF r, b, n

\* The last call replaced, and one more.
LEMMA TopPushed ==
  ASSUME NEW S, NEW st \in Seq(S), st # <<>>, NEW c \in S, NEW d \in S
  PROVE  LET r == Front(st) \o <<c, d>>
         IN  /\ r \in Seq(S) /\ Len(r) = Len(st) + 1 /\ r[Len(st)] = c /\ r[Len(st) + 1] = d
             /\ \A k \in 1..(Len(st) - 1) : r[k] = st[k]
<1>1. Len(st) \in Nat /\ Len(st) > 0
  BY EmptySeq
<1> DEFINE n == Len(st)
           b == Front(st)
           t == <<c, d>>
           r == b \o t
<1>2. b \in Seq(S) /\ Len(b) = n - 1 /\ \A k \in 1..(n - 1) : b[k] = st[k]
  BY <1>1, TopPopped
<1>3. t \in Seq(S) /\ Len(t) = 2 /\ t[1] = c /\ t[2] = d
  OBVIOUS
<1> HIDE DEF b, n, t
<1>4. n \in Nat /\ n > 0
  BY <1>1 DEF n
<1>5. /\ r \in Seq(S) /\ Len(r) = Len(b) + Len(t)
      /\ \A k \in 1..(Len(b) + Len(t)) : r[k] = IF k <= Len(b) THEN b[k] ELSE t[k - Len(b)]
  BY <1>2, <1>3, ConcatProperties
<1> HIDE DEF r
<1>6. /\ (n - 1) + 2 = n + 1 /\ n \in 1..(n + 1) /\ n + 1 \in 1..(n + 1)
      /\ n - (n - 1) = 1 /\ (n + 1) - (n - 1) = 2 /\ ~(n <= n - 1) /\ ~(n + 1 <= n - 1)
      /\ \A k \in 1..(n - 1) : k \in 1..(n + 1) /\ k <= n - 1
  BY <1>4
<1>7. /\ Len(r) = n + 1
      /\ \A k \in 1..(n + 1) : r[k] = IF k <= n - 1 THEN b[k] ELSE t[k - (n - 1)]
  BY <1>2, <1>3, <1>5, <1>6
<1>8. r[n] = c /\ r[n + 1] = d
  BY <1>3, <1>6, <1>7
<1>9. \A k \in 1..(n - 1) : r[k] = st[k]
  BY <1>2, <1>6, <1>7
<1>10. QED
  BY <1>5, <1>7, <1>8, <1>9 DEF r, n, b, t

----------------------------------------------------------------------------
(* What was read and what is left are the text.                            *)

LeftOf(system, st, k) == Remaining(system, st[k], DeeperAt(system, k))

\* R[k] is what the first k calls of a stack still mean.
Leaves(system, st, R) ==
  /\ R \in [0..Len(st) -> Seq(Items(system))]
  /\ R[0] = <<>>
  /\ \A k \in 1..Len(st) :
       LeftOf(system, st, k) \in Seq(Items(system)) /\ R[k] = LeftOf(system, st, k) \o R[k - 1]

GoesOn(system, st, conf, parsed, R) ==
  /\ Leaves(system, st, R)
  /\ parsed \in Seq(Items(system)) /\ Broken \notin Range(parsed)
  /\ TextOf(system) = parsed \o R[Len(st)]
  /\ conf = MeantConfig(parsed)

Progress(system, st, conf) == \E parsed, R : GoesOn(system, st, conf, parsed, R)

\* The running call goes on; what it still means stays the same or loses an item, which
\* is then in the configuration.
LEMMA ProgressReplaced ==
  ASSUME NEW system, NEW S, NEW st \in Seq(S), st # <<>>, NEW c \in S, NEW conf, NEW conf2,
         Progress(system, st, conf), NEW y \in Seq(Items(system)),
         y = Remaining(system, c, DeeperAt(system, Len(st))),
         \/ LeftOf(system, st, Len(st)) = y /\ conf2 = conf
         \/ \E item \in Items(system) :
              /\ item # Broken /\ LeftOf(system, st, Len(st)) = <<item>> \o y
              /\ conf2 = Parsed(conf, item)
  PROVE  Progress(system, Append(Front(st), c), conf2)
<1> DEFINE n == Len(st)
           V == Items(system)
           W == Seq(V)
           r == Append(Front(st), c)
           x == LeftOf(system, st, n)
<1>1. PICK parsed, R : GoesOn(system, st, conf, parsed, R)
  BY DEF Progress
<1> DEFINE below == R[n - 1]
           Q == [k \in 0..n |-> IF k = n THEN y \o below ELSE R[k]]
<1>2. /\ n \in Nat /\ n > 0 /\ Len(r) = n /\ r[n] = c
      /\ \A k \in 1..(n - 1) : r[k] = st[k]
  <2>1. n \in Nat /\ n > 0
    BY EmptySeq
  <2>2. QED
    BY <2>1, TopReplaced
<1>3. /\ R \in [0..n -> W] /\ R[0] = <<>>
      /\ \A k \in 1..n : LeftOf(system, st, k) \in W /\ R[k] = LeftOf(system, st, k) \o R[k - 1]
      /\ parsed \in W /\ Broken \notin Range(parsed)
      /\ TextOf(system) = parsed \o R[n] /\ conf = MeantConfig(parsed)
  BY <1>1 DEF GoesOn, Leaves
<1> HIDE DEF n, r, V
<1>4. n \in 1..n /\ n - 1 \in 0..n /\ n \in 0..n /\ 0 \in 0..n /\ 0 # n
  BY <1>2
<1>5. /\ below \in W /\ x \in W /\ R[n] = x \o below /\ y \in W
  BY <1>3, <1>4 DEF V
<1> HIDE DEF below, x
<1>6. y \o below \in W
  BY <1>5, ConcatProperties
<1>7. /\ \A k \in 1..(n - 1) : LeftOf(system, r, k) = LeftOf(system, st, k)
      /\ LeftOf(system, r, n) = y
  BY <1>2 DEF LeftOf, n
<1> HIDE DEF W
<1>8. Q \in [0..n -> W] /\ Q[0] = <<>> /\ Q[n] = y \o below
  BY <1>3, <1>4, <1>6
<1>9. ASSUME NEW k \in 1..n
      PROVE  LeftOf(system, r, k) \in W /\ Q[k] = LeftOf(system, r, k) \o Q[k - 1]
  <2>1. CASE k = n
    <3>1. Q[n - 1] = below
      <4>1. n - 1 # n
        BY <1>2
      <4>2. QED
        BY <1>4, <4>1 DEF below
    <3>2. QED
      BY <1>5, <1>7, <1>8, <2>1, <3>1
  <2>2. CASE k # n
    <3>1. k \in 1..(n - 1) /\ k \in 0..n /\ k - 1 \in 0..n /\ k - 1 # n
      BY <1>2, <2>2
    <3>2. Q[k] = R[k] /\ Q[k - 1] = R[k - 1]
      BY <2>2, <3>1
    <3>3. LeftOf(system, r, k) = LeftOf(system, st, k)
      BY <1>7, <3>1
    <3>4. QED
      BY <1>3, <3>2, <3>3
  <2>3. QED
    BY <2>1, <2>2
<1> HIDE DEF Q
<1>10. Leaves(system, r, Q)
  BY <1>2, <1>8, <1>9 DEF Leaves, W, V
<1>11. CASE x = y /\ conf2 = conf
  <2>1. TextOf(system) = parsed \o Q[n]
    BY <1>3, <1>5, <1>8, <1>11
  <2>2. GoesOn(system, r, conf2, parsed, Q)
    BY <1>2, <1>3, <1>10, <1>11, <2>1 DEF GoesOn, W, V
  <2>3. QED
    BY <2>2 DEF Progress, r
<1>12. CASE \E item \in V : item # Broken /\ x = <<item>> \o y /\ conf2 = Parsed(conf, item)
  <2>1. PICK item \in V : item # Broken /\ x = <<item>> \o y /\ conf2 = Parsed(conf, item)
    BY <1>12
  <2> DEFINE one == <<item>>
             more == parsed \o one
  <2>2. one \in W /\ Range(one) = {item}
    <3>1. one \in Seq(V)
      BY <2>1
    <3>2. DOMAIN one = {1} /\ one[1] = item
      OBVIOUS
    <3>3. QED
      BY <3>1, <3>2 DEF W, Range
  <2>3. conf2 = MeantConfig(more)
    BY <1>3, <2>1, ParsedIs DEF W
  <2> HIDE DEF one
  <2>4. more \in W
    BY <1>3, <2>2, ConcatProperties DEF W
  <2>5. Broken \notin Range(more)
    BY <1>3, <2>1, <2>2, RangeOfMore DEF W
  <2>6. TextOf(system) = more \o Q[n]
    <3>1. \A u, v, w \in W : (u \o v) \o w = u \o (v \o w)
      BY Regrouped, SMTT(60) DEF W
    <3>2. x \o below = one \o (y \o below)
      BY <1>5, <2>1, <2>2, <3>1 DEF one
    <3>3. (parsed \o one) \o (y \o below) = parsed \o (one \o (y \o below))
      BY <1>3, <1>6, <2>2, <3>1
    <3>4. QED
      BY <1>3, <1>5, <1>8, <3>2, <3>3
  <2> HIDE DEF more
  <2>7. GoesOn(system, r, conf2, more, Q)
    BY <1>2, <1>10, <2>3, <2>4, <2>5, <2>6 DEF GoesOn, W, V
  <2>8. QED
    BY <2>7 DEF Progress, r
<1>13. QED
  BY <1>11, <1>12 DEF x, V, n

\* A file is included: what the running call still means are the file and the rest.
LEMMA ProgressPushed ==
  ASSUME NEW system, NEW S, NEW st \in Seq(S), st # <<>>, NEW c \in S, NEW d \in S, NEW conf,
         Progress(system, st, conf), NEW y \in Seq(Items(system)), NEW z \in Seq(Items(system)),
         y = Remaining(system, c, DeeperAt(system, Len(st))),
         z = Remaining(system, d, DeeperAt(system, Len(st) + 1)),
         LeftOf(system, st, Len(st)) = z \o y
  PROVE  Progress(system, Front(st) \o <<c, d>>, conf)
<1> DEFINE n == Len(st)
           V == Items(system)
           W == Seq(V)
           r == Front(st) \o <<c, d>>
<1>1. PICK parsed, R : GoesOn(system, st, conf, parsed, R)
  BY DEF Progress
<1> DEFINE below == R[n - 1]
           Q == [k \in 0..(n + 1) |-> IF k = n THEN y \o below
                                     ELSE IF k = n + 1 THEN R[n] ELSE R[k]]
<1>2. /\ n \in Nat /\ n > 0 /\ Len(r) = n + 1 /\ r[n] = c /\ r[n + 1] = d
      /\ \A k \in 1..(n - 1) : r[k] = st[k]
  <2>1. n \in Nat /\ n > 0
    BY EmptySeq
  <2>2. QED
    BY <2>1, TopPushed
<1>3. /\ R \in [0..n -> W] /\ R[0] = <<>>
      /\ \A k \in 1..n : LeftOf(system, st, k) \in W /\ R[k] = LeftOf(system, st, k) \o R[k - 1]
      /\ parsed \in W /\ Broken \notin Range(parsed)
      /\ TextOf(system) = parsed \o R[n] /\ conf = MeantConfig(parsed)
  BY <1>1 DEF GoesOn, Leaves
<1>4. LeftOf(system, st, n) = z \o y
  OBVIOUS
<1> HIDE DEF n, r, V
<1>5. /\ n \in 1..n /\ n - 1 \in 0..n /\ n \in 0..n /\ 0 # n /\ 0 # n + 1 /\ n + 1 # n
      /\ 0 \in 0..(n + 1) /\ n \in 0..(n + 1) /\ n + 1 \in 0..(n + 1) /\ n - 1 \in 0..(n + 1)
      /\ n - 1 # n /\ n - 1 # n + 1 /\ (n + 1) - 1 = n
  BY <1>2
<1>6. below \in W /\ R[n] = (z \o y) \o below /\ y \in W /\ z \in W
  BY <1>3, <1>4, <1>5 DEF V
<1> HIDE DEF below
<1>7. y \o below \in W
  BY <1>6, ConcatProperties
<1>8. /\ \A k \in 1..(n - 1) : LeftOf(system, r, k) = LeftOf(system, st, k)
      /\ LeftOf(system, r, n) = y /\ LeftOf(system, r, n + 1) = z
  BY <1>2 DEF LeftOf, n
<1>9. R[n] = z \o (y \o below)
  <2>1. \A u, v, w \in W : (u \o v) \o w = u \o (v \o w)
    BY Regrouped, SMTT(60)
  <2> HIDE DEF W
  <2>2. QED
    BY <1>6, <2>1
<1> HIDE DEF W
<1>10. /\ Q \in [0..(n + 1) -> W] /\ Q[0] = <<>> /\ Q[n] = y \o below /\ Q[n + 1] = R[n]
       /\ Q[n - 1] = below
  <2>1. \A k \in 0..(n + 1) : k # n /\ k # n + 1 => k \in 0..n
    BY <1>2
  <2>2. \A k \in 0..(n + 1) : Q[k] \in W
    BY <1>3, <1>5, <1>7, <2>1
  <2>3. QED
    BY <1>3, <1>5, <2>2 DEF below
<1>11. ASSUME NEW k \in 1..(n + 1)
       PROVE  LeftOf(system, r, k) \in W /\ Q[k] = LeftOf(system, r, k) \o Q[k - 1]
  <2>1. CASE k = n
    BY <1>6, <1>8, <1>10, <2>1
  <2>2. CASE k = n + 1
    BY <1>5, <1>6, <1>8, <1>9, <1>10, <2>2
  <2>3. CASE k # n /\ k # n + 1
    <3>1. /\ k \in 1..(n - 1) /\ k \in 1..n /\ k \in 0..(n + 1) /\ k - 1 \in 0..(n + 1)
          /\ k - 1 # n /\ k - 1 # n + 1
      BY <1>2, <2>3
    <3>2. Q[k] = R[k] /\ Q[k - 1] = R[k - 1]
      BY <2>3, <3>1
    <3>3. LeftOf(system, r, k) = LeftOf(system, st, k)
      BY <1>8, <3>1
    <3>4. QED
      BY <1>3, <3>1, <3>2, <3>3
  <2>4. QED
    BY <2>1, <2>2, <2>3
<1> HIDE DEF Q
<1>12. Leaves(system, r, Q)
  BY <1>2, <1>10, <1>11 DEF Leaves, W, V
<1>13. GoesOn(system, r, conf, parsed, Q)
  BY <1>2, <1>3, <1>10, <1>12 DEF GoesOn, W, V
<1>14. QED
  BY <1>13 DEF Progress, r

\* A file was read: nothing is left of it.
LEMMA ProgressPopped ==
  ASSUME NEW system, NEW S, NEW st \in Seq(S), Len(st) > 1, NEW conf,
         Progress(system, st, conf), LeftOf(system, st, Len(st)) = <<>>
  PROVE  Progress(system, Front(st), conf)
<1> DEFINE n == Len(st)
           V == Items(system)
           W == Seq(V)
           r == Front(st)
<1>1. PICK parsed, R : GoesOn(system, st, conf, parsed, R)
  BY DEF Progress
<1> DEFINE Q == [k \in 0..(n - 1) |-> R[k]]
<1>2. /\ n \in Nat /\ n > 1 /\ Len(r) = n - 1
      /\ \A k \in 1..(n - 1) : r[k] = st[k]
  <2>1. n \in Nat /\ st # <<>>
    BY EmptySeq, LenProperties
  <2>2. QED
    BY <2>1, TopPopped
<1>3. /\ R \in [0..n -> W] /\ R[0] = <<>>
      /\ \A k \in 1..n : LeftOf(system, st, k) \in W /\ R[k] = LeftOf(system, st, k) \o R[k - 1]
      /\ parsed \in W /\ Broken \notin Range(parsed)
      /\ TextOf(system) = parsed \o R[n] /\ conf = MeantConfig(parsed)
  BY <1>1 DEF GoesOn, Leaves
<1>4. LeftOf(system, st, n) = <<>>
  OBVIOUS
<1> HIDE DEF n, r, V
<1>5. n \in 1..n /\ n - 1 \in 0..n /\ n - 1 \in 0..(n - 1) /\ 0 \in 0..(n - 1)
  BY <1>2
<1>6. R[n] = R[n - 1]
  <2>1. R[n - 1] \in W /\ R[n] = <<>> \o R[n - 1]
    BY <1>3, <1>4, <1>5
  <2>2. QED
    BY <2>1, ConcatEmptySeq
<1>7. \A k \in 1..(n - 1) : LeftOf(system, r, k) = LeftOf(system, st, k)
  BY <1>2 DEF LeftOf
<1> HIDE DEF W
<1>8. Q \in [0..(n - 1) -> W] /\ Q[0] = <<>> /\ Q[n - 1] = R[n]
  <2>1. \A k \in 0..(n - 1) : k \in 0..n
    BY <1>2
  <2>2. QED
    BY <1>3, <1>5, <1>6, <2>1
<1>9. ASSUME NEW k \in 1..(n - 1)
      PROVE  LeftOf(system, r, k) \in W /\ Q[k] = LeftOf(system, r, k) \o Q[k - 1]
  <2>1. k \in 1..n /\ k \in 0..(n - 1) /\ k - 1 \in 0..(n - 1)
    BY <1>2
  <2>2. Q[k] = R[k] /\ Q[k - 1] = R[k - 1]
    BY <2>1
  <2>3. QED
    BY <1>3, <1>7, <2>1, <2>2
<1> HIDE DEF Q
<1>10. Leaves(system, r, Q)
  BY <1>2, <1>8, <1>9 DEF Leaves, W, V
<1>11. GoesOn(system, r, conf, parsed, Q)
  BY <1>2, <1>3, <1>8, <1>10 DEF GoesOn, W, V
<1>12. QED
  BY <1>11 DEF Progress, r

\* What the running call still means is part of the text.
LEMMA BrokenSomewhere ==
  ASSUME NEW system, NEW S, NEW st \in Seq(S), st # <<>>, NEW conf,
         Progress(system, st, conf), Broken \in Range(LeftOf(system, st, Len(st)))
  PROVE  Broken \in Range(TextOf(system))
<1> DEFINE n == Len(st)
           W == Seq(Items(system))
           x == LeftOf(system, st, n)
<1>1. PICK parsed, R : GoesOn(system, st, conf, parsed, R)
  BY DEF Progress
<1>2. n \in 1..n /\ n - 1 \in 0..n /\ n \in 0..n
  <2>1. n \in Nat /\ n > 0
    BY EmptySeq
  <2> HIDE DEF n
  <2>2. QED
    BY <2>1
<1>3. /\ R \in [0..n -> W] /\ x \in W /\ R[n] = x \o R[n - 1]
      /\ parsed \in W /\ TextOf(system) = parsed \o R[n]
  BY <1>1, <1>2 DEF GoesOn, Leaves
<1>4. Broken \in Range(x)
  OBVIOUS
<1> HIDE DEF n, x
<1>5. R[n - 1] \in W /\ R[n] \in W
  BY <1>2, <1>3
<1>6. Broken \in Range(R[n])
  BY <1>3, <1>4, <1>5, RangeOfMore
<1>7. QED
  BY <1>3, <1>5, <1>6, RangeOfMore

\* When nothing is left of the only call, all of the text was read.
LEMMA AllRead ==
  ASSUME NEW system, NEW S, NEW st \in Seq(S), Len(st) = 1, NEW conf,
         Progress(system, st, conf), LeftOf(system, st, 1) = <<>>
  PROVE  Broken \notin Range(TextOf(system)) /\ conf = MeantConfig(TextOf(system))
<1> DEFINE W == Seq(Items(system))
<1>1. PICK parsed, R : GoesOn(system, st, conf, parsed, R)
  BY DEF Progress
<1>2. /\ R[0] = <<>> /\ R[1] = <<>> \o R[0] /\ TextOf(system) = parsed \o R[1]
      /\ parsed \in W /\ Broken \notin Range(parsed) /\ conf = MeantConfig(parsed)
  <2>1. 1 \in 1..1 /\ 1 - 1 = 0
    OBVIOUS
  <2>2. QED
    BY <1>1, <2>1 DEF GoesOn, Leaves
<1>3. R[1] = <<>>
  BY <1>2, EmptySeq, ConcatEmptySeq
<1>4. parsed \o <<>> = parsed
  BY <1>2, ConcatEmptySeq
<1>5. QED
  BY <1>2, <1>3, <1>4

----------------------------------------------------------------------------
(* The calls.                                                              *)

HasLineIn(e, c) ==
  /\ c.line <= Len(e.lines)
  /\ c.line < Len(e.lines) \/ e.ended
  /\ c.got >= Start(e.lines, c.line + 1)

\* How far a call is in its file.
InFile(e, c) ==
  /\ c.line \in 1..(Len(e.lines) + 1) /\ (~e.ended => c.line <= Len(e.lines))
  /\ c.got \in Start(e.lines, c.line)..Size(e)
  /\ c.got <= Start(e.lines, c.line) + MAX_FILE_LINE_LENGTH
  /\ c.at = "open" => c.got = 0 /\ c.line = 1
  /\ c.at # "open" => (c.child = "none" <=> e.status < 0)
  /\ c.at = "read" => ~HasLineIn(e, c)
  /\ c.at = "close" /\ c.err = 0 => e.ended /\ c.line = Len(e.lines) + 1

Reads(system, c) ==
  LET e == system.files[c.file]
  IN  /\ e.type = "file" => InFile(e, c)
      /\ c.at \in {"lines", "include"} \/ (c.at = "close" /\ c.err = 0) => e.type = "file"
      /\ c.at # "close" => c.err = 0
      /\ c.at # "include" => c.todo = <<>>

StackShape(system, st) ==
  /\ st \in Seq(Calls(system)) /\ Len(st) \in 1..(MaxInclude + 2)
  /\ \A k \in 1..Len(st) : Reads(system, st[k])
  /\ \A k \in 1..(Len(st) - 1) : st[k].at = "include"

\* The last call of a stack.
LEMMA ShapeIs ==
  ASSUME NEW system, NEW st, StackShape(system, st)
  PROVE  /\ st \in Seq(Calls(system)) /\ st # <<>> /\ Len(st) \in 1..(MaxInclude + 2)
         /\ Len(st) \in Nat /\ Last(st) = st[Len(st)]
         /\ Last(st) \in Calls(system) /\ Reads(system, Last(st))
<1>1. st \in Seq(Calls(system)) /\ Len(st) \in 1..(MaxInclude + 2)
  BY DEF StackShape
<1>2. Len(st) \in Nat /\ Len(st) \in 1..Len(st)
  BY <1>1, ConfigAssumption
<1>3. st # <<>>
  <2>1. Len(<<>>) = 0 /\ Len(st) # 0
    BY <1>1, <1>2
  <2>2. QED
    BY <2>1
<1>4. Last(st) = st[Len(st)]
  BY DEF Last
<1>5. st[Len(st)] \in Calls(system)
  BY <1>1, <1>2, ElementOfSeq
<1>6. QED
  BY <1>1, <1>2, <1>3, <1>4, <1>5 DEF StackShape

\* The shape of a stack stays when its last call is replaced by one that reads,
LEMMA ShapeReplaced ==
  ASSUME NEW system, NEW st, StackShape(system, st), NEW c \in Calls(system), Reads(system, c)
  PROVE  /\ StackShape(system, Append(Front(st), c))
         /\ Len(Append(Front(st), c)) = Len(st)
         /\ Last(Append(Front(st), c)) = c
<1> DEFINE n == Len(st)
           r == Append(Front(st), c)
<1>1. /\ st \in Seq(Calls(system)) /\ st # <<>> /\ n \in 1..(MaxInclude + 2) /\ n \in Nat
  BY ShapeIs
<1>2. /\ r \in Seq(Calls(system)) /\ Len(r) = n /\ r[n] = c
      /\ \A k \in 1..(n - 1) : r[k] = st[k]
  BY <1>1, TopReplaced
<1>3. /\ \A k \in 1..n : Reads(system, st[k])
      /\ \A k \in 1..(n - 1) : st[k].at = "include"
  BY DEF StackShape
<1> HIDE DEF n, r
<1>4. \A k \in 1..n : k = n \/ k \in 1..(n - 1)
  BY <1>1
<1>5. \A k \in 1..n : Reads(system, r[k])
  BY <1>2, <1>3, <1>4
<1>6. \A k \in 1..(n - 1) : r[k].at = "include"
  BY <1>2, <1>3
<1>7. StackShape(system, r)
  BY <1>1, <1>2, <1>5, <1>6 DEF StackShape
<1>8. Last(r) = c
  BY <1>2 DEF Last
<1>9. QED
  BY <1>2, <1>7, <1>8 DEF r, n

\* when another is pushed on one that includes, as long as that may include,
LEMMA ShapePushed ==
  ASSUME NEW system, NEW st, StackShape(system, st), Len(st) <= MaxInclude + 1,
         NEW c \in Calls(system), Reads(system, c), c.at = "include",
         NEW d \in Calls(system), Reads(system, d)
  PROVE  /\ StackShape(system, Front(st) \o <<c, d>>)
         /\ Len(Front(st) \o <<c, d>>) = Len(st) + 1
         /\ Last(Front(st) \o <<c, d>>) = d
<1> DEFINE n == Len(st)
           r == Front(st) \o <<c, d>>
<1>1. /\ st \in Seq(Calls(system)) /\ st # <<>> /\ n \in 1..(MaxInclude + 2) /\ n \in Nat
  BY ShapeIs
<1>2. /\ r \in Seq(Calls(system)) /\ Len(r) = n + 1 /\ r[n] = c /\ r[n + 1] = d
      /\ \A k \in 1..(n - 1) : r[k] = st[k]
  BY <1>1, TopPushed
<1>3. /\ \A k \in 1..n : Reads(system, st[k])
      /\ \A k \in 1..(n - 1) : st[k].at = "include"
  BY DEF StackShape
<1>4. n + 1 \in 1..(MaxInclude + 2) /\ (n + 1) - 1 = n
  BY <1>1, ConfigAssumption
<1> HIDE DEF n, r
<1>5. /\ \A k \in 1..(n + 1) : k = n + 1 \/ k = n \/ (k \in 1..(n - 1) /\ k \in 1..n)
      /\ \A k \in 1..n : k = n \/ k \in 1..(n - 1)
  BY <1>1
<1>6. \A k \in 1..(n + 1) : Reads(system, r[k])
  BY <1>2, <1>3, <1>5
<1>7. \A k \in 1..n : r[k].at = "include"
  BY <1>2, <1>3, <1>5
<1>8. StackShape(system, r)
  BY <1>2, <1>4, <1>6, <1>7 DEF StackShape
<1>9. Last(r) = d
  BY <1>2 DEF Last
<1>10. QED
  BY <1>2, <1>8, <1>9 DEF r, n

\* and when one ends: the one below it includes.
LEMMA ShapePopped ==
  ASSUME NEW system, NEW st, StackShape(system, st), Len(st) > 1
  PROVE  /\ StackShape(system, Front(st))
         /\ Len(Front(st)) = Len(st) - 1
         /\ Last(Front(st)).at = "include"
<1> DEFINE n == Len(st)
           r == Front(st)
<1>1. /\ st \in Seq(Calls(system)) /\ st # <<>> /\ n \in 1..(MaxInclude + 2) /\ n \in Nat
  BY ShapeIs
<1>2. /\ r \in Seq(Calls(system)) /\ Len(r) = n - 1
      /\ \A k \in 1..(n - 1) : r[k] = st[k]
  BY <1>1, TopPopped
<1>3. /\ \A k \in 1..n : Reads(system, st[k])
      /\ \A k \in 1..(n - 1) : st[k].at = "include"
  BY DEF StackShape
<1>4. n - 1 \in 1..(MaxInclude + 2) /\ n - 1 \in 1..(n - 1)
  BY <1>1, ConfigAssumption
<1> HIDE DEF n, r
<1>5. /\ \A k \in 1..(n - 1) : k \in 1..n
      /\ \A k \in 1..((n - 1) - 1) : k \in 1..(n - 1)
  BY <1>1
<1>6. StackShape(system, r)
  BY <1>2, <1>3, <1>4, <1>5 DEF StackShape
<1>7. Last(r).at = "include"
  BY <1>2, <1>3, <1>4 DEF Last
<1>8. QED
  BY <1>2, <1>6, <1>7 DEF r, n

----------------------------------------------------------------------------
(* The inductive invariant.                                                *)

BrokenText == Broken \in Range(TextOf(fs))

ConfigInv ==
  /\ fs \in FileSystems
  /\ configPc \in {"reading", "read", "ready", "exited"} /\ faulted \in BOOLEAN
  /\ StackShape(fs, stack) /\ Top.at # "include"
  /\ config_include_loop = Len(stack) - 1
  /\ Top.err # 0 => faulted \/ BrokenText
  /\ configPc = "reading" => Progress(fs, stack, config)
  /\ configPc \in {"read", "ready"} => ~BrokenText /\ config = MeantConfig(TextOf(fs))
  /\ configPc = "exited" =>
       \/ faulted \/ BrokenText
       \/ \E f \in Required : MeantConfig(TextOf(fs))[f] = Unset

\* The running call while the configuration is read.
LEMMA TopIs ==
  ASSUME ConfigInv, configPc = "reading"
  PROVE  /\ WellFormed(fs) /\ StackShape(fs, stack) /\ Progress(fs, stack, config)
         /\ stack \in Seq(Calls(fs)) /\ stack # <<>> /\ Top = stack[Len(stack)]
         /\ Len(stack) \in 1..(MaxInclude + 2) /\ Len(stack) \in Nat
         /\ Top \in Calls(fs) /\ Reads(fs, Top) /\ Top.todo = <<>> /\ Top.file \in DOMAIN fs.files
         /\ Entry(Top.file) = fs.files[Top.file]
         /\ WellFormedEntry(fs.files[Top.file], DOMAIN fs.files)
<1>1. WellFormed(fs) /\ StackShape(fs, stack) /\ Progress(fs, stack, config) /\ Top.at # "include"
  BY FilesAssumption DEF ConfigInv
<1>2. /\ stack \in Seq(Calls(fs)) /\ stack # <<>> /\ Len(stack) \in 1..(MaxInclude + 2)
      /\ Len(stack) \in Nat /\ Top = stack[Len(stack)] /\ Top \in Calls(fs) /\ Reads(fs, Top)
  BY <1>1, ShapeIs DEF Top
<1>3. Top.file \in DOMAIN fs.files
  BY <1>2 DEF Calls
<1>4. Top.todo = <<>>
  BY <1>1, <1>2 DEF Reads
<1>5. Entry(Top.file) = fs.files[Top.file]
  BY DEF Entry
<1>6. WellFormedEntry(fs.files[Top.file], DOMAIN fs.files)
  BY <1>1, <1>3 DEF WellFormed
<1>7. QED
  BY <1>1, <1>2, <1>3, <1>4, <1>5, <1>6

\* What the running call still means, and that it is part of the text.
LEMMA LeftOfTop ==
  ASSUME ConfigInv, configPc = "reading"
  PROVE  /\ LeftOf(fs, stack, Len(stack)) = Remaining(fs, Top, DeeperAt(fs, Len(stack)))
         /\ LeftOf(fs, stack, Len(stack)) \in Seq(Items(fs))
         /\ DeeperAt(fs, Len(stack)) \in Deepers(fs)
         /\ DeeperAt(fs, Len(stack)) = <<>> <=> Len(stack) = MaxInclude + 2
         /\ Broken \in Range(LeftOf(fs, stack, Len(stack))) => BrokenText
<1> DEFINE n == Len(stack)
<1>1. /\ WellFormed(fs) /\ Progress(fs, stack, config) /\ n \in 1..(MaxInclude + 2) /\ n \in Nat
      /\ Top = stack[n] /\ stack \in Seq(Calls(fs)) /\ stack # <<>>
  BY TopIs
<1>2. LeftOf(fs, stack, n) = Remaining(fs, Top, DeeperAt(fs, n))
  BY <1>1 DEF LeftOf
<1>3. LeftOf(fs, stack, n) \in Seq(Items(fs))
  <2>1. PICK parsed, R : GoesOn(fs, stack, config, parsed, R)
    BY <1>1 DEF Progress
  <2>2. n \in 1..n
    BY <1>1
  <2>3. QED
    BY <2>1, <2>2 DEF GoesOn, Leaves
<1>4. DeeperAt(fs, n) \in Deepers(fs) /\ (DeeperAt(fs, n) = <<>> <=> n = MaxInclude + 2)
  BY <1>1, DeeperAtIs
<1>5. Broken \in Range(LeftOf(fs, stack, n)) => BrokenText
  BY <1>1, BrokenSomewhere DEF BrokenText
<1>6. QED
  BY <1>2, <1>3, <1>4, <1>5

----------------------------------------------------------------------------
(* Where something is broken.                                              *)

\* The size of a file: a last line without a newline has a byte.
LEMMA SizeIs ==
  ASSUME NEW e, NEW names, WellFormedEntry(e, names), e.type = "file"
  PROVE  /\ Size(e) \in Nat /\ Len(e.lines) \in Nat
         /\ e.ended => Size(e) = Start(e.lines, Len(e.lines) + 1)
         /\ ~e.ended => /\ Len(e.lines) > 0
                        /\ Size(e) > Start(e.lines, Len(e.lines))
<1> DEFINE N == Len(e.lines)
<1>1. /\ N \in Nat /\ Start(e.lines, N + 1) \in Nat
      /\ \A n \in 1..(N + 1) : Start(e.lines, n) \in Nat
      /\ \A n \in 1..N : Start(e.lines, n + 1) = Start(e.lines, n) + e.lines[n].len + 1
  <2>1. /\ N \in Nat /\ \A n \in 1..(N + 1) : Start(e.lines, n) \in Nat
        /\ \A n \in 1..N : Start(e.lines, n + 1) = Start(e.lines, n) + e.lines[n].len + 1
    BY StartsAre
  <2>2. N + 1 \in 1..(N + 1)
    BY <2>1
  <2>3. QED
    BY <2>1, <2>2
<1>2. CASE e.ended
  BY <1>1, <1>2 DEF Size
<1>3. CASE ~e.ended
  <2>1. N > 0 /\ e.lines[N].len > 0
    BY <1>3 DEF WellFormedEntry
  <2>2. N \in 1..N /\ N \in 1..(N + 1)
    BY <1>1, <2>1
  <2>3. e.lines[N].len \in Nat
    BY <2>2 DEF WellFormedEntry, WellFormedLine
  <2>4. Start(e.lines, N + 1) = Start(e.lines, N) + e.lines[N].len + 1 /\ Start(e.lines, N) \in Nat
    BY <1>1, <2>2
  <2>5. Size(e) = Start(e.lines, N + 1) - 1
    BY <1>3 DEF Size
  <2> HIDE DEF N
  <2>6. Size(e) \in Nat /\ Size(e) > Start(e.lines, N)
    BY <2>1, <2>3, <2>4, <2>5
  <2>7. QED
    BY <1>1, <1>3, <2>1, <2>6 DEF N
<1>4. QED
  BY <1>2, <1>3

\* What is broken is in the sequence of it alone.
LEMMA BrokenAlone == Broken \in Range(<<Broken>>)
<1>1. 1 \in DOMAIN <<Broken>> /\ <<Broken>>[1] = Broken
  OBVIOUS
<1>2. QED
  BY <1>1 DEF Range

\* A running call that is not of a file.
LEMMA NoFileBreaks ==
  ASSUME ConfigInv, configPc = "reading", Entry(Top.file).type # "file"
  PROVE  BrokenText
<1>1. Remaining(fs, Top, DeeperAt(fs, Len(stack))) = <<Broken>>
  BY DEF Remaining, Entry
<1>2. QED
  BY <1>1, LeftOfTop, BrokenAlone

\* A file that does not end with a newline, or whose child fails.
LEMMA EndingBreaks ==
  ASSUME ConfigInv, configPc = "reading", Entry(Top.file).type = "file",
         ~Entry(Top.file).ended \/ (Entry(Top.file).status > 0 /\ ~fs.ignored)
  PROVE  BrokenText
<1> DEFINE e == fs.files[Top.file]
           V == Items(fs)
           deeper == DeeperAt(fs, Len(stack))
           a == IF e.ended THEN <<>> ELSE <<Broken>>
           b == IF e.status > 0 /\ ~fs.ignored THEN <<Broken>> ELSE <<>>
           todo == All(TodoMeanings(Top.todo, deeper))
           left == Joined(LineMeanings(fs, e, deeper))[Len(e.lines) + 1 - Top.line]
           end == Ending(fs, e)
<1>1. e.type = "file" /\ (~e.ended \/ (e.status > 0 /\ ~fs.ignored))
  BY DEF Entry
<1>2. Broken \in Range(end)
  <2>1. a \in Seq(V) /\ b \in Seq(V)
    <3> HIDE DEF V, e
    <3>1. <<>> \in Seq(V) /\ <<Broken>> \in Seq(V)
      BY BrokenItems DEF V
    <3>2. QED
      BY <3>1
  <2>2. a = <<Broken>> \/ b = <<Broken>>
    BY <1>1
  <2>3. end = a \o b
    BY DEF Ending
  <2> HIDE DEF a, b, V, end
  <2>4. Broken \in Range(a) \/ Broken \in Range(b)
    BY <2>2, BrokenAlone
  <2>5. QED
    BY <2>1, <2>3, <2>4, RangeOfMore
<1>3. todo \in Seq(V) /\ left \in Seq(V) /\ end \in Seq(V)
  <2>1. /\ WellFormed(fs) /\ Top \in Calls(fs) /\ Top.todo = <<>> /\ Reads(fs, Top)
    BY TopIs
  <2>2. Top.line \in 1..(Len(e.lines) + 1)
    BY <1>1, <2>1 DEF Reads, InFile
  <2>3. deeper \in Deepers(fs)
    BY LeftOfTop
  <2> HIDE DEF deeper
  <2>4. QED
    BY <1>1, <2>1, <2>2, <2>3, RemainingIs
<1>4. Remaining(fs, Top, deeper) = todo \o (left \o end)
  BY <1>1 DEF Remaining, TodoMeanings
<1> HIDE DEF todo, left, end, V, deeper
<1>5. left \o end \in Seq(V) /\ Broken \in Range(left \o end)
  BY <1>2, <1>3, ConcatProperties, RangeOfMore
<1>6. Broken \in Range(todo \o (left \o end))
  BY <1>3, <1>5, RangeOfMore
<1>7. QED
  BY <1>4, <1>6, LeftOfTop DEF deeper

\* A line that means something broken.
LEMMA LineBreaks ==
  ASSUME ConfigInv, configPc = "reading", Entry(Top.file).type = "file",
         Top.line \in 1..Len(Entry(Top.file).lines),
         Broken \in Range(Meaning(fs, Entry(Top.file).lines[Top.line], DeeperAt(fs, Len(stack))))
  PROVE  BrokenText
<1> DEFINE e == fs.files[Top.file]
           V == Items(fs)
           deeper == DeeperAt(fs, Len(stack))
           m == Meaning(fs, e.lines[Top.line], deeper)
           d == [Top EXCEPT !.line = @ + 1]
           rest == Remaining(fs, d, deeper)
<1>1. /\ WellFormed(fs) /\ Top \in Calls(fs) /\ Top.todo = <<>> /\ Entry(Top.file) = e
  BY TopIs
<1>2. deeper \in Deepers(fs)
  BY LeftOfTop
<1>3. Broken \in Range(m)
  BY <1>1
<1>4. Remaining(fs, Top, deeper) = m \o rest /\ rest \in Seq(V) /\ m \in Seq(V)
  <2> HIDE DEF deeper
  <2>1. QED
    BY <1>1, <1>2, NextLine
<1> HIDE DEF m, rest, V
<1>5. Broken \in Range(m \o rest)
  BY <1>3, <1>4, RangeOfMore
<1>6. QED
  BY <1>4, <1>5, LeftOfTop

----------------------------------------------------------------------------
(* The steps: what happens to the running call.                            *)

\* The running call goes on, and what it means stays the same.
LEMMA Quiet ==
  ASSUME ConfigInv, configPc = "reading", NEW c \in Calls(fs), Reads(fs, c), c.at # "include",
         c.file = Top.file, c.line = Top.line, c.todo = Top.todo,
         SetTop(c), UNCHANGED <<fs, config_include_loop, config, configPc>>,
         faulted' \in BOOLEAN, faulted => faulted', c.err # 0 => faulted' \/ BrokenText
  PROVE  ConfigInv'
<1> DEFINE n == Len(stack)
<1>1. /\ WellFormed(fs) /\ StackShape(fs, stack) /\ Progress(fs, stack, config)
      /\ stack \in Seq(Calls(fs)) /\ stack # <<>>
  BY TopIs
<1>2. stack' = Append(Front(stack), c)
  BY DEF SetTop
<1>3. StackShape(fs, stack') /\ Len(stack') = n /\ Last(stack') = c
  BY <1>1, <1>2, ShapeReplaced
<1>4. Progress(fs, stack', config)
  <2> DEFINE y == LeftOf(fs, stack, n)
  <2>1. y \in Seq(Items(fs)) /\ y = Remaining(fs, Top, DeeperAt(fs, n))
    BY LeftOfTop
  <2>2. y = Remaining(fs, c, DeeperAt(fs, n))
    BY <2>1, SameRemains
  <2> HIDE DEF y
  <2>3. LeftOf(fs, stack, n) = y
    BY DEF y
  <2>4. QED
    BY <1>1, <1>2, <2>1, <2>2, <2>3, ProgressReplaced
<1>5. Top' = c /\ fs' = fs /\ config_include_loop' = config_include_loop /\ config' = config
      /\ configPc' = "reading"
  BY <1>3 DEF Top
<1>6. BrokenText' <=> BrokenText
  BY <1>5 DEF BrokenText
<1>7. StackShape(fs, stack)' /\ Progress(fs, stack, config)'
  BY <1>3, <1>4, <1>5
<1>8. fs \in FileSystems /\ config_include_loop = n - 1
  BY DEF ConfigInv
<1>9. QED
  BY <1>3, <1>5, <1>6, <1>7, <1>8 DEF ConfigInv

\* The process exits.
LEMMA Ends ==
  ASSUME ConfigInv, configPc = "reading", Exit, UNCHANGED <<fs, stack, config_include_loop>>,
         faulted' \in BOOLEAN, faulted => faulted', faulted' \/ BrokenText
  PROVE  ConfigInv'
<1>1. BrokenText' <=> BrokenText
  BY DEF BrokenText
<1>2. StackShape(fs, stack)'
  BY DEF ConfigInv
<1>3. Top' = Top
  BY DEF Top
<1>4. QED
  BY <1>1, <1>2, <1>3 DEF ConfigInv, Exit

\* HasLine() of the running call is HasLineIn() of its file.
LEMMA HasLineIs ==
  \A c : HasLine(c) <=> HasLineIn(fs.files[c.file], c)
BY DEF HasLine, HasLineIn, Lines, Entry

\* Of a call: what its record says.
LEMMA CallsAre ==
  ASSUME NEW system, NEW c \in Calls(system)
  PROVE  /\ c.file \in DOMAIN system.files /\ c.got \in Nat /\ c.line \in Nat
         /\ c.at \in {"open", "read", "lines", "include", "close"}
         /\ c.todo \in Seq(DOMAIN system.files) /\ c.child \in {"none", "running", "exited"}
         /\ c.err \in {0, -1, -3, -4}
BY DEF Calls

\* Where the running call is in its file.
LEMMA InTopFile ==
  ASSUME ConfigInv, configPc = "reading", Entry(Top.file).type = "file"
  PROVE  LET e == fs.files[Top.file]
         IN  /\ Entry(Top.file) = e /\ InFile(e, Top) /\ Size(e) \in Nat /\ Len(e.lines) \in Nat
             /\ e.ended \in BOOLEAN /\ e.status \in Int
             /\ Top.line \in 1..(Len(e.lines) + 1) /\ Top.got \in Nat /\ Top.got <= Size(e)
             /\ Start(e.lines, Top.line) \in Nat /\ Start(e.lines, Top.line) <= Top.got
             /\ Buflen(Top) = Top.got - Start(e.lines, Top.line)
             /\ Top.line <= Len(e.lines) =>
                  /\ e.lines[Top.line].len \in Nat
                  /\ Start(e.lines, Top.line + 1) = Start(e.lines, Top.line) + e.lines[Top.line].len + 1
                  /\ (e.ended \/ Top.line < Len(e.lines)) => Start(e.lines, Top.line + 1) <= Size(e)
             /\ Top.line = Len(e.lines) + 1 => e.ended /\ Start(e.lines, Top.line) = Size(e)
             /\ Top.line = Len(e.lines) /\ ~e.ended => Start(e.lines, Top.line) < Size(e)
<1> DEFINE e == fs.files[Top.file]
           N == Len(e.lines)
           line == Top.line
           bytes == Top.got
<1>1. /\ Entry(Top.file) = e /\ e.type = "file" /\ WellFormedEntry(e, DOMAIN fs.files)
      /\ Reads(fs, Top) /\ Top \in Calls(fs)
  BY TopIs
<1>2. InFile(e, Top) /\ bytes \in Nat
  BY <1>1, CallsAre DEF Reads
<1>3. e.ended \in BOOLEAN /\ e.status \in Int /\ \A n \in 1..N : e.lines[n].len \in Nat
  BY <1>1 DEF WellFormedEntry, WellFormedLine
<1>4. Buflen(Top) = bytes - Start(e.lines, line)
  BY <1>1 DEF Buflen, Lines
<1> HIDE DEF e
<1>5. /\ Size(e) \in Nat /\ N \in Nat
      /\ e.ended => Size(e) = Start(e.lines, N + 1)
      /\ ~e.ended => N > 0 /\ Size(e) > Start(e.lines, N)
  BY <1>1, SizeIs
<1>6. /\ \A n \in 1..(N + 1) : Start(e.lines, n) \in Nat
      /\ \A n \in 1..N : Start(e.lines, n + 1) = Start(e.lines, n) + e.lines[n].len + 1
      /\ \A m, n \in 1..(N + 1) : m <= n => Start(e.lines, m) <= Start(e.lines, n)
  BY <1>1, StartsAre
<1>7. /\ line \in 1..(N + 1) /\ (~e.ended => line <= N) /\ bytes \in Start(e.lines, line)..Size(e)
  BY <1>2 DEF InFile
<1> HIDE DEF N, line, bytes
<1>8. Start(e.lines, line) \in Nat /\ Start(e.lines, line) <= bytes /\ bytes <= Size(e)
  BY <1>2, <1>5, <1>6, <1>7
<1>9. ASSUME line <= N
      PROVE  /\ e.lines[line].len \in Nat
             /\ Start(e.lines, line + 1) = Start(e.lines, line) + e.lines[line].len + 1
             /\ (e.ended \/ line < N) => Start(e.lines, line + 1) <= Size(e)
  <2>1. line \in 1..N /\ line + 1 \in 1..(N + 1) /\ N + 1 \in 1..(N + 1)
    BY <1>5, <1>7, <1>9
  <2>2. e.ended => Start(e.lines, line + 1) <= Size(e)
    BY <1>5, <1>6, <1>7, <2>1
  <2>3. ASSUME ~e.ended, line < N
        PROVE  Start(e.lines, line + 1) <= Size(e)
    <3>1. line + 1 <= N /\ N \in 1..(N + 1)
      BY <1>5, <1>7, <2>1, <2>3
    <3>2. Start(e.lines, line + 1) <= Start(e.lines, N)
      BY <1>6, <2>1, <3>1
    <3>3. Start(e.lines, line + 1) \in Nat /\ Start(e.lines, N) \in Nat
      BY <1>6, <2>1, <3>1
    <3>4. QED
      BY <1>5, <2>3, <3>2, <3>3
  <2>4. QED
    BY <1>3, <1>6, <2>1, <2>2, <2>3 DEF N
<1>10. line = N + 1 => e.ended /\ Start(e.lines, line) = Size(e)
  <2>1. SUFFICES ASSUME line = N + 1 PROVE e.ended /\ Start(e.lines, line) = Size(e)
    OBVIOUS
  <2>2. e.ended
    BY <1>3, <1>5, <1>7, <2>1
  <2>3. QED
    BY <1>5, <2>1, <2>2
<1>11. line = N /\ ~e.ended => Start(e.lines, line) < Size(e)
  <2>1. SUFFICES ASSUME line = N, ~e.ended PROVE Start(e.lines, line) < Size(e)
    OBVIOUS
  <2>2. Size(e) > Start(e.lines, line)
    BY <1>5, <2>1
  <2>3. QED
    BY <1>5, <1>8, <2>2
<1>12. QED
  BY <1>1, <1>2, <1>3, <1>4, <1>5, <1>7, <1>8, <1>9, <1>10, <1>11 DEF e, N, line, bytes

\* open(): nothing is read yet.
LEMMA OpenFileStep ==
  ASSUME ConfigInv, OpenFile
  PROVE  ConfigInv'
<1> DEFINE e == fs.files[Top.file]
           child == IF e.type = "file" /\ e.status >= 0 THEN "running" ELSE "none"
           c == [Top EXCEPT !.at = "read", !.child = child]
<1>1. /\ configPc = "reading" /\ Top.at = "open" /\ e.type \in {"file", "dir"} /\ SetTop(c)
      /\ UNCHANGED <<fs, config_include_loop, config, configPc, faulted>>
  BY DEF OpenFile, Here, Entry
<1>2. /\ WellFormed(fs) /\ Top \in Calls(fs) /\ Reads(fs, Top) /\ Top.todo = <<>>
      /\ Entry(Top.file) = e
  BY <1>1, TopIs
<1>3. child \in {"none", "running", "exited"}
  OBVIOUS
<1> DEFINE ch == child
<1>4. /\ c \in Calls(fs) /\ c.file = Top.file /\ c.line = Top.line /\ c.todo = Top.todo
      /\ c.at = "read" /\ c.err = Top.err /\ c.got = Top.got /\ c.child = child
  <2> HIDE DEF child
  <2>1. QED
    BY <1>2, <1>3 DEF Calls
<1>5. Top.err = 0
  BY <1>1, <1>2 DEF Reads
<1>6. ASSUME e.type = "file"
      PROVE  InFile(e, c)
  <2>1. /\ InFile(e, Top) /\ e.status \in Int /\ Top.line \in 1..(Len(e.lines) + 1)
        /\ Len(e.lines) \in Nat /\ Start(e.lines, Top.line) \in Nat
        /\ Top.line <= Len(e.lines) =>
             /\ e.lines[Top.line].len \in Nat
             /\ Start(e.lines, Top.line + 1) = Start(e.lines, Top.line) + e.lines[Top.line].len + 1
    BY <1>1, <1>2, <1>6, InTopFile
  <2>2. Top.got = 0
    BY <1>1, <2>1 DEF InFile
  <2>3. child = "none" <=> e.status < 0
    BY <1>6, <2>1
  <2> HIDE DEF child, e
  <2>4. ~HasLineIn(e, c)
    <3> HIDE DEF c
    <3>1. CASE Top.line <= Len(e.lines)
      BY <1>4, <2>1, <2>2, <3>1 DEF HasLineIn
    <3>2. CASE ~(Top.line <= Len(e.lines))
      BY <1>4, <3>2 DEF HasLineIn
    <3>3. QED
      BY <3>1, <3>2
  <2> HIDE DEF c
  <2>5. QED
    BY <1>4, <2>1, <2>3, <2>4 DEF InFile
<1> HIDE DEF c
<1>7. Reads(fs, c)
  BY <1>2, <1>4, <1>5, <1>6 DEF Reads
<1>8. faulted \in BOOLEAN
  BY DEF ConfigInv
<1>9. QED
  BY <1>1, <1>4, <1>5, <1>7, <1>8, Quiet

\* open() fails: a system call failed, or there is no such file to be read.
LEMMA OpenFailsStep ==
  ASSUME ConfigInv, OpenFails
  PROVE  ConfigInv'
<1>1. /\ configPc = "reading" /\ Exit /\ faulted \in BOOLEAN
      /\ faulted' = (faulted \/ Entry(Top.file).type \in {"file", "dir"})
      /\ UNCHANGED <<fs, stack, config_include_loop, config>>
  BY DEF OpenFails, Here, ConfigInv
<1>2. faulted' \/ BrokenText
  <2>1. CASE Entry(Top.file).type = "file"
    BY <1>1, <2>1
  <2>2. CASE Entry(Top.file).type # "file"
    BY <1>1, <2>2, NoFileBreaks
  <2>3. QED
    BY <2>1, <2>2
<1>3. faulted' \in BOOLEAN /\ (faulted => faulted')
  BY <1>1
<1>4. QED
  BY <1>1, <1>2, <1>3, Ends

\* read() of n bytes.
LEMMA ReadStep ==
  ASSUME ConfigInv, NEW n \in 1..MAX_FILE_LINE_LENGTH, Read(n)
  PROVE  ConfigInv'
<1> DEFINE e == fs.files[Top.file]
           b == [Top EXCEPT !.got = @ + n]
           at == IF HasLineIn(e, b) THEN "lines" ELSE "read"
           c == [Top EXCEPT !.got = @ + n, !.at = at]
<1>1. /\ configPc = "reading" /\ Top.at = "read" /\ Entry(Top.file).type = "file"
      /\ n <= MAX_FILE_LINE_LENGTH - Buflen(Top) /\ n <= Size(e) - Top.got
      /\ SetTop(IF HasLine(b) THEN [b EXCEPT !.at = "lines"] ELSE b)
      /\ UNCHANGED <<fs, config_include_loop, config, configPc, faulted>>
  BY DEF Read, Reading, Here, Entry
<1>2. /\ WellFormed(fs) /\ Top \in Calls(fs) /\ Reads(fs, Top) /\ Top.todo = <<>> /\ Entry(Top.file) = e
  BY <1>1, TopIs
<1>3. /\ InFile(e, Top) /\ Size(e) \in Nat /\ Top.got \in Nat
      /\ Start(e.lines, Top.line) \in Nat /\ Start(e.lines, Top.line) <= Top.got
      /\ Buflen(Top) = Top.got - Start(e.lines, Top.line)
  BY <1>1, InTopFile
<1>4. MAX_FILE_LINE_LENGTH \in Nat /\ n \in Nat
  BY ConfigAssumption
<1>5. /\ b \in Calls(fs) /\ b.file = Top.file /\ b.line = Top.line /\ b.got = Top.got + n
      /\ b.at = "read"
  BY <1>1, <1>2, <1>4 DEF Calls
<1>6. HasLine(b) <=> HasLineIn(e, b)
  BY <1>5, HasLineIs
<1>7. (IF HasLine(b) THEN [b EXCEPT !.at = "lines"] ELSE b) = c
  <2>1. CASE HasLine(b)
    <3>1. at = "lines"
      BY <1>6, <2>1
    <3> HIDE DEF at
    <3>2. [b EXCEPT !.at = "lines"] = c
      BY <1>2, <1>4, <3>1 DEF Calls
    <3>3. QED
      BY <2>1, <3>2
  <2>2. CASE ~HasLine(b)
    <3>1. at = "read"
      BY <1>6, <2>2
    <3> HIDE DEF at
    <3>2. b = c
      BY <1>1, <1>2, <1>4, <3>1 DEF Calls
    <3>3. QED
      BY <2>2, <3>2
  <2>3. QED
    BY <2>1, <2>2
<1>8. at \in {"read", "lines"} /\ (at = "read" => ~HasLineIn(e, b))
  OBVIOUS
<1>9. /\ c \in Calls(fs) /\ c.file = Top.file /\ c.line = Top.line /\ c.todo = Top.todo
      /\ c.at = at /\ c.err = Top.err /\ c.got = Top.got + n /\ c.child = Top.child
  <2>1. at \in {"open", "read", "lines", "include", "close"} /\ Top.got + n \in Nat
    BY <1>3, <1>4
  <2> HIDE DEF at, e
  <2>2. QED
    BY <1>2, <2>1 DEF Calls
<1>10. Top.err = 0
  BY <1>1, <1>2 DEF Reads
<1>11. HasLineIn(e, c) <=> HasLineIn(e, b)
  <2> HIDE DEF b, c, e
  <2>1. QED
    BY <1>5, <1>9 DEF HasLineIn
<1> HIDE DEF b, c, at
<1>12. InFile(e, c)
  <2>1. Top.got + n \in Start(e.lines, Top.line)..Size(e)
    BY <1>1, <1>3, <1>4
  <2>2. Top.got + n <= Start(e.lines, Top.line) + MAX_FILE_LINE_LENGTH
    BY <1>1, <1>3, <1>4
  <2> HIDE DEF e
  <2>3. QED
    BY <1>1, <1>3, <1>8, <1>9, <1>11, <2>1, <2>2 DEF InFile
<1>13. Reads(fs, c)
  BY <1>1, <1>2, <1>8, <1>9, <1>10, <1>12 DEF Reads
<1>14. faulted \in BOOLEAN /\ SetTop(c)
  BY <1>1, <1>7 DEF ConfigInv
<1>15. QED
  BY <1>1, <1>8, <1>9, <1>10, <1>13, <1>14, Quiet

\* The end of the file: a line is left over exactly if the file does not end with a
\* newline.
LEMMA ReadEndStep ==
  ASSUME ConfigInv, ReadEnd
  PROVE  ConfigInv'
<1> DEFINE e == fs.files[Top.file]
           err == IF Buflen(Top) = 0 THEN 0 ELSE -3
           c == [Top EXCEPT !.at = "close", !.err = err]
<1>1. /\ configPc = "reading" /\ Top.at = "read" /\ Entry(Top.file).type = "file"
      /\ Top.got = Size(e) /\ SetTop(AtEnd(Top))
      /\ UNCHANGED <<fs, config_include_loop, config, configPc, faulted>>
  BY DEF ReadEnd, Reading, Here, Entry
<1>2. /\ WellFormed(fs) /\ Top \in Calls(fs) /\ Reads(fs, Top) /\ Top.todo = <<>> /\ Entry(Top.file) = e
  BY <1>1, TopIs
<1>3. /\ InFile(e, Top) /\ Size(e) \in Nat /\ Len(e.lines) \in Nat
      /\ e.ended \in BOOLEAN /\ Top.line \in 1..(Len(e.lines) + 1) /\ Top.got \in Nat
      /\ Start(e.lines, Top.line) \in Nat /\ Buflen(Top) = Top.got - Start(e.lines, Top.line)
      /\ Top.line <= Len(e.lines) /\ (e.ended \/ Top.line < Len(e.lines)) =>
           Start(e.lines, Top.line + 1) = Start(e.lines, Top.line) + e.lines[Top.line].len + 1
             /\ e.lines[Top.line].len \in Nat /\ Start(e.lines, Top.line + 1) <= Size(e)
      /\ Top.line = Len(e.lines) + 1 => e.ended /\ Start(e.lines, Top.line) = Size(e)
      /\ Top.line = Len(e.lines) /\ ~e.ended => Start(e.lines, Top.line) < Size(e)
  BY <1>1, InTopFile
<1>4. Top.err = 0
  BY <1>1, <1>2 DEF Reads
<1>5. AtEnd(Top) = c
  <2>1. CASE Buflen(Top) = 0
    <3>1. AtEnd(Top) = [Top EXCEPT !.at = "close"] /\ err = 0
      BY <2>1 DEF AtEnd
    <3> HIDE DEF err
    <3>2. [Top EXCEPT !.at = "close"] = c
      BY <1>2, <1>4, <3>1 DEF Calls
    <3>3. QED
      BY <3>1, <3>2
  <2>2. CASE Buflen(Top) # 0
    BY <2>2 DEF AtEnd
  <2>3. QED
    BY <2>1, <2>2
<1>6. /\ c \in Calls(fs) /\ c.file = Top.file /\ c.line = Top.line /\ c.todo = Top.todo
      /\ c.at = "close" /\ c.err = err /\ c.got = Top.got /\ c.child = Top.child
  <2>1. err \in {0, -1, -3, -4}
    OBVIOUS
  <2> HIDE DEF err
  <2>2. QED
    BY <1>2, <2>1 DEF Calls
<1>7. ~HasLineIn(e, Top)
  BY <1>1, <1>3 DEF InFile
<1> HIDE DEF c
<1>8. Top.line \in Nat
  BY <1>2, CallsAre
<1>9. Top.line = Len(e.lines) + 1 \/ (Top.line = Len(e.lines) /\ ~e.ended)
  <2> HIDE DEF e
  <2> SUFFICES ASSUME Top.line <= Len(e.lines), e.ended \/ Top.line < Len(e.lines)
               PROVE  FALSE
    BY <1>3, <1>8
  <2>1. Top.got >= Start(e.lines, Top.line + 1)
    BY <1>1, <1>3
  <2>2. QED
    BY <1>7, <2>1 DEF HasLineIn
<1>10. err = 0 => e.ended /\ Top.line = Len(e.lines) + 1
  BY <1>1, <1>3, <1>9
<1>11. err # 0 => ~e.ended
  BY <1>1, <1>3, <1>9
<1>12. err # 0 => BrokenText
  <2>1. SUFFICES ASSUME err # 0 PROVE BrokenText
    OBVIOUS
  <2>2. ~Entry(Top.file).ended
    BY <1>2, <1>11, <2>1
  <2>3. QED
    BY <1>1, <2>2, EndingBreaks
<1> HIDE DEF err
<1>13. InFile(e, c)
  <2> HIDE DEF e
  <2>1. QED
    BY <1>1, <1>3, <1>6, <1>10 DEF InFile
<1>14. Reads(fs, c)
  BY <1>1, <1>2, <1>6, <1>13 DEF Reads
<1>15. faulted \in BOOLEAN /\ SetTop(c)
  BY <1>1, <1>5 DEF ConfigInv
<1>16. QED
  BY <1>1, <1>6, <1>12, <1>14, <1>15, Quiet

\* A read error: a system call failed, or the file is a directory.
LEMMA ReadFailsStep ==
  ASSUME ConfigInv, ReadFails
  PROVE  ConfigInv'
<1> DEFINE e == fs.files[Top.file]
           c == [Top EXCEPT !.at = "close", !.err = -1]
<1>1. /\ configPc = "reading" /\ Top.at = "read" /\ SetTop(c)
      /\ faulted' = (faulted \/ Entry(Top.file).type = "file") /\ faulted \in BOOLEAN
      /\ UNCHANGED <<fs, config_include_loop, config, configPc>>
  BY DEF ReadFails, Here, ConfigInv
<1>2. /\ Top \in Calls(fs) /\ Reads(fs, Top) /\ Top.todo = <<>> /\ Entry(Top.file) = e
  BY <1>1, TopIs
<1>3. /\ c \in Calls(fs) /\ c.file = Top.file /\ c.line = Top.line /\ c.todo = Top.todo
      /\ c.at = "close" /\ c.err = -1 /\ c.got = Top.got /\ c.child = Top.child
  BY <1>2 DEF Calls
<1> HIDE DEF c
<1>4. e.type = "file" => InFile(e, c)
  <2>1. e.type = "file" => InFile(e, Top)
    BY <1>2 DEF Reads
  <2> HIDE DEF e
  <2>2. QED
    BY <1>1, <1>3, <2>1 DEF InFile
<1>5. Reads(fs, c)
  BY <1>2, <1>3, <1>4 DEF Reads
<1>6. faulted' \/ BrokenText
  <2>1. CASE Entry(Top.file).type = "file"
    BY <1>1, <2>1
  <2>2. CASE Entry(Top.file).type # "file"
    BY <1>1, <2>2, NoFileBreaks
  <2>3. QED
    BY <2>1, <2>2
<1>7. faulted' \in BOOLEAN /\ (faulted => faulted')
  BY <1>1
<1>8. QED
  BY <1>1, <1>3, <1>5, <1>6, <1>7, Quiet

\* A full buffer without a newline: the line is too long, or the last and not ended.
LEMMA LineTooLongStep ==
  ASSUME ConfigInv, LineTooLong
  PROVE  ConfigInv'
<1> DEFINE e == fs.files[Top.file]
           l == e.lines[Top.line]
           c == [Top EXCEPT !.at = "close", !.err = -4]
<1>1. /\ configPc = "reading" /\ Top.at = "read" /\ Entry(Top.file).type = "file"
      /\ Buflen(Top) = MAX_FILE_LINE_LENGTH /\ SetTop(c) /\ faulted \in BOOLEAN
      /\ UNCHANGED <<fs, config_include_loop, config, configPc, faulted>>
  BY DEF LineTooLong, Here, ConfigInv
<1>2. /\ Top \in Calls(fs) /\ Reads(fs, Top) /\ Top.todo = <<>> /\ Entry(Top.file) = e
  BY <1>1, TopIs
<1>3. /\ InFile(e, Top) /\ Size(e) \in Nat /\ Len(e.lines) \in Nat
      /\ e.ended \in BOOLEAN /\ Top.line \in 1..(Len(e.lines) + 1) /\ Top.got \in Nat
      /\ Top.got <= Size(e)
      /\ Start(e.lines, Top.line) \in Nat /\ Buflen(Top) = Top.got - Start(e.lines, Top.line)
      /\ Top.line <= Len(e.lines) =>
           Start(e.lines, Top.line + 1) = Start(e.lines, Top.line) + l.len + 1 /\ l.len \in Nat
      /\ Top.line = Len(e.lines) + 1 => Start(e.lines, Top.line) = Size(e)
  BY <1>1, InTopFile
<1>4. /\ c \in Calls(fs) /\ c.file = Top.file /\ c.line = Top.line /\ c.todo = Top.todo
      /\ c.at = "close" /\ c.err = -4 /\ c.got = Top.got /\ c.child = Top.child
  BY <1>2 DEF Calls
<1>5. MAX_FILE_LINE_LENGTH \in Nat /\ MAX_FILE_LINE_LENGTH > 0
  BY ConfigAssumption
<1> HIDE DEF c
<1>6. ~HasLineIn(e, Top)
  BY <1>1, <1>3 DEF InFile
<1>7. Top.line \in Nat /\ Top.line <= Len(e.lines) /\ Top.line \in 1..Len(e.lines)
  BY <1>1, <1>2, <1>3, <1>5, CallsAre
<1>8. BrokenText
  <2>1. CASE Top.line = Len(e.lines) /\ ~e.ended
    BY <1>1, <1>2, <2>1, EndingBreaks
  <2>2. CASE e.ended \/ Top.line < Len(e.lines)
    <3> HIDE DEF e, l
    <3>1. Top.got < Start(e.lines, Top.line + 1)
      <4>1. ~(Top.got >= Start(e.lines, Top.line + 1))
        BY <1>6, <1>7, <2>2 DEF HasLineIn
      <4>2. QED
        BY <1>3, <1>7, <4>1
    <3>2. l.len >= MAX_FILE_LINE_LENGTH
      BY <1>1, <1>3, <1>5, <1>7, <3>1
    <3>3. Meaning(fs, l, DeeperAt(fs, Len(stack))) = <<Broken>>
      BY <1>3, <1>5, <1>7, <3>2 DEF Meaning
    <3>4. QED
      BY <1>1, <1>2, <1>7, <3>3, BrokenAlone, LineBreaks DEF l, e
  <2>3. QED
    BY <1>3, <1>7, <2>1, <2>2
<1>9. InFile(e, c)
  <2> HIDE DEF e
  <2>1. QED
    BY <1>1, <1>3, <1>4 DEF InFile
<1>10. Reads(fs, c)
  BY <1>1, <1>2, <1>4, <1>9 DEF Reads
<1>11. QED
  BY <1>1, <1>4, <1>8, <1>10, Quiet

\* The lines in the buffer are handled.
LEMMA MoveLinesStep ==
  ASSUME ConfigInv, MoveLines
  PROVE  ConfigInv'
<1> DEFINE e == fs.files[Top.file]
           c == [Top EXCEPT !.at = "read"]
<1>1. /\ configPc = "reading" /\ Top.at = "lines" /\ SetTop(c) /\ faulted \in BOOLEAN
      /\ ~HasLineIn(e, Top)
      /\ UNCHANGED <<fs, config_include_loop, config, configPc, faulted>>
  BY HasLineIs DEF MoveLines, Here, ConfigInv
<1>2. /\ Top \in Calls(fs) /\ Reads(fs, Top) /\ Top.todo = <<>> /\ Entry(Top.file) = e
  BY <1>1, TopIs
<1>3. /\ c \in Calls(fs) /\ c.file = Top.file /\ c.line = Top.line /\ c.todo = Top.todo
      /\ c.at = "read" /\ c.err = Top.err /\ c.got = Top.got /\ c.child = Top.child
  BY <1>2 DEF Calls
<1>4. e.type = "file" /\ Top.err = 0 /\ InFile(e, Top)
  BY <1>1, <1>2 DEF Reads
<1> HIDE DEF c, e
<1>5. ~HasLineIn(e, c)
  BY <1>1, <1>3 DEF HasLineIn
<1>6. InFile(e, c)
  BY <1>1, <1>3, <1>4, <1>5 DEF InFile
<1>7. Reads(fs, c)
  BY <1>2, <1>3, <1>4, <1>6 DEF Reads, e
<1>8. QED
  BY <1>1, <1>3, <1>4, <1>7, Quiet

\* The decompressing child ends.
LEMMA ChildExitsStep ==
  ASSUME ConfigInv, ChildExits
  PROVE  ConfigInv'
<1> DEFINE e == fs.files[Top.file]
           c == [Top EXCEPT !.child = "exited"]
<1>1. /\ configPc = "reading" /\ Top.child = "running" /\ SetTop(c) /\ faulted \in BOOLEAN
      /\ Top.at # "include" /\ (Top.err # 0 => faulted \/ BrokenText)
      /\ UNCHANGED <<fs, config_include_loop, config, configPc, faulted>>
  BY DEF ChildExits, ConfigInv
<1>2. /\ Top \in Calls(fs) /\ Reads(fs, Top) /\ Top.todo = <<>> /\ Entry(Top.file) = e
  BY <1>1, TopIs
<1>3. /\ c \in Calls(fs) /\ c.file = Top.file /\ c.line = Top.line /\ c.todo = Top.todo
      /\ c.at = Top.at /\ c.err = Top.err /\ c.got = Top.got /\ c.child = "exited"
  BY <1>2 DEF Calls
<1> HIDE DEF c, e
<1>4. HasLineIn(e, c) <=> HasLineIn(e, Top)
  BY <1>3 DEF HasLineIn
<1>5. e.type = "file" => InFile(e, c)
  <2>1. e.type = "file" => InFile(e, Top)
    BY <1>2 DEF Reads, e
  <2>2. QED
    BY <1>1, <1>3, <1>4, <2>1 DEF InFile
<1>6. Reads(fs, c)
  BY <1>2, <1>3, <1>5 DEF Reads, e
<1>7. QED
  BY <1>1, <1>3, <1>6, Quiet

\* A new call of read_file().
LEMMA CallReads ==
  ASSUME NEW system, WellFormed(system), NEW file \in DOMAIN system.files
  PROVE  /\ Call(file) \in Calls(system) /\ Reads(system, Call(file))
         /\ Call(file).at = "open" /\ Call(file).err = 0
<1> DEFINE e == system.files[file]
           c == Call(file)
<1>1. /\ c \in Calls(system) /\ c.file = file /\ c.got = 0 /\ c.line = 1 /\ c.at = "open"
      /\ c.todo = <<>> /\ c.err = 0
  BY DEF Call, Calls
<1> HIDE DEF c
<1>2. ASSUME e.type = "file"
      PROVE  InFile(e, c)
  <2>1. WellFormedEntry(e, DOMAIN system.files)
    BY DEF WellFormed
  <2> HIDE DEF e
  <2>2. /\ Size(e) \in Nat /\ Len(e.lines) \in Nat /\ Start(e.lines, 1) = 0
        /\ (~e.ended => Len(e.lines) > 0)
    BY <1>2, <2>1, SizeIs, StartsAre
  <2>3. MAX_FILE_LINE_LENGTH \in Nat
    BY ConfigAssumption
  <2>4. 1 \in 1..(Len(e.lines) + 1) /\ (~e.ended => 1 <= Len(e.lines)) /\ 0 \in 0..Size(e)
        /\ 0 <= 0 + MAX_FILE_LINE_LENGTH
    BY <2>2, <2>3
  <2>5. QED
    BY <1>1, <2>2, <2>4 DEF InFile
<1>3. Reads(system, c)
  BY <1>1, <1>2 DEF Reads
<1>4. QED
  BY <1>1, <1>3 DEF c

\* The result of read_file_close(): negative only for what is broken, and 0 only when
\* nothing of the file is left.
LEMMA ClosedIs ==
  ASSUME ConfigInv, configPc = "reading", Top.at = "close", Top.child # "running"
  PROVE  /\ Closed(Top) < 0 => faulted \/ BrokenText
         /\ Closed(Top) = 0 => LeftOf(fs, stack, Len(stack)) = <<>>
<1> DEFINE e == fs.files[Top.file]
<1>1. /\ Top \in Calls(fs) /\ Reads(fs, Top) /\ Top.todo = <<>> /\ Entry(Top.file) = e
      /\ WellFormed(fs) /\ WellFormedEntry(e, DOMAIN fs.files)
  BY TopIs
<1>2. Top.child \in {"none", "exited"}
  BY <1>1, CallsAre
<1>3. Top.err # 0 => faulted \/ BrokenText
  BY DEF ConfigInv
<1>4. ASSUME Top.err = 0
      PROVE  /\ e.type = "file" /\ InFile(e, Top) /\ e.ended /\ Top.line = Len(e.lines) + 1
             /\ e.status \in Int /\ (Top.child = "none" <=> e.status < 0)
  <2>1. e.type = "file" /\ InFile(e, Top)
    BY <1>1, <1>4 DEF Reads
  <2>2. e.status \in Int
    BY <1>1, <2>1 DEF WellFormedEntry
  <2> HIDE DEF e
  <2>3. QED
    BY <1>4, <2>1, <2>2 DEF InFile
<1> HIDE DEF e
<1>5. ASSUME Closed(Top) < 0
      PROVE  faulted \/ BrokenText
  <2>1. CASE Top.err # 0
    BY <1>3, <2>1
  <2>2. CASE Top.err = 0
    <3>1. Top.child = "exited" /\ ~fs.ignored /\ e.status # 0
      BY <1>1, <1>5, <2>2 DEF Closed
    <3>2. e.status > 0 /\ e.type = "file"
      BY <1>4, <2>2, <3>1
    <3>3. QED
      BY <1>1, <3>1, <3>2, EndingBreaks
  <2>3. QED
    BY <2>1, <2>2
<1>6. ASSUME Closed(Top) = 0
      PROVE  LeftOf(fs, stack, Len(stack)) = <<>>
  <2>1. Top.err = 0
    <3>1. Top.err \in {0, -1, -3, -4}
      BY <1>1, CallsAre
    <3>2. QED
      BY <1>6, <3>1 DEF Closed
  <2>2. ~(Top.child = "exited" /\ ~fs.ignored /\ e.status # 0)
    BY <1>1, <1>6, <2>1 DEF Closed
  <2>3. ~(e.status > 0 /\ ~fs.ignored)
    BY <1>2, <1>4, <2>1, <2>2
  <2>4. Remaining(fs, Top, DeeperAt(fs, Len(stack))) = <<>>
    <3>1. DeeperAt(fs, Len(stack)) \in Deepers(fs)
      BY LeftOfTop
    <3>2. e.type = "file" /\ e.ended /\ Top.line = Len(e.lines) + 1
      BY <1>4, <2>1
    <3> DEFINE deeper == DeeperAt(fs, Len(stack))
    <3> HIDE DEF deeper
    <3>3. Remaining(fs, Top, deeper) = <<>>
      BY <1>1, <2>3, <3>1, <3>2, NothingRemains DEF deeper, e
    <3>4. QED
      BY <3>3 DEF deeper
  <2>5. QED
    BY <2>4, LeftOfTop
<1>7. QED
  BY <1>5, <1>6

\* An included file was read, and the call that includes it goes on.
LEMMA IncludedWasRead ==
  ASSUME ConfigInv, configPc = "reading", LeftOf(fs, stack, Len(stack)) = <<>>, Len(stack) > 1,
         stack' = AfterFile(Front(stack)),
         config_include_loop' =
           config_include_loop - (IF Last(Front(stack)).todo = <<>> THEN 1 ELSE 0),
         UNCHANGED <<fs, config, configPc, faulted>>
  PROVE  ConfigInv'
<1> DEFINE below == Front(stack)
           n == Len(below)
           c == Last(below)
           e == fs.files[c.file]
<1>1. /\ WellFormed(fs) /\ StackShape(fs, stack) /\ Progress(fs, stack, config)
      /\ stack \in Seq(Calls(fs)) /\ Len(stack) \in Nat
  BY TopIs
<1>2. StackShape(fs, below) /\ n = Len(stack) - 1 /\ c.at = "include"
  BY <1>1, ShapePopped
<1>3. Progress(fs, below, config)
  BY <1>1, ProgressPopped
<1>4. /\ below \in Seq(Calls(fs)) /\ below # <<>> /\ n \in 1..(MaxInclude + 2) /\ n \in Nat
      /\ c = below[n] /\ c \in Calls(fs) /\ Reads(fs, c)
  <2> HIDE DEF below
  <2>1. QED
    BY <1>2, ShapeIs
<1>5. n <= MaxInclude + 1
  <2>1. Len(stack) \in 1..(MaxInclude + 2)
    BY TopIs
  <2> HIDE DEF n
  <2>2. QED
    BY <1>1, <1>2, <2>1, ConfigAssumption
<1>6. e.type = "file" /\ InFile(e, c) /\ c.err = 0
  BY <1>2, <1>4 DEF Reads
<1>7. /\ stack' = AfterFile(below) /\ fs' = fs /\ config' = config /\ configPc' = "reading"
      /\ faulted' = faulted /\ faulted \in BOOLEAN /\ fs \in FileSystems
      /\ config_include_loop = Len(stack) - 1
      /\ config_include_loop' = config_include_loop - (IF c.todo = <<>> THEN 1 ELSE 0)
  BY DEF ConfigInv
<1>8. BrokenText' <=> BrokenText
  BY <1>7 DEF BrokenText
<1>9. /\ c.file \in DOMAIN fs.files /\ c.todo \in Seq(DOMAIN fs.files)
  BY <1>4, CallsAre
<1>10. ASSUME NEW r, r = stack', StackShape(fs, r), Progress(fs, r, config), Last(r).at # "include",
              Last(r).err = 0, config_include_loop' = Len(r) - 1
       PROVE  ConfigInv'
  <2>1. Top' = Last(r)
    BY <1>10 DEF Top
  <2>2. StackShape(fs, stack)' /\ Progress(fs, stack, config)'
    BY <1>7, <1>10
  <2>3. QED
    BY <1>7, <1>8, <1>10, <2>1, <2>2 DEF ConfigInv
<1> HIDE DEF below, n, c, e
<1>11. CASE c.todo = <<>>
  <2> DEFINE d == [c EXCEPT !.at = "lines"]
             r == Append(Front(below), d)
  <2>1. stack' = r
    BY <1>7, <1>11 DEF AfterFile, c
  <2>2. /\ d \in Calls(fs) /\ d.file = c.file /\ d.line = c.line /\ d.todo = c.todo
        /\ d.at = "lines" /\ d.err = c.err /\ d.got = c.got /\ d.child = c.child
    BY <1>4 DEF Calls
  <2> HIDE DEF d
  <2>3. InFile(e, d)
    BY <1>2, <1>6, <2>2 DEF InFile
  <2>4. Reads(fs, d)
    BY <1>6, <1>11, <2>2, <2>3 DEF Reads, e
  <2>5. StackShape(fs, r) /\ Len(r) = n /\ Last(r) = d
    BY <1>2, <2>2, <2>4, ShapeReplaced DEF n
  <2>6. Progress(fs, r, config)
    <3> DEFINE y == LeftOf(fs, below, n)
    <3>1. PICK parsed, R : GoesOn(fs, below, config, parsed, R)
      BY <1>3 DEF Progress
    <3>2. n \in 1..n
      BY <1>4
    <3>3. y \in Seq(Items(fs))
      BY <3>1, <3>2 DEF GoesOn, Leaves, n
    <3>4. y = Remaining(fs, c, DeeperAt(fs, n))
      BY <1>4 DEF LeftOf
    <3>5. y = Remaining(fs, d, DeeperAt(fs, n))
      BY <2>2, <3>4, SameRemains
    <3> HIDE DEF y
    <3>6. LeftOf(fs, below, Len(below)) = y /\ y = Remaining(fs, d, DeeperAt(fs, Len(below)))
      BY <3>5 DEF y, n
    <3>7. QED
      BY <1>3, <1>4, <2>2, <3>3, <3>6, ProgressReplaced
  <2>7. config_include_loop' = Len(r) - 1
    BY <1>1, <1>2, <1>4, <1>7, <1>11, <2>5
  <2> HIDE DEF r
  <2>8. QED
    BY <1>6, <1>10, <2>1, <2>2, <2>5, <2>6, <2>7
<1>12. CASE c.todo # <<>>
  <2> DEFINE d == [c EXCEPT !.todo = Tail(@)]
             file == Head(c.todo)
             call == Call(file)
             r == Front(below) \o <<d, call>>
             y == Remaining(fs, d, DeeperAt(fs, n))
             z == Remaining(fs, call, DeeperAt(fs, n + 1))
  <2>1. stack' = r
    BY <1>7, <1>12 DEF AfterFile, c
  <2>2. /\ Tail(c.todo) \in Seq(DOMAIN fs.files)
    BY <1>9, <1>12, HeadTailProperties
  <2>3. /\ d.file = c.file /\ d.line = c.line
        /\ d.at = "include" /\ d.err = c.err /\ d.got = c.got /\ d.child = c.child
    BY <1>2, <1>4 DEF Calls
  <2>4. /\ d \in Calls(fs) /\ file \in DOMAIN fs.files
        /\ Remaining(fs, c, DeeperAt(fs, n)) = z \o y
        /\ z \in Seq(Items(fs)) /\ y \in Seq(Items(fs))
    <3>1. n \in 1..(MaxInclude + 1)
      BY <1>4, <1>5, ConfigAssumption
    <3>2. c.line \in 1..(Len(e.lines) + 1)
      BY <1>6 DEF InFile
    <3>3. QED
      BY <1>1, <1>4, <1>6, <1>12, <3>1, <3>2, NextFile DEF e
  <2>5. call \in Calls(fs) /\ Reads(fs, call) /\ call.at = "open" /\ call.err = 0
    <3> HIDE DEF file
    <3>1. QED
      BY <1>1, <2>4, CallReads
  <2> HIDE DEF d, call, y, z
  <2>6. InFile(e, d)
    BY <1>2, <1>6, <2>3 DEF InFile
  <2>7. Reads(fs, d)
    BY <1>6, <2>3, <2>6 DEF Reads, e
  <2>8. StackShape(fs, r) /\ Len(r) = n + 1 /\ Last(r) = call
    BY <1>2, <1>5, <2>3, <2>4, <2>5, <2>7, ShapePushed DEF n
  <2>9. Progress(fs, r, config)
    <3>1. LeftOf(fs, below, Len(below)) = z \o y
      BY <1>4, <2>4 DEF LeftOf, n
    <3>2. y = Remaining(fs, d, DeeperAt(fs, Len(below)))
      BY DEF y, n
    <3>3. z = Remaining(fs, call, DeeperAt(fs, Len(below) + 1))
      BY DEF z, n
    <3>4. QED
      BY <1>3, <1>4, <2>4, <2>5, <3>1, <3>2, <3>3, ProgressPushed
  <2>10. config_include_loop' = Len(r) - 1
    BY <1>1, <1>2, <1>4, <1>7, <1>12, <2>8
  <2> HIDE DEF r
  <2>11. QED
    BY <1>10, <2>1, <2>5, <2>8, <2>9, <2>10
<1>13. QED
  BY <1>11, <1>12

\* read_file_close(): the process exits, the main file was read, or an included one.
LEMMA ReadFileCloseStep ==
  ASSUME ConfigInv, Close
  PROVE  ConfigInv'
<1>1. /\ configPc = "reading" /\ Top.at = "close" /\ Top.child # "running"
      /\ UNCHANGED <<fs, config, faulted>> /\ faulted \in BOOLEAN
  BY DEF Close, Here, ConfigInv
<1>2. CASE /\ Closed(Top) < 0 /\ Exit /\ UNCHANGED <<stack, config_include_loop>>
  <2>1. faulted' \/ BrokenText
    BY <1>1, <1>2, ClosedIs
  <2>2. QED
    BY <1>1, <1>2, <2>1, Ends
<1>3. CASE /\ Closed(Top) = 0 /\ Len(stack) = 1 /\ configPc' = "read"
           /\ UNCHANGED <<stack, config_include_loop>>
  <2>1. ~BrokenText /\ config = MeantConfig(TextOf(fs))
    <3>1. LeftOf(fs, stack, 1) = <<>>
      BY <1>1, <1>3, ClosedIs
    <3>2. Progress(fs, stack, config) /\ stack \in Seq(Calls(fs))
      BY <1>1, TopIs
    <3>3. QED
      BY <1>3, <3>1, <3>2, AllRead DEF BrokenText
  <2>2. BrokenText' <=> BrokenText
    BY <1>1 DEF BrokenText
  <2>3. Top' = Top
    BY <1>3 DEF Top
  <2>4. StackShape(fs, stack)'
    BY <1>1, <1>3 DEF ConfigInv
  <2>5. QED
    BY <1>1, <1>3, <2>1, <2>2, <2>3, <2>4 DEF ConfigInv
<1>4. CASE /\ Closed(Top) = 0 /\ Len(stack) > 1 /\ stack' = AfterFile(Front(stack))
           /\ config_include_loop' =
                config_include_loop - (IF Last(Front(stack)).todo = <<>> THEN 1 ELSE 0)
           /\ UNCHANGED configPc
  BY <1>1, <1>4, ClosedIs, IncludedWasRead
<1>5. QED
  BY <1>2, <1>3, <1>4 DEF Close

----------------------------------------------------------------------------
(* The steps: lines.                                                       *)

\* The line that is handled is whole and short enough.
LEMMA LineIs ==
  ASSUME ConfigInv, NEW what, LineAt(what)
  PROVE  LET deeper == DeeperAt(fs, Len(stack))
         IN  /\ configPc = "reading" /\ Top.at = "lines" /\ Line.what = what
             /\ Entry(Top.file).type = "file" /\ Top.line \in 1..Len(Entry(Top.file).lines)
             /\ Line = Entry(Top.file).lines[Top.line]
             /\ WellFormedLine(Line, DOMAIN fs.files) /\ Line.arg \in Items(fs)
             /\ Line.len \in Nat /\ Line.len < MAX_FILE_LINE_LENGTH
             /\ Done \in Calls(fs) /\ Reads(fs, Done) /\ Done.at = "lines" /\ Done.err = 0
             /\ Done.todo = <<>> /\ Done.file = Top.file
             /\ LeftOf(fs, stack, Len(stack)) = Meaning(fs, Line, deeper) \o Remaining(fs, Done, deeper)
             /\ Remaining(fs, Done, deeper) \in Seq(Items(fs))
             /\ Meaning(fs, Line, deeper) \in Seq(Items(fs))
<1> DEFINE e == fs.files[Top.file]
           N == Len(e.lines)
           line == Top.line
           deeper == DeeperAt(fs, Len(stack))
<1>1. /\ configPc = "reading" /\ Top.at = "lines" /\ Line.what = what /\ HasLineIn(e, Top)
  BY HasLineIs DEF LineAt, Here, Line
<1>2. /\ Top \in Calls(fs) /\ Reads(fs, Top) /\ Top.todo = <<>> /\ Entry(Top.file) = e
      /\ WellFormed(fs) /\ WellFormedEntry(e, DOMAIN fs.files) /\ Top.file \in DOMAIN fs.files
  BY <1>1, TopIs
<1>3. e.type = "file" /\ Top.err = 0
  BY <1>1, <1>2 DEF Reads
<1>4. Line = e.lines[line]
  BY <1>2 DEF Line, Lines
<1>5. /\ InFile(e, Top) /\ Size(e) \in Nat /\ N \in Nat /\ e.ended \in BOOLEAN
      /\ line \in 1..(N + 1) /\ Top.got \in Nat /\ Top.got <= Size(e)
      /\ Start(e.lines, line) \in Nat
      /\ line <= N => /\ e.lines[line].len \in Nat
                     /\ Start(e.lines, line + 1) = Start(e.lines, line) + e.lines[line].len + 1
  BY <1>1, <1>2, <1>3, InTopFile
<1>6. line <= N /\ line \in 1..N /\ (line < N \/ e.ended) /\ Top.got >= Start(e.lines, line + 1)
  <2>1. line <= N /\ (line < N \/ e.ended) /\ Top.got >= Start(e.lines, line + 1)
    BY <1>1 DEF HasLineIn
  <2> HIDE DEF e, N, line
  <2>2. QED
    BY <1>5, <2>1
<1>7. WellFormedLine(Line, DOMAIN fs.files)
  BY <1>2, <1>3, <1>4, <1>6 DEF WellFormedEntry
<1>8. Line.arg \in Items(fs)
  <2>1. e.lines[line].arg \in Items(fs)
    BY <1>2, <1>6, ItemOfLine
  <2>2. QED
    BY <1>4, <2>1
<1>9. /\ Done \in Calls(fs) /\ Done.file = Top.file /\ Done.line = line + 1 /\ Done.todo = <<>>
      /\ Done.at = "lines" /\ Done.err = 0 /\ Done.got = Top.got /\ Done.child = Top.child
  BY <1>1, <1>2, <1>3 DEF Calls, Done
<1>10. MAX_FILE_LINE_LENGTH \in Nat
  BY ConfigAssumption
<1>11. Top.got <= Start(e.lines, line) + MAX_FILE_LINE_LENGTH
  BY <1>5 DEF InFile
<1>12. /\ Line.len \in Nat /\ Line.len < MAX_FILE_LINE_LENGTH
       /\ Start(e.lines, line + 1) \in Nat
       /\ line + 1 \in 1..(N + 1) /\ (~e.ended => line + 1 <= N)
       /\ Top.got \in Start(e.lines, line + 1)..Size(e)
       /\ Top.got <= Start(e.lines, line + 1) + MAX_FILE_LINE_LENGTH
  <2> DEFINE len == e.lines[line].len
  <2>1. len \in Nat /\ Start(e.lines, line + 1) = Start(e.lines, line) + len + 1
    BY <1>5, <1>6
  <2>2. Line.len = len
    BY <1>4
  <2> HIDE DEF e, N, line, len
  <2>3. QED
    BY <1>5, <1>6, <1>10, <1>11, <2>1, <2>2
<1>13. InFile(e, Done)
  <2> HIDE DEF e
  <2>1. QED
    BY <1>1, <1>5, <1>9, <1>12 DEF InFile
<1>14. Reads(fs, Done)
  BY <1>3, <1>9, <1>13 DEF Reads
<1>15. /\ LeftOf(fs, stack, Len(stack)) = Meaning(fs, Line, deeper) \o Remaining(fs, Done, deeper)
       /\ Remaining(fs, Done, deeper) \in Seq(Items(fs))
       /\ Meaning(fs, Line, deeper) \in Seq(Items(fs))
  <2>1. deeper \in Deepers(fs) /\ LeftOf(fs, stack, Len(stack)) = Remaining(fs, Top, deeper)
    BY <1>1, LeftOfTop
  <2> HIDE DEF deeper
  <2>2. LET d == [Top EXCEPT !.line = @ + 1]
        IN  /\ Remaining(fs, Top, deeper) = Meaning(fs, e.lines[line], deeper) \o Remaining(fs, d, deeper)
            /\ Remaining(fs, d, deeper) \in Seq(Items(fs))
            /\ Meaning(fs, e.lines[line], deeper) \in Seq(Items(fs))
    BY <1>2, <1>3, <1>6, <2>1, NextLine
  <2>3. Done = [Top EXCEPT !.line = @ + 1]
    BY DEF Done
  <2>4. QED
    BY <1>4, <2>1, <2>2, <2>3
<1>16. QED
  BY <1>1, <1>2, <1>3, <1>4, <1>6, <1>7, <1>8, <1>9, <1>12, <1>14, <1>15

\* A line is done; what it means is an item or nothing.
LEMMA LineDone ==
  ASSUME ConfigInv, NEW what, LineAt(what), SetTop(Done),
         UNCHANGED <<fs, config_include_loop, configPc, faulted>>,
         \/ Meaning(fs, Line, DeeperAt(fs, Len(stack))) = <<>> /\ UNCHANGED config
         \/ \E item \in Items(fs) :
              /\ item # Broken /\ Meaning(fs, Line, DeeperAt(fs, Len(stack))) = <<item>>
              /\ config' = Parsed(config, item)
  PROVE  ConfigInv'
<1> DEFINE deeper == DeeperAt(fs, Len(stack))
           n == Len(stack)
           y == Remaining(fs, Done, deeper)
           m == Meaning(fs, Line, deeper)
           r == Append(Front(stack), Done)
<1>1. /\ configPc = "reading" /\ Done \in Calls(fs) /\ Reads(fs, Done) /\ Done.at = "lines"
      /\ Done.err = 0 /\ LeftOf(fs, stack, n) = m \o y /\ y \in Seq(Items(fs))
  BY LineIs
<1>2. /\ WellFormed(fs) /\ StackShape(fs, stack) /\ Progress(fs, stack, config)
      /\ stack \in Seq(Calls(fs)) /\ stack # <<>>
  BY <1>1, TopIs
<1>3. StackShape(fs, r) /\ Len(r) = n /\ Last(r) = Done
  BY <1>1, <1>2, ShapeReplaced
<1>4. stack' = r
  BY DEF SetTop
<1> HIDE DEF r
<1>5. Progress(fs, r, config')
  <2>1. y = Remaining(fs, Done, DeeperAt(fs, Len(stack)))
    OBVIOUS
  <2>2. \/ m = <<>> /\ config' = config
        \/ \E item \in Items(fs) : item # Broken /\ m = <<item>> /\ config' = Parsed(config, item)
    OBVIOUS
  <2> DEFINE conf == config'
  <2> HIDE DEF y, m, conf, n, deeper
  <2>3. \/ LeftOf(fs, stack, n) = y /\ conf = config
        \/ \E item \in Items(fs) : /\ item # Broken /\ LeftOf(fs, stack, n) = <<item>> \o y
                                  /\ conf = Parsed(config, item)
    <3>1. <<>> \o y = y
      BY <1>1, ConcatEmptySeq
    <3>2. QED
      BY <1>1, <2>2, <3>1 DEF conf
  <2>4. Progress(fs, Append(Front(stack), Done), conf)
    BY <1>1, <1>2, <2>1, <2>3, ProgressReplaced DEF n
  <2>5. QED
    BY <2>4 DEF conf, r
<1>6. Top' = Done /\ fs' = fs /\ configPc' = "reading"
  BY <1>1, <1>3, <1>4 DEF Top
<1>7. StackShape(fs, stack)' /\ Progress(fs, stack, config)'
  BY <1>3, <1>4, <1>5, <1>6
<1>8. fs \in FileSystems /\ config_include_loop = n - 1 /\ faulted \in BOOLEAN
  BY DEF ConfigInv
<1>9. QED
  BY <1>1, <1>3, <1>4, <1>6, <1>7, <1>8 DEF ConfigInv

\* A line that cannot be read ends the process.
LEMMA LineEnds ==
  ASSUME ConfigInv, NEW what, LineAt(what), Exit,
         UNCHANGED <<fs, stack, config_include_loop, faulted>>,
         Meaning(fs, Line, DeeperAt(fs, Len(stack))) = <<Broken>>
  PROVE  ConfigInv'
<1>1. /\ configPc = "reading" /\ Entry(Top.file).type = "file"
      /\ Top.line \in 1..Len(Entry(Top.file).lines) /\ Line = Entry(Top.file).lines[Top.line]
  BY LineIs
<1>2. BrokenText
  BY <1>1, BrokenAlone, LineBreaks
<1>3. faulted \in BOOLEAN
  BY DEF ConfigInv
<1>4. QED
  BY <1>1, <1>2, <1>3, Ends

\* A line without an option.
LEMMA BlankLineStep ==
  ASSUME ConfigInv, BlankLine
  PROVE  ConfigInv'
<1>1. /\ LineAt("blank") /\ SetTop(Done)
      /\ UNCHANGED <<fs, config_include_loop, config, configPc, faulted>>
  BY DEF BlankLine
<1>2. Line.what = "blank" /\ Line.len \in Nat /\ Line.len < MAX_FILE_LINE_LENGTH
  BY <1>1, LineIs
<1>3. Meaning(fs, Line, DeeperAt(fs, Len(stack))) = <<>>
  BY <1>2, ConfigAssumption DEF Meaning
<1>4. QED
  BY <1>1, <1>3, LineDone

\* An option: its value counts, or the process exits.
LEMMA ItemLineStep ==
  ASSUME ConfigInv, ItemLine
  PROVE  ConfigInv'
<1>1. LineAt("item") /\ UNCHANGED <<fs, config_include_loop, faulted>>
  BY DEF ItemLine
<1>2. /\ Line.what = "item" /\ Line.len \in Nat /\ Line.len < MAX_FILE_LINE_LENGTH
      /\ Line.arg \in Items(fs)
  BY <1>1, LineIs
<1>3. Meaning(fs, Line, DeeperAt(fs, Len(stack)))
        = IF Line.arg.value = Unset THEN <<Broken>> ELSE <<Line.arg>>
  BY <1>2, ConfigAssumption DEF Meaning
<1>4. CASE /\ Line.arg.value # Unset /\ config' = Parsed(config, Line.arg) /\ SetTop(Done)
           /\ UNCHANGED configPc
  <2>1. Line.arg # Broken
    BY <1>4 DEF Broken
  <2>2. Meaning(fs, Line, DeeperAt(fs, Len(stack))) = <<Line.arg>>
    BY <1>3, <1>4
  <2> DEFINE item == Line.arg
  <2>3. /\ item \in Items(fs) /\ item # Broken
        /\ Meaning(fs, Line, DeeperAt(fs, Len(stack))) = <<item>>
        /\ config' = Parsed(config, item)
    BY <1>2, <1>4, <2>1, <2>2
  <2> HIDE DEF item
  <2>4. QED
    BY <1>1, <1>4, <2>3, LineDone
<1>5. CASE Line.arg.value = Unset /\ Exit /\ UNCHANGED <<config, stack>>
  BY <1>1, <1>3, <1>5, LineEnds
<1>6. QED
  BY <1>4, <1>5 DEF ItemLine

\* A line that is none.
LEMMA BadLineStep ==
  ASSUME ConfigInv, BadLine
  PROVE  ConfigInv'
<1>1. PICK what \in {"bad", "unknown"} : LineAt(what)
  BY DEF BadLine
<1>2. Exit /\ UNCHANGED <<fs, stack, config_include_loop, config, faulted>>
  BY DEF BadLine
<1>3. Line.what \in {"bad", "unknown"} /\ Line.len \in Nat /\ Line.len < MAX_FILE_LINE_LENGTH
  BY <1>1, LineIs
<1>4. Meaning(fs, Line, DeeperAt(fs, Len(stack))) = <<Broken>>
  BY <1>3, ConfigAssumption DEF Meaning
<1>5. QED
  BY <1>1, <1>2, <1>4, LineEnds

\* A line that includes something.
LEMMA IncludeIs ==
  ASSUME ConfigInv, LineAt("include")
  PROVE  LET deeper == DeeperAt(fs, Len(stack))
         IN  /\ Meaning(fs, Line, deeper) = Included(fs, Line, deeper)
             /\ Line.arg \in DOMAIN fs.files /\ Line.if_exist \in BOOLEAN
             /\ Entry(Line.arg) = fs.files[Line.arg]
             /\ WellFormedEntry(fs.files[Line.arg], DOMAIN fs.files)
             /\ deeper \in Deepers(fs)
             /\ deeper = <<>> <=> config_include_loop > MaxInclude
             /\ deeper # <<>> => Len(stack) \in 1..(MaxInclude + 1)
<1> DEFINE deeper == DeeperAt(fs, Len(stack))
           n == Len(stack)
<1>1. /\ configPc = "reading" /\ Line.what = "include" /\ Line.len \in Nat
      /\ Line.len < MAX_FILE_LINE_LENGTH /\ WellFormedLine(Line, DOMAIN fs.files)
  BY LineIs
<1>2. Meaning(fs, Line, deeper) = Included(fs, Line, deeper)
  BY <1>1, ConfigAssumption DEF Meaning
<1>3. Line.arg \in DOMAIN fs.files /\ Line.if_exist \in BOOLEAN
  BY <1>1 DEF WellFormedLine
<1>4. WellFormed(fs) /\ n \in 1..(MaxInclude + 2)
  BY <1>1, TopIs
<1>5. WellFormedEntry(fs.files[Line.arg], DOMAIN fs.files)
  BY <1>3, <1>4 DEF WellFormed
<1>6. deeper \in Deepers(fs) /\ (deeper = <<>> <=> n = MaxInclude + 2)
  BY <1>1, LeftOfTop
<1>7. config_include_loop = n - 1
  BY DEF ConfigInv
<1>8. MaxInclude \in Nat
  BY ConfigAssumption
<1> HIDE DEF n, deeper
<1>9. /\ config_include_loop > MaxInclude <=> n = MaxInclude + 2
      /\ n # MaxInclude + 2 => n \in 1..(MaxInclude + 1)
  BY <1>4, <1>7, <1>8
<1>10. Entry(Line.arg) = fs.files[Line.arg]
  BY DEF Entry
<1>11. QED
  BY <1>2, <1>3, <1>5, <1>6, <1>9, <1>10 DEF n, deeper

\* An include too deep, or of nothing that can be included.
LEMMA IncludeDiesStep ==
  ASSUME ConfigInv, IncludeDies
  PROVE  ConfigInv'
<1> DEFINE deeper == DeeperAt(fs, Len(stack))
<1>1. /\ LineAt("include") /\ Exit
      /\ UNCHANGED <<fs, stack, config_include_loop, config, faulted>>
      /\ \/ config_include_loop > MaxInclude
         \/ Entry(Line.arg).type = "absent" /\ ~Line.if_exist
         \/ Entry(Line.arg).type = "other"
  BY DEF IncludeDies
<1>2. /\ Meaning(fs, Line, deeper) = Included(fs, Line, deeper)
      /\ Entry(Line.arg) = fs.files[Line.arg]
      /\ deeper = <<>> <=> config_include_loop > MaxInclude
  BY <1>1, IncludeIs
<1> HIDE DEF deeper
<1>3. Included(fs, Line, deeper) = <<Broken>>
  <2>1. CASE deeper = <<>> \/ fs.files[Line.arg].type = "other"
    BY <2>1 DEF Included
  <2>2. CASE ~(deeper = <<>> \/ fs.files[Line.arg].type = "other")
    <3>1. fs.files[Line.arg].type = "absent" /\ ~Line.if_exist
      BY <1>1, <1>2, <2>2
    <3>2. QED
      BY <2>2, <3>1 DEF Included
  <2>3. QED
    BY <2>1, <2>2
<1>4. QED
  BY <1>1, <1>2, <1>3, LineEnds DEF deeper

\* An include of no file, which is allowed.
LEMMA IncludeNothingStep ==
  ASSUME ConfigInv, IncludeNothing
  PROVE  ConfigInv'
<1> DEFINE deeper == DeeperAt(fs, Len(stack))
           e == fs.files[Line.arg]
           files == Listed(e, Line.arg)
<1>1. /\ LineAt("include") /\ config_include_loop <= MaxInclude /\ SetTop(Done)
      /\ \/ Entry(Line.arg).type = "absent" /\ Line.if_exist
         \/ Entry(Line.arg).type = "dir" /\ Entry(Line.arg).names \cap PlainNames = {}
      /\ UNCHANGED <<fs, config_include_loop, config, configPc, faulted>>
  BY DEF IncludeNothing
<1>2. /\ Meaning(fs, Line, deeper) = Included(fs, Line, deeper)
      /\ Entry(Line.arg) = e
      /\ deeper = <<>> <=> config_include_loop > MaxInclude
  BY <1>1, IncludeIs
<1>3. deeper # <<>>
  <2>1. config_include_loop \in Int /\ MaxInclude \in Nat
    <3>1. configPc = "reading"
      BY <1>1, LineIs
    <3>2. Len(stack) \in Nat /\ config_include_loop = Len(stack) - 1
      BY <3>1, TopIs DEF ConfigInv
    <3>3. QED
      BY <3>2, ConfigAssumption
  <2>2. ~(config_include_loop > MaxInclude)
    BY <1>1, <2>1
  <2> HIDE DEF deeper
  <2>3. QED
    BY <1>2, <2>2
<1> HIDE DEF deeper
<1>4. Included(fs, Line, deeper) = <<>>
  <2>1. CASE e.type = "absent" /\ Line.if_exist
    BY <1>3, <2>1 DEF Included
  <2>2. CASE e.type = "dir" /\ e.names \cap PlainNames = {}
    <3>1. files = <<>>
      <4>1. IsFiniteSet({}) /\ {} \in SUBSET Nat
        BY FS_EmptySet
      <4>2. Sorted({}) = <<>>
        BY <4>1, NamesInOrder
      <4>3. QED
        BY <2>2, <4>2 DEF Listed
    <3>2. Included(fs, Line, deeper) = All([n \in 1..Len(files) |-> deeper[files[n]]])
      BY <1>3, <2>2 DEF Included
    <3>3. Len(<<>>) = 0 /\ 1..0 = {} /\ <<>> \in Seq(Seq(Items(fs)))
      OBVIOUS
    <3> DEFINE s == [n \in 1..Len(files) |-> deeper[files[n]]]
    <3>4. s = <<>>
      <4> HIDE DEF files
      <4>1. QED
        BY <3>1, <3>3
    <3>5. All(<<>>) = <<>>
      BY <3>3, AllOfTail
    <3> HIDE DEF files, s
    <3>6. All(s) = <<>>
      BY <3>4, <3>5
    <3>7. QED
      BY <3>2, <3>6 DEF s
  <2>3. QED
    BY <1>1, <1>2, <2>1, <2>2
<1>5. QED
  BY <1>1, <1>2, <1>4, LineDone DEF deeper

\* Files that are to be included come before what is left of a call.
LEMMA FilesBefore ==
  ASSUME NEW system, WellFormed(system), NEW c \in Calls(system), NEW v,
         NEW deeper \in Deepers(system), c.todo = <<>>, v.file = c.file, v.line = c.line,
         system.files[c.file].type = "file",
         c.line \in 1..(Len(system.files[c.file].lines) + 1)
  PROVE  Remaining(system, v, deeper)
           = All([n \in 1..Len(v.todo) |-> deeper[v.todo[n]]]) \o Remaining(system, c, deeper)
<1> DEFINE e == system.files[c.file]
           V == Items(system)
           left == Joined(LineMeanings(system, e, deeper))[Len(e.lines) + 1 - c.line]
           rest == left \o Ending(system, e)
           none == All([n \in 1..Len(c.todo) |-> deeper[c.todo[n]]])
<1>1. left \in Seq(V) /\ Ending(system, e) \in Seq(V)
  BY RemainingIs
<1>2. none = <<>>
  <2>1. Len(<<>>) = 0 /\ 1..0 = {} /\ <<>> \in Seq(Seq(V))
    OBVIOUS
  <2>2. [n \in 1..Len(<<>>) |-> deeper[<<>>[n]]] = <<>>
    BY <2>1
  <2>3. All([n \in 1..Len(<<>>) |-> deeper[<<>>[n]]]) = <<>>
    BY <2>1, <2>2, AllOfTail
  <2>4. QED
    BY <2>3
<1>3. /\ Remaining(system, c, deeper) = none \o rest
      /\ Remaining(system, v, deeper) = All([n \in 1..Len(v.todo) |-> deeper[v.todo[n]]]) \o rest
  BY DEF Remaining
<1>4. rest \in Seq(V) /\ none \o rest = rest
  <2> HIDE DEF left, none, V
  <2>1. rest \in Seq(V)
    BY <1>1, ConcatProperties
  <2> HIDE DEF rest
  <2>2. <<>> \o rest = rest
    BY <2>1, ConcatEmptySeq
  <2>3. QED
    BY <1>2, <2>1, <2>2
<1> HIDE DEF rest, none
<1>5. QED
  BY <1>3, <1>4

\* An include: the first of its files is read now, the others are left.
LEMMA IncludeFilesStep ==
  ASSUME ConfigInv, IncludeFiles
  PROVE  ConfigInv'
<1> DEFINE n == Len(stack)
           deeper == DeeperAt(fs, n)
           e == fs.files[Line.arg]
           files == Listed(e, Line.arg)
           file == Head(files)
           c == [Done EXCEPT !.at = "include", !.todo = Tail(files)]
           v == [Done EXCEPT !.at = "include", !.todo = files]
           call == Call(file)
           r == Front(stack) \o <<c, call>>
           y == Remaining(fs, c, deeper)
           z == Remaining(fs, call, DeeperAt(fs, n + 1))
<1>1. /\ LineAt("include") /\ config_include_loop <= MaxInclude
      /\ e.type \in {"file", "dir"} /\ files # <<>> /\ stack' = r
      /\ config_include_loop' = config_include_loop + 1
      /\ UNCHANGED <<fs, config, configPc, faulted>>
  BY DEF IncludeFiles, Entry
<1>2. /\ configPc = "reading" /\ Entry(Top.file).type = "file"
      /\ Done \in Calls(fs) /\ Reads(fs, Done) /\ Done.at = "lines" /\ Done.err = 0
      /\ Done.todo = <<>> /\ Done.file = Top.file
      /\ LeftOf(fs, stack, n) = Meaning(fs, Line, deeper) \o Remaining(fs, Done, deeper)
  BY <1>1, LineIs
<1>3. /\ Meaning(fs, Line, deeper) = Included(fs, Line, deeper) /\ Line.arg \in DOMAIN fs.files
      /\ deeper \in Deepers(fs)
  BY <1>1, IncludeIs
<1>4. /\ WellFormed(fs) /\ StackShape(fs, stack) /\ Progress(fs, stack, config)
      /\ stack \in Seq(Calls(fs)) /\ stack # <<>> /\ n \in Nat /\ n \in 1..(MaxInclude + 2)
      /\ Entry(Top.file) = fs.files[Top.file]
  BY <1>2, TopIs
<1>5. config_include_loop = n - 1 /\ fs \in FileSystems /\ faulted \in BOOLEAN
  BY DEF ConfigInv
<1>6. n \in 1..(MaxInclude + 1) /\ deeper # <<>>
  <2>1. MaxInclude \in Nat
    BY ConfigAssumption
  <2>2. ~(config_include_loop > MaxInclude) /\ n \in 1..(MaxInclude + 1)
    <3> HIDE DEF n
    <3>1. QED
      BY <1>1, <1>4, <1>5, <2>1
  <2>3. deeper = <<>> <=> config_include_loop > MaxInclude
    BY <1>1, IncludeIs
  <2> HIDE DEF deeper, n
  <2>4. QED
    BY <2>2, <2>3
<1>7. files \in Seq(DOMAIN fs.files) /\ Tail(files) \in Seq(DOMAIN fs.files)
  <2>1. files \in Seq(DOMAIN fs.files)
    BY <1>1, <1>3, <1>4, ListedAre
  <2> HIDE DEF files
  <2>2. QED
    BY <1>1, <2>1, HeadTailProperties
<1>8. Included(fs, Line, deeper) = All([k \in 1..Len(files) |-> deeper[files[k]]])
  <2> HIDE DEF deeper
  <2>1. QED
    BY <1>1, <1>6 DEF Included
<1> HIDE DEF files, e, deeper, n
<1>9. /\ v \in Calls(fs) /\ v.file = Top.file /\ v.line = Done.line /\ v.todo = files
      /\ c \in Calls(fs) /\ c.file = Top.file /\ c.line = Done.line /\ c.todo = Tail(files)
      /\ c.at = "include" /\ c.err = 0 /\ c.got = Done.got /\ c.child = Done.child
      /\ [v EXCEPT !.todo = Tail(@)] = c
  BY <1>2, <1>7 DEF Calls
<1> DEFINE f == fs.files[Top.file]
<1>10. f.type = "file" /\ InFile(f, Done) /\ Done.line \in 1..(Len(f.lines) + 1)
  <2>1. f.type = "file" /\ InFile(f, Done)
    BY <1>2, <1>4 DEF Reads
  <2>2. QED
    BY <2>1 DEF InFile
<1>11. LeftOf(fs, stack, n) = Remaining(fs, v, deeper)
  <2>1. Remaining(fs, v, deeper)
          = All([k \in 1..Len(v.todo) |-> deeper[v.todo[k]]]) \o Remaining(fs, Done, deeper)
    <3> HIDE DEF v
    <3>1. /\ v.file = Done.file /\ fs.files[Done.file].type = "file"
          /\ Done.line \in 1..(Len(fs.files[Done.file].lines) + 1)
      BY <1>2, <1>9, <1>10
    <3> HIDE DEF f
    <3>2. v.line = Done.line
      BY <1>9
    <3>3. QED
      BY <1>2, <1>3, <1>4, <3>1, <3>2, FilesBefore
  <2>2. QED
    BY <1>2, <1>3, <1>8, <1>9, <2>1
<1>12. /\ file \in DOMAIN fs.files /\ Remaining(fs, v, deeper) = z \o y
       /\ z \in Seq(Items(fs)) /\ y \in Seq(Items(fs))
  <2> HIDE DEF v
  <2>1. LET d == [v EXCEPT !.todo = Tail(@)]
            below == DeeperAt(fs, n)
        IN  /\ d \in Calls(fs) /\ Head(v.todo) \in DOMAIN fs.files
            /\ Remaining(fs, v, below)
                 = Remaining(fs, Call(Head(v.todo)), DeeperAt(fs, n + 1)) \o Remaining(fs, d, below)
            /\ Remaining(fs, Call(Head(v.todo)), DeeperAt(fs, n + 1)) \in Seq(Items(fs))
            /\ Remaining(fs, d, below) \in Seq(Items(fs))
    BY <1>1, <1>4, <1>6, <1>9, <1>10, NextFile
  <2>2. QED
    BY <1>9, <2>1 DEF deeper
<1>13. call \in Calls(fs) /\ Reads(fs, call) /\ call.at = "open" /\ call.err = 0
  <2> HIDE DEF file
  <2>1. QED
    BY <1>4, <1>12, CallReads
<1> HIDE DEF c, v, call, y, z, f
<1>14. InFile(f, c)
  BY <1>2, <1>9, <1>10 DEF InFile
<1>15. Reads(fs, c)
  BY <1>9, <1>10, <1>14 DEF Reads, f
<1>16. StackShape(fs, r) /\ Len(r) = n + 1 /\ Last(r) = call
  <2>1. Len(stack) <= MaxInclude + 1
    BY <1>6, ConfigAssumption DEF n
  <2>2. QED
    BY <1>4, <1>9, <1>13, <1>15, <2>1, ShapePushed DEF n
<1>17. Progress(fs, r, config)
  <2>1. /\ LeftOf(fs, stack, Len(stack)) = z \o y
        /\ y = Remaining(fs, c, DeeperAt(fs, Len(stack)))
        /\ z = Remaining(fs, call, DeeperAt(fs, Len(stack) + 1))
    BY <1>11, <1>12 DEF y, z, n, deeper
  <2>2. QED
    BY <1>4, <1>9, <1>12, <1>13, <2>1, ProgressPushed
<1> HIDE DEF r
<1>18. /\ fs' = fs /\ config' = config /\ configPc' = "reading" /\ faulted' = faulted /\ Top' = call
       /\ config_include_loop' = Len(r) - 1
  <2>1. Top' = call
    BY <1>1, <1>16 DEF Top
  <2>2. config_include_loop' = Len(r) - 1
    BY <1>1, <1>4, <1>5, <1>16
  <2>3. QED
    BY <1>1, <1>2, <2>1, <2>2
<1>19. BrokenText' <=> BrokenText
  BY <1>18 DEF BrokenText
<1>20. StackShape(fs, stack)' /\ Progress(fs, stack, config)'
  BY <1>1, <1>16, <1>17, <1>18
<1>21. QED
  BY <1>1, <1>5, <1>13, <1>18, <1>19, <1>20 DEF ConfigInv

\* honas_gather_config_finalize() looks at the options only.
LEMMA FinalizeStep ==
  ASSUME ConfigInv, honas_gather_config_finalize
  PROVE  ConfigInv'
<1>1. /\ configPc = "read" /\ configPc' = IF \E f \in Required : config[f] = Unset THEN "exited" ELSE "ready"
      /\ UNCHANGED <<fs, stack, config_include_loop, config, faulted>>
  BY DEF honas_gather_config_finalize
<1>2. BrokenText' <=> BrokenText
  BY <1>1 DEF BrokenText
<1>3. Top' = Top /\ StackShape(fs, stack)'
  BY <1>1 DEF Top, ConfigInv
<1>4. TextOf(fs)' = TextOf(fs)
  BY <1>1
<1>5. ~BrokenText /\ config = MeantConfig(TextOf(fs))
  BY <1>1 DEF ConfigInv
<1>6. QED
  BY <1>1, <1>2, <1>3, <1>4, <1>5 DEF ConfigInv

\* The process starts with the call of read_file() for the main file.
LEMMA ConfigStarts ==
  ASSUME ConfigInit
  PROVE  ConfigInv
<1> DEFINE call == Call(Main)
           V == Items(fs)
           W == Seq(V)
           deeper == DeeperAt(fs, 1)
           R == [k \in 0..1 |-> IF k = 0 THEN <<>> ELSE TextOf(fs)]
<1>1. /\ fs \in FileSystems /\ stack = <<call>> /\ config_include_loop = 0 /\ config = NoConfig
      /\ configPc = "reading" /\ faulted = FALSE
  BY DEF ConfigInit
<1>2. WellFormed(fs) /\ Main \in DOMAIN fs.files
  BY <1>1, FilesAssumption DEF WellFormed
<1>3. call \in Calls(fs) /\ Reads(fs, call) /\ call.at = "open" /\ call.err = 0
  BY <1>2, CallReads
<1>4. 1 \in 1..(MaxInclude + 2)
  BY ConfigAssumption
<1>5. deeper \in Deepers(fs)
  BY <1>2, <1>4, DeeperAtIs
<1>6. Remaining(fs, call, deeper) = TextOf(fs) /\ TextOf(fs) \in W
  <2>1. Remaining(fs, call, deeper) = FileMeaning(fs, Main, deeper) /\ FileMeaning(fs, Main, deeper) \in W
    <3> HIDE DEF deeper
    <3>1. QED
      BY <1>2, <1>5, CallMeans, FileMeans
  <2>2. TextOf(fs) = FileMeaning(fs, Main, deeper)
    BY <1>2, TextIs
  <2>3. QED
    BY <2>1, <2>2
<1> HIDE DEF call, V
<1>7. Len(stack) = 1 /\ stack[1] = call /\ Last(stack) = call /\ stack \in Seq(Calls(fs))
  <2>1. Len(<<call>>) = 1 /\ <<call>>[1] = call /\ <<call>> \in Seq(Calls(fs))
    BY <1>3
  <2>2. QED
    BY <1>1, <2>1 DEF Last
<1>8. StackShape(fs, stack)
  <2>1. \A k \in 1..1 : k = 1
    OBVIOUS
  <2>2. \A k \in 1..(1 - 1) : FALSE
    OBVIOUS
  <2>3. QED
    BY <1>3, <1>4, <1>7, <2>1, <2>2 DEF StackShape
<1>9. LeftOf(fs, stack, 1) = TextOf(fs)
  BY <1>6, <1>7 DEF LeftOf
<1>10. TextOf(fs) \o <<>> = TextOf(fs) /\ <<>> \o TextOf(fs) = TextOf(fs) /\ <<>> \in W
  BY <1>6, ConcatEmptySeq
<1>11. Leaves(fs, stack, R)
  <2>1. R[0] = <<>> /\ R[1] = TextOf(fs)
    OBVIOUS
  <2> DEFINE text == TextOf(fs)
  <2> HIDE DEF W, text
  <2>2. R \in [0..1 -> W]
    BY <1>6, <1>10 DEF text
  <2> HIDE DEF R
  <2>3. \A k \in 1..1 : LeftOf(fs, stack, k) \in W /\ R[k] = LeftOf(fs, stack, k) \o R[k - 1]
    <3>1. \A k \in 1..1 : k = 1 /\ k - 1 = 0
      OBVIOUS
    <3>2. QED
      BY <1>6, <1>9, <1>10, <2>1, <3>1
  <2>4. QED
    BY <1>7, <2>1, <2>2, <2>3 DEF Leaves, W, V
<1>12. config = MeantConfig(<<>>)
  <2>1. \A f : LastValue(<<>>, f) = Unset
    BY DEF LastValue
  <2>2. QED
    BY <1>1, <2>1 DEF MeantConfig, NoConfig
<1>13. Broken \notin Range(<<>>)
  BY DEF Range
<1>14. GoesOn(fs, stack, config, <<>>, R)
  <2>1. TextOf(fs) = <<>> \o R[Len(stack)]
    BY <1>7, <1>10
  <2>2. QED
    BY <1>10, <1>11, <1>12, <1>13, <2>1 DEF GoesOn, W, V
<1>15. Progress(fs, stack, config)
  BY <1>14 DEF Progress
<1>16. Top = call
  BY <1>7 DEF Top
<1>17. Top.at # "include" /\ Top.err = 0 /\ config_include_loop = Len(stack) - 1
  BY <1>1, <1>3, <1>7, <1>16
<1>18. QED
  BY <1>1, <1>8, <1>15, <1>17 DEF ConfigInv

\* Every step keeps the invariant.
LEMMA ConfigSteps ==
  ASSUME ConfigInv, [ConfigNext]_configVars
  PROVE  ConfigInv'
<1>1. CASE UNCHANGED configVars
  <2>1. /\ fs' = fs /\ stack' = stack /\ config_include_loop' = config_include_loop
        /\ config' = config /\ configPc' = configPc /\ faulted' = faulted
    BY <1>1 DEF configVars
  <2>2. (BrokenText' <=> BrokenText) /\ Top' = Top /\ TextOf(fs)' = TextOf(fs)
    BY <2>1 DEF BrokenText, Top
  <2>3. StackShape(fs, stack)' = StackShape(fs, stack)
        /\ Progress(fs, stack, config)' = Progress(fs, stack, config)
    BY <2>1
  <2>4. QED
    BY <2>1, <2>2, <2>3 DEF ConfigInv
<1>2. CASE ReaderNext
  BY <1>2, OpenFileStep, OpenFailsStep, ReadStep, ReadEndStep, ReadFailsStep, LineTooLongStep,
     MoveLinesStep, ReadFileCloseStep, BlankLineStep, ItemLineStep, BadLineStep, IncludeDiesStep,
     IncludeNothingStep, IncludeFilesStep, FinalizeStep
     DEF ReaderNext
<1>3. CASE ChildExits
  BY <1>3, ChildExitsStep
<1>4. QED
  BY <1>1, <1>2, <1>3 DEF ConfigNext

\* The configuration so far is what the items read so far mean, and what the calls of
\* read_file() still have to read is the rest of the text.
THEOREM ConfigInvariant == ConfigSpec => []ConfigInv
<1>1. ConfigInit => ConfigInv
  BY ConfigStarts
<1>2. ConfigInv /\ [ConfigNext]_configVars => ConfigInv'
  BY ConfigSteps
<1>3. QED
  BY <1>1, <1>2, PTL DEF ConfigSpec

\* However the files come in pieces and include each other: the configuration is taken
\* as read exactly when all of the text can be read, with the last value of each option,
\* and otherwise the process ends.
THEOREM WholeOrExitHolds == ConfigSpec => []WholeOrExit
<1>1. ConfigInv => WholeOrExit
  <2>1. Meant = TextOf(fs)
    BY DEF Meant, TextOf
  <2>2. [f \in Fields |-> LastValue(Meant, f)] = MeantConfig(TextOf(fs))
    BY <2>1 DEF MeantConfig
  <2>3. BrokenText <=> Broken \in Range(Meant)
    BY <2>1 DEF BrokenText
  <2> DEFINE conf == MeantConfig(TextOf(fs))
             broken == Broken \in Range(Meant)
  <2> HIDE DEF conf, broken
  <2>4. ConfigInv => /\ configPc = "ready" => ~broken /\ config = conf
                     /\ configPc = "exited" =>
                          faulted \/ broken \/ \E f \in Required : conf[f] = Unset
    BY <2>3 DEF ConfigInv, conf, broken
  <2>5. WholeOrExit <=>
          (configPc \in {"ready", "exited"} =>
             IF configPc = "ready" THEN ~broken /\ config = conf
             ELSE faulted \/ broken \/ \E f \in Required : conf[f] = Unset)
    BY <2>2 DEF WholeOrExit, conf, broken
  <2>6. QED
    BY <2>4, <2>5
<1>2. QED
  BY <1>1, ConfigInvariant, PTL

----------------------------------------------------------------------------
(***************************************************************************)
(* Dnstap streams.                                                         *)
(***************************************************************************)

USE DnstapAssumption DEF Field

\* A connection as conn_init() leaves it is well typed.
LEMMA FreshConnection ==
  /\ conn_init \in Connection
  /\ \A s \in Seq(Frame) : [conn_init EXCEPT !.input = s] \in Connection
<1>1. \A s \in Seq(Frame) :
        [state |-> "CONTROL_READY", bytes_skip |-> 0, len_buf |-> 0, taken |-> 0,
         input |-> s, out |-> <<>>] \in Connection
  BY DEF Connection, ConnStates
<1>2. <<>> \in Seq(Frame)
  OBVIOUS
<1>3. conn_init \in Connection
  BY <1>1, <1>2 DEF conn_init
<1>4. ASSUME NEW s \in Seq(Frame)
      PROVE  [conn_init EXCEPT !.input = s] =
               [state |-> "CONTROL_READY", bytes_skip |-> 0, len_buf |-> 0,
                taken |-> 0, input |-> s, out |-> <<>>]
  BY DEF conn_init
<1>5. QED
  BY <1>1, <1>3, <1>4

\* What the head of a stream is.
LEMMA HeadFrame ==
  ASSUME NEW k \in Connection, k.input # <<>>
  PROVE  /\ Head(k.input) \in Frame
         /\ Head(k.input).size \in Nat
         /\ Head(k.input).size > Field
         /\ IsControl(Head(k.input)) => Head(k.input).size <= High
         /\ Tail(k.input) \in Seq(Frame)
<1>1. k.input \in Seq(Frame)
  BY DEF Connection
<1>2. Head(k.input) \in Frame /\ Tail(k.input) \in Seq(Frame)
  BY <1>1
<1>3. QED
  BY <1>2 DEF Frame

\* evbuffer_drain() of no more than the buffer holds.
LEMMA DrainedTyped ==
  ASSUME NEW k \in Connection, k.input # <<>>, NEW n \in Nat, n <= k.len_buf
  PROVE  /\ Drained(k, n) \in Connection
         /\ Drained(k, n).len_buf = k.len_buf - n
         /\ Drained(k, n).bytes_skip = k.bytes_skip
         /\ Drained(k, n).state = k.state
         /\ Drained(k, n).out = k.out
         /\ k.taken + n < Head(k.input).size =>
              Drained(k, n).taken = k.taken + n /\ Drained(k, n).input = k.input
         /\ ~(k.taken + n < Head(k.input).size) =>
              Drained(k, n).taken = 0 /\ Drained(k, n).input = Tail(k.input)
<1>1. Tail(k.input) \in Seq(Frame)
  BY HeadFrame
<1>2. k.len_buf - n \in Nat /\ k.taken + n \in Nat
  BY DEF Connection
<1>3. CASE k.taken + n < Head(k.input).size
  <2> DEFINE h == [k EXCEPT !.len_buf = @ - n, !.taken = @ + n]
  <2>1. Drained(k, n) = h
    BY <1>3 DEF Drained
  <2>2. h \in Connection
    BY <1>2 DEF Connection
  <2>3. h.len_buf = k.len_buf - n /\ h.taken = k.taken + n
    BY DEF Connection
  <2>4. h.bytes_skip = k.bytes_skip /\ h.state = k.state /\ h.out = k.out /\ h.input = k.input
    BY DEF Connection
  <2> HIDE DEF h
  <2>5. QED
    BY <1>3, <2>1, <2>2, <2>3, <2>4
<1>4. CASE ~(k.taken + n < Head(k.input).size)
  <2> DEFINE h == [k EXCEPT !.len_buf = @ - n, !.taken = 0, !.input = Tail(@)]
  <2>1. Drained(k, n) = h
    BY <1>4 DEF Drained
  <2>2. h \in Connection
    BY <1>1, <1>2 DEF Connection
  <2>3. h.len_buf = k.len_buf - n /\ h.taken = 0 /\ h.input = Tail(k.input)
    BY DEF Connection
  <2>4. h.bytes_skip = k.bytes_skip /\ h.state = k.state /\ h.out = k.out
    BY DEF Connection
  <2> HIDE DEF h
  <2>5. QED
    BY <1>4, <2>1, <2>2, <2>3, <2>4
<1>5. QED
  BY <1>3, <1>4

\* A control frame that is handled changes the state and the output only.
LEMMA ProcessTyped ==
  ASSUME NEW k \in Connection, NEW f \in Frame
  PROVE  /\ Process(k, f) \in Connection
         /\ Process(k, f).len_buf = k.len_buf
         /\ Process(k, f).bytes_skip = k.bytes_skip
         /\ Process(k, f).taken = k.taken
         /\ Process(k, f).input = k.input
<1>1. /\ Append(k.out, "ACCEPT") \in Seq({"ACCEPT", "FINISH"})
      /\ Append(k.out, "FINISH") \in Seq({"ACCEPT", "FINISH"})
  BY DEF Connection
<1>2. CASE f.kind = "ready"
  <2>1. Process(k, f) = [k EXCEPT !.state = "CONTROL_START", !.out = Append(@, "ACCEPT")]
    BY <1>2 DEF Process
  <2>2. QED
    BY <1>1, <2>1 DEF Connection, ConnStates
<1>3. CASE f.kind = "start"
  <2>1. Process(k, f) = [k EXCEPT !.state = "DATA"]
    BY <1>3 DEF Process
  <2>2. QED
    BY <2>1 DEF Connection, ConnStates
<1>4. CASE f.kind # "ready" /\ f.kind # "start"
  <2>1. Process(k, f) = [k EXCEPT !.state = "STOPPED", !.out = Append(@, "FINISH")]
    BY <1>4 DEF Process
  <2>2. QED
    BY <1>1, <2>1 DEF Connection, ConnStates
<1>5. QED
  BY <1>2, <1>3, <1>4

----------------------------------------------------------------------------
\* The part of the inductive invariant about one connection: when its callback
\* runs (`busy`) or does not.
Good(k, busy) ==
  /\ k \in Connection
  /\ \/ k.bytes_skip = 0 /\ k.taken = 0
     \/ /\ k.input # <<>>
        /\ Head(k.input).size > High
        /\ k.bytes_skip > 0
        /\ k.taken + k.bytes_skip = Head(k.input).size
  /\ k.len_buf <= High
  /\ ~busy => k.len_buf < High
  /\ k.bytes_skip = 0 /\ k.input # <<>> /\ Head(k.input).size > High =>
       k.len_buf < (IF busy THEN High ELSE Field)

\* InStep and Headroom say that of every open connection.
LEMMA InvIsGood ==
  ASSUME DnstapTypeOK
  PROVE  InStep /\ Headroom <=> \A c \in Open : Good(conn[c], cb = c)
<1>1. \A c \in Open : conn[c] \in Connection
  BY DEF DnstapTypeOK, Open
<1>2. QED
  BY <1>1 DEF InStep, Headroom, Good, Current

----------------------------------------------------------------------------
(* One turn of the loop of cb_read(), for the connection it is called for.  *)

\* Bytes arrive.
LEMMA GoodArrive ==
  ASSUME NEW k, Good(k, FALSE), NEW n \in 1..ReadMax, k.len_buf + n <= High
  PROVE  Good([k EXCEPT !.len_buf = @ + n], TRUE)
<1> DEFINE h == [k EXCEPT !.len_buf = @ + n]
<1>0. k \in Connection
  BY DEF Good
<1>n. k.len_buf \in Nat /\ k.len_buf + n \in Nat
  <2>1. k.len_buf \in Nat
    BY <1>0 DEF Connection
  <2>2. QED
    BY <2>1
<1>c. h \in Connection
  BY ONLY <1>0, <1>n DEF Connection
<1>d. h.len_buf = k.len_buf + n
  BY ONLY <1>0 DEF Connection
<1>a. h \in Connection /\ h.len_buf = k.len_buf + n
  BY <1>c, <1>d
<1>b. h.bytes_skip = k.bytes_skip /\ h.taken = k.taken /\ h.input = k.input
  BY <1>0 DEF Connection
<1>1. h \in Connection /\ h.len_buf = k.len_buf + n /\ h.bytes_skip = k.bytes_skip
      /\ h.taken = k.taken /\ h.input = k.input
  BY <1>a, <1>b
<1>2. h.len_buf <= High
  BY <1>1
<1>3. h.bytes_skip = 0 /\ h.input # <<>> /\ Head(h.input).size > High => h.len_buf < High
  BY <1>1 DEF Good, Connection
<1>4. QED
  BY <1>1, <1>2, <1>3 DEF Good

\* A write changes the output only.
LEMMA GoodWrite ==
  ASSUME NEW k, NEW busy \in BOOLEAN, Good(k, busy),
         NEW o \in Seq({"ACCEPT", "FINISH"})
  PROVE  Good([k EXCEPT !.out = o], busy)
<1> DEFINE h == [k EXCEPT !.out = o]
<1>1. h \in Connection /\ h.len_buf = k.len_buf /\ h.bytes_skip = k.bytes_skip
      /\ h.taken = k.taken /\ h.input = k.input
  BY DEF Good, Connection
<1>2. QED
  BY <1>1 DEF Good

\* A full frame is drained.
LEMMA GoodFrame ==
  ASSUME NEW k, Good(k, TRUE), k.bytes_skip = 0, k.input # <<>>,
         k.len_buf >= Head(k.input).size
  PROVE  Good(Drained(k, Head(k.input).size), TRUE)
<1>1. k \in Connection /\ k.taken = 0
  BY DEF Good, Connection
<1>2. Head(k.input).size \in Nat /\ Head(k.input).size > Field
  BY <1>1, HeadFrame
<1> DEFINE n == Head(k.input).size
           h == Drained(k, n)
<1>3. h \in Connection /\ h.len_buf = k.len_buf - n /\ h.bytes_skip = 0 /\ h.taken = 0
  BY <1>1, <1>2, DrainedTyped DEF Connection
<1>4. h.len_buf < High
  BY <1>1, <1>2, <1>3 DEF Good, Connection
<1> HIDE DEF n, h
<1>5. Good(h, TRUE)
  BY <1>3, <1>4 DEF Good, Connection
<1>6. QED
  BY <1>5 DEF h, n

\* Bytes of an oversized frame are drained.
LEMMA GoodSkip ==
  ASSUME NEW k, Good(k, TRUE), k.bytes_skip > 0, k.len_buf > 0,
         NEW n \in Nat, n > 0, n <= k.bytes_skip, n <= k.len_buf
  PROVE  Good([Drained(k, n) EXCEPT !.bytes_skip = @ - n], TRUE)
<1>1. /\ k \in Connection
      /\ k.input # <<>>
      /\ Head(k.input).size > High
      /\ k.taken + k.bytes_skip = Head(k.input).size
      /\ k.len_buf <= High
  BY DEF Good, Connection
<1>2. k.taken \in Nat /\ k.bytes_skip \in Nat /\ k.len_buf \in Nat
  BY <1>1 DEF Connection
<1>3. Head(k.input).size \in Nat
  BY <1>1, HeadFrame
<1> DEFINE d == Drained(k, n)
           h == [d EXCEPT !.bytes_skip = @ - n]
<1>4. d \in Connection /\ d.len_buf = k.len_buf - n /\ d.bytes_skip = k.bytes_skip
  BY <1>1, DrainedTyped
<1>5. /\ h \in Connection
      /\ h.len_buf = k.len_buf - n
      /\ h.bytes_skip = k.bytes_skip - n
      /\ h.taken = d.taken
      /\ h.input = d.input
  <2> HIDE DEF d
  <2>1. d.bytes_skip - n \in Nat
    BY <1>2, <1>4
  <2>2. h \in Connection
    BY <1>4, <2>1 DEF Connection
  <2>3. h.bytes_skip = d.bytes_skip - n
    BY <1>4 DEF Connection
  <2>4. h.len_buf = d.len_buf /\ h.taken = d.taken /\ h.input = d.input
    BY <1>4 DEF Connection
  <2>5. QED
    BY <1>4, <2>2, <2>3, <2>4
<1>6. /\ n # k.bytes_skip => d.taken = k.taken + n /\ d.input = k.input
      /\ n = k.bytes_skip => d.taken = 0
  <2>1. n # k.bytes_skip <=> k.taken + n < Head(k.input).size
    BY <1>1, <1>2, <1>3
  <2>2. QED
    BY <1>1, <2>1, DrainedTyped
<1> HIDE DEF d, h
<1>7. h.len_buf < High
  BY <1>1, <1>2, <1>5
<1>8. ASSUME n # k.bytes_skip
      PROVE  Good(h, TRUE)
  <2>0. h.input = k.input /\ h.taken = k.taken + n /\ h.bytes_skip = k.bytes_skip - n
    BY ONLY <1>5, <1>6, <1>8
  <2>1. h.taken + h.bytes_skip = Head(h.input).size /\ h.bytes_skip > 0
    <3> DEFINE t == k.taken
               b == k.bytes_skip
    <3>1. t \in Nat /\ b \in Nat /\ n \in Nat /\ n <= b /\ n # b
      BY <1>2, <1>8
    <3>2. h.taken = t + n /\ h.bytes_skip = b - n
      BY <2>0
    <3>3. Head(h.input).size = t + b
      BY <1>1, <2>0
    <3> HIDE DEF t, b
    <3>4. (t + n) + (b - n) = t + b /\ b - n > 0
      BY ONLY <3>1
    <3>5. QED
      BY ONLY <3>2, <3>3, <3>4
  <2>2. h.input # <<>> /\ Head(h.input).size > High
    BY ONLY <1>1, <2>0
  <2>3. QED
    BY <1>1, <1>2, <1>5, <1>7, <2>1, <2>2 DEF Good
<1>9. ASSUME n = k.bytes_skip
      PROVE  Good(h, TRUE)
  <2>1. h.bytes_skip = 0 /\ h.taken = 0
    BY <1>1, <1>2, <1>3, <1>5, <1>6, <1>9
  <2>2. QED
    BY <1>5, <1>7, <2>1 DEF Good, Connection
<1>10. Good(h, TRUE)
  BY <1>8, <1>9
<1>11. QED
  BY <1>10 DEF d, h

----------------------------------------------------------------------------
(* Every step.                                                              *)

AllGood == \A d \in Open : Good(conn[d], cb = d)

\* A step concerns one connection; the others keep what they have.
LEMMA OneConnection ==
  ASSUME AllGood, NEW c \in Conns,
         \A d \in Conns \ {c} : /\ conn'[d] = conn[d]
                                /\ status'[d] = status[d]
                                /\ cb = d <=> cb' = d,
         status'[c] = "open" => Good(conn'[c], cb' = c)
  PROVE  AllGood'
<1> SUFFICES ASSUME NEW d \in Conns, status'[d] = "open"
             PROVE  Good(conn'[d], cb' = d)
  BY DEF AllGood, Open
<1>1. CASE d = c
  BY <1>1
<1>2. CASE d # c
  <2>1. conn'[d] = conn[d] /\ (cb = d <=> cb' = d) /\ Good(conn[d], cb = d)
    BY <1>2 DEF AllGood, Open
  <2>2. QED
    BY <2>1 DEF Good
<1>3. QED
  BY <1>1, <1>2

\* Closing a connection leaves nothing to be said about it.
LEMMA CloseStep ==
  ASSUME DnstapTypeOK, AllGood, NEW c \in Conns, status[c] = "open",
         cb_close_conn(c), cb \in {c, None}, cb' = None
  PROVE  /\ AllGood'
         /\ status' \in [Conns -> {"absent", "open", "closed", "cut"}]
         /\ conn' \in [Conns -> Connection]
         /\ wire' \in [Conns -> Nat]
         /\ remaining' \in Int
         /\ listener' \in BOOLEAN
<1>1. \A d \in Conns \ {c} : conn'[d] = conn[d] /\ status'[d] = status[d]
  BY DEF cb_close_conn, DnstapTypeOK
<1>2. \A d \in Conns \ {c} : cb = d <=> cb' = d
  OBVIOUS
<1>3. status'[c] # "open"
  BY DEF cb_close_conn, DnstapTypeOK
<1>4. AllGood'
  BY <1>1, <1>2, <1>3, OneConnection
<1>5. QED
  BY <1>4, FreshConnection DEF cb_close_conn, DnstapTypeOK

\* A step that changes one connection and leaves it open.
LEMMA UpdateStep ==
  ASSUME DnstapTypeOK, AllGood, NEW c \in Conns, NEW k,
         conn' = [conn EXCEPT ![c] = k], status' = status,
         cb \in {c, None}, cb' \in {c, None}, Good(k, cb' = c)
  PROVE  AllGood' /\ conn' \in [Conns -> Connection]
<1>1. k \in Connection
  BY DEF Good
<1>2. conn' \in [Conns -> Connection] /\ conn'[c] = k
  BY <1>1 DEF DnstapTypeOK
<1>3. \A d \in Conns \ {c} : conn'[d] = conn[d] /\ status'[d] = status[d]
  BY DEF DnstapTypeOK
<1>4. \A d \in Conns \ {c} : cb = d <=> cb' = d
  OBVIOUS
<1>5. AllGood'
  BY <1>2, <1>3, <1>4, OneConnection
<1>6. QED
  BY <1>2, <1>5

\* can_read_full_frame() fails: the callback ends with room in the buffer.
LEMMA GoodIncomplete ==
  ASSUME DnstapTypeOK, NEW c \in Conns, Good(conn[c], TRUE), AtFrame(c),
         ~FullFrame(c), ~BadLength(c)
  PROVE  Good([conn[c] EXCEPT !.bytes_skip = Oversized(c)], FALSE)
<1> DEFINE k == conn[c]
           f == Current(c)
           h == [k EXCEPT !.bytes_skip = Oversized(c)]
<1>1. k \in Connection /\ k.input # <<>> /\ k.bytes_skip = 0 /\ k.taken = 0
  BY DEF AtFrame, Good, DnstapTypeOK, Connection
<1>2. f \in Frame /\ f.size \in Nat /\ (IsControl(f) => f.size <= High)
  BY <1>1, HeadFrame DEF Current
<1>3. Oversized(c) \in Nat
  BY <1>2 DEF Oversized
<1>4. h \in Connection /\ h.bytes_skip = Oversized(c)
  BY <1>1, <1>3 DEF Connection
<1>5. h.len_buf = k.len_buf /\ h.taken = k.taken /\ h.input = k.input
  BY <1>1 DEF Connection
<1>6. k.len_buf \in Nat
  BY <1>1 DEF Connection
<1>7. f = Head(h.input)
  BY <1>5 DEF Current
<1>8. f.size > High => k.len_buf < High /\ ~IsControl(f)
  BY <1>1, <1>2 DEF Good, Current
<1>9. ~LengthKnown(c) => k.len_buf < 4 /\ (~IsControl(f) => k.len_buf < 2)
  BY <1>6 DEF LengthKnown
<1>10. LengthKnown(c) => k.len_buf < f.size
  BY <1>2, <1>6 DEF FullFrame
<1>11. k.len_buf < High
  BY <1>2, <1>6, <1>8, <1>9, <1>10
<1>12. CASE LengthKnown(c) /\ f.size > High
  <2>1. h.bytes_skip = f.size
    BY <1>4, <1>12 DEF Oversized
  <2> HIDE DEF h, k, f
  <2>2. h.taken + h.bytes_skip = f.size /\ h.bytes_skip > 0
    BY <1>1, <1>2, <1>5, <1>12, <2>1
  <2>3. Good(h, FALSE)
    BY <1>1, <1>4, <1>5, <1>6, <1>7, <1>11, <1>12, <2>2 DEF Good
  <2>4. QED
    BY <2>3 DEF h, k
<1>13. CASE ~(LengthKnown(c) /\ f.size > High)
  <2>1. h.bytes_skip = 0
    BY <1>4, <1>13 DEF Oversized
  <2> HIDE DEF h, k, f
  <2>2. f.size > High => h.len_buf < Field
    BY <1>5, <1>8, <1>9, <1>13
  <2>3. Good(h, FALSE)
    BY <1>1, <1>4, <1>5, <1>6, <1>7, <1>11, <2>1, <2>2 DEF Good
  <2>4. QED
    BY <2>3 DEF h, k
<1>14. QED
  BY <1>12, <1>13

----------------------------------------------------------------------------
\* The counters stay numbers.
LEMMA CountsTyped ==
  ASSUME DnstapTypeOK
  PROVE  /\ ZeroCounts \in Counts
         /\ \A m : decode_dnstap_message(m) => inst' \in Counts /\ registered' \in Nat
         /\ [f \in DOMAIN inst |-> dumped[f] + inst[f]] \in Counts
<1>1. ZeroCounts \in Counts
  BY DEF ZeroCounts, Counts
<1>2. ASSUME NEW m, decode_dnstap_message(m)
      PROVE  inst' \in Counts /\ registered' \in Nat
  <2> DEFINE q == IF m = "query" THEN 1 ELSE 0
             u == IF m = "undecodable" THEN 1 ELSE 0
  <2>1. q \in Nat /\ u \in Nat
    OBVIOUS
  <2>2. inst' = [inst EXCEPT !.processed = @ + 1, !.accepted = @ + q,
                             !.skipped = @ + u, !.invalid = @ + u]
        /\ registered' = registered + q
    BY <1>2 DEF decode_dnstap_message
  <2> HIDE DEF q, u
  <2>3. inst \in Counts /\ registered \in Nat
    BY DEF DnstapTypeOK
  <2>a. /\ inst.processed + 1 \in Nat
        /\ inst.accepted + q \in Nat
        /\ inst.skipped + u \in Nat
        /\ inst.invalid + u \in Nat
    BY <2>1, <2>3 DEF Counts
  <2>b. inst' = [processed |-> inst.processed + 1, accepted |-> inst.accepted + q,
                 skipped |-> inst.skipped + u, invalid |-> inst.invalid + u]
    BY <2>2, <2>3 DEF Counts
  <2>4. inst' \in Counts
    BY <2>a, <2>b DEF Counts
  <2>5. QED
    BY <2>1, <2>2, <2>3, <2>4
<1>3. [f \in DOMAIN inst |-> dumped[f] + inst[f]] \in Counts
  <2>1. inst \in Counts /\ dumped \in Counts
    BY DEF DnstapTypeOK
  <2>2. DOMAIN inst = {"processed", "accepted", "skipped", "invalid"}
    BY <2>1 DEF Counts
  <2>3. [f \in DOMAIN inst |-> dumped[f] + inst[f]] =
          [processed |-> dumped.processed + inst.processed,
           accepted |-> dumped.accepted + inst.accepted,
           skipped |-> dumped.skipped + inst.skipped,
           invalid |-> dumped.invalid + inst.invalid]
    BY <2>1, <2>2 DEF Counts
  <2>4. QED
    BY <2>1, <2>3 DEF Counts
<1>4. QED
  BY <1>1, <1>2, <1>3

\* The parts of DnstapTypeOK that only few actions change.
LEMMA Rest ==
  ASSUME DnstapTypeOK
  PROVE  /\ peerVars' = peerVars => script' \in [Conns -> Seq(Frame)] /\ gone' \in [Conns -> BOOLEAN]
         /\ listenVars' = listenVars => remaining' \in Int /\ listener' \in BOOLEAN
         /\ countVars' = countVars =>
              inst' \in Counts /\ dumped' \in Counts /\ registered' \in Nat
BY DEF DnstapTypeOK, peerVars, listenVars, countVars

\* The end of the process leaves no connection open.
LEMMA ProcessEnds ==
  ASSUME NEW c \in Conns, ReadUnaddressed(c)
  PROVE  Open' = {} /\ cb' = Exited
BY DEF ReadUnaddressed, Open

\* Every step preserves the types and the state of the buffers.
LEMMA GoodStep ==
  ASSUME DnstapTypeOK, AllGood, [DnstapNext]_vars
  PROVE  DnstapTypeOK' /\ AllGood'
<1> USE Rest, FreshConnection
<1>1. ASSUME NEW c \in Conns, cb_accept_conn(c)
      PROVE  DnstapTypeOK' /\ AllGood'
  <2>1. PICK s \in Streams[c] :
          /\ script' = [script EXCEPT ![c] = s]
          /\ conn' = [conn EXCEPT ![c] = [conn_init EXCEPT !.input = s]]
          /\ wire' = [wire EXCEPT ![c] = Total(s)]
    BY <1>1 DEF cb_accept_conn
  <2>2. s \in Seq(Frame) /\ Total(s) \in Nat
    BY StreamsAssumption
  <2> DEFINE k == [conn_init EXCEPT !.input = s]
  <2>3. k \in Connection
    BY <2>2
  <2>4. k.bytes_skip = 0 /\ k.taken = 0 /\ k.len_buf = 0
    BY DEF conn_init
  <2> HIDE DEF k
  <2>5. Good(k, FALSE)
    BY <2>3, <2>4 DEF Good
  <2>6. conn'[c] = k /\ conn' \in [Conns -> Connection]
    BY <2>1, <2>3 DEF DnstapTypeOK, k
  <2>7. \A d \in Conns \ {c} : conn'[d] = conn[d] /\ status'[d] = status[d]
    BY <1>1, <2>1 DEF cb_accept_conn, DnstapTypeOK
  <2>8. cb = None /\ cb' = None
    BY <1>1 DEF cb_accept_conn
  <2>9. AllGood'
    <3>1. \A d \in Conns \ {c} : cb = d <=> cb' = d
      BY <2>8
    <3>2. Good(conn'[c], cb' = c)
      BY <2>5, <2>6, <2>8 DEF Good
    <3>3. QED
      BY <2>7, <3>1, <3>2, OneConnection
  <2>10. DnstapTypeOK'
    BY <1>1, <2>1, <2>2, <2>6, <2>8 DEF cb_accept_conn, DnstapTypeOK, countVars
  <2>11. QED
    BY <2>9, <2>10
<1>2. ASSUME NEW c \in Conns, AcceptFails(c)
      PROVE  DnstapTypeOK' /\ AllGood'
  <2>1. DnstapTypeOK'
    BY <1>2 DEF AcceptFails, DnstapTypeOK, listenVars, countVars
  <2>2. \A d \in Conns \ {c} : conn'[d] = conn[d] /\ status'[d] = status[d] /\ (cb = d <=> cb' = d)
    BY <1>2 DEF AcceptFails, DnstapTypeOK
  <2>3. status'[c] # "open"
    BY <1>2 DEF AcceptFails, DnstapTypeOK
  <2>4. QED
    BY <2>1, <2>2, <2>3, OneConnection
<1>3. ASSUME NEW c \in Conns, PeerGone(c)
      PROVE  DnstapTypeOK' /\ AllGood'
  <2>1. status[c] = "open" /\ cb_close_conn(c) /\ cb = None /\ cb' = None
    BY <1>3 DEF PeerGone
  <2>2. QED
    BY <1>3, <2>1, CloseStep DEF PeerGone, DnstapTypeOK
<1>4. ASSUME NEW c \in Conns, ReadEvent(c)
      PROVE  DnstapTypeOK' /\ AllGood'
  <2>1. PICK n \in ReadRoom(c) :
          /\ conn' = [conn EXCEPT ![c].len_buf = @ + n]
          /\ wire' = [wire EXCEPT ![c] = @ - n]
    BY <1>4 DEF ReadEvent
  <2>2. n \in 1..ReadMax /\ n <= wire[c] /\ conn[c].len_buf + n <= High
    BY DEF ReadRoom
  <2> DEFINE k == [conn[c] EXCEPT !.len_buf = @ + n]
  <2>3. Good(conn[c], FALSE)
    BY <1>4 DEF ReadEvent, AllGood, Open, Good
  <2>4. Good(k, TRUE)
    BY <2>2, <2>3, GoodArrive
  <2>5. conn' = [conn EXCEPT ![c] = k] /\ status' = status /\ cb = None /\ cb' = c
    BY <1>4, <2>1 DEF ReadEvent
  <2> HIDE DEF k
  <2>6. AllGood' /\ conn' \in [Conns -> Connection]
    <3>1. Good(k, cb' = c)
      BY <2>4, <2>5 DEF Good
    <3>2. QED
      BY <2>5, <3>1, UpdateStep
  <2>7. wire' \in [Conns -> Nat]
    BY <2>1, <2>2 DEF DnstapTypeOK
  <2>8. DnstapTypeOK'
    BY <1>4, <2>6, <2>7 DEF ReadEvent, DnstapTypeOK
  <2>9. QED
    BY <2>6, <2>8

<1>5. ASSUME NEW c \in Conns, WriteEvent(c)
      PROVE  DnstapTypeOK' /\ AllGood'
  <2>1. conn[c] \in Connection /\ conn[c].out \in Seq({"ACCEPT", "FINISH"})
    BY DEF DnstapTypeOK, Connection
  <2>2. got' \in [Conns -> Seq({"ACCEPT", "FINISH"})]
    <3>1. got[c] \in Seq({"ACCEPT", "FINISH"})
      BY DEF DnstapTypeOK
    <3>2. got[c] \o conn[c].out \in Seq({"ACCEPT", "FINISH"})
      BY <2>1, <3>1
    <3>3. QED
      BY <1>5, <3>2 DEF WriteEvent, cb_write, DnstapTypeOK
  <2>3. cb = None /\ cb' = None /\ status[c] = "open"
    BY <1>5 DEF WriteEvent
  <2>4. CASE cb_close_conn(c)
    BY <1>5, <2>2, <2>3, <2>4, CloseStep DEF WriteEvent, DnstapTypeOK
  <2>5. CASE conn' = [conn EXCEPT ![c].out = <<>>] /\ UNCHANGED <<status, wire, listenVars>>
    <3> DEFINE k == [conn[c] EXCEPT !.out = <<>>]
    <3>1. Good(conn[c], FALSE)
      BY <2>3 DEF AllGood, Open, Good
    <3>a. <<>> \in Seq({"ACCEPT", "FINISH"})
      OBVIOUS
    <3>2. Good(k, FALSE)
      BY <3>1, <3>a, GoodWrite
    <3>3. conn' = [conn EXCEPT ![c] = k]
      BY <2>5
    <3> HIDE DEF k
    <3>4. Good(k, cb' = c)
      BY <2>3, <3>2 DEF Good
    <3>5. AllGood' /\ conn' \in [Conns -> Connection]
      BY <2>3, <2>5, <3>3, <3>4, UpdateStep
    <3>6. QED
      BY <1>5, <2>2, <2>3, <2>5, <3>5 DEF WriteEvent, DnstapTypeOK
  <2>6. QED
    BY <1>5, <2>4, <2>5 DEF WriteEvent, cb_write
<1>6. ASSUME NEW c \in Conns, PartialWrite(c)
      PROVE  DnstapTypeOK' /\ AllGood'
  <2>1. conn[c] \in Connection /\ conn[c].out \in Seq({"ACCEPT", "FINISH"})
    BY DEF DnstapTypeOK, Connection
  <2>2. /\ Head(conn[c].out) \in {"ACCEPT", "FINISH"}
        /\ Tail(conn[c].out) \in Seq({"ACCEPT", "FINISH"})
    BY <1>6, <2>1 DEF PartialWrite
  <2>3. cb = None /\ cb' = None /\ status[c] = "open" /\ status' = status
    BY <1>6 DEF PartialWrite
  <2> DEFINE k == [conn[c] EXCEPT !.out = Tail(@)]
  <2>4. Good(conn[c], FALSE)
    BY <2>3 DEF AllGood, Open, Good
  <2>5. Good(k, FALSE)
    BY <2>2, <2>4, GoodWrite
  <2>6. conn' = [conn EXCEPT ![c] = k]
    BY <1>6 DEF PartialWrite
  <2> HIDE DEF k
  <2>7. Good(k, cb' = c)
    BY <2>3, <2>5 DEF Good
  <2>8. AllGood' /\ conn' \in [Conns -> Connection]
    BY <2>3, <2>6, <2>7, UpdateStep
  <2>9. got' \in [Conns -> Seq({"ACCEPT", "FINISH"})]
    BY <1>6, <2>2 DEF PartialWrite, DnstapTypeOK
  <2>10. QED
    BY <1>6, <2>3, <2>8, <2>9 DEF PartialWrite, DnstapTypeOK
<1>7. ASSUME NEW c \in Conns, cb = c
      PROVE  status[c] = "open" /\ Good(conn[c], TRUE)
  BY <1>7 DEF AllGood, Open, Good, DnstapTypeOK
<1>8. ASSUME NEW c \in Conns, ReadNothing(c)
      PROVE  DnstapTypeOK' /\ AllGood'
  <2>1. Good(conn[c], FALSE)
    BY <1>7, <1>8 DEF ReadNothing, Good
  <2>2. conn' = [conn EXCEPT ![c] = conn[c]] /\ status' = status /\ cb = c /\ cb' = None
    BY <1>8 DEF ReadNothing, DnstapTypeOK
  <2>3. Good(conn[c], cb' = c)
    BY <2>1, <2>2 DEF Good
  <2>4. AllGood' /\ conn' \in [Conns -> Connection]
    BY <2>2, <2>3, UpdateStep
  <2>5. QED
    BY <1>8, <2>4 DEF ReadNothing, DnstapTypeOK
<1>9. ASSUME NEW c \in Conns, ReadIncomplete(c)
      PROVE  DnstapTypeOK' /\ AllGood'
  <2> DEFINE k == [conn[c] EXCEPT !.bytes_skip = Oversized(c)]
  <2>1. cb = c /\ AtFrame(c) /\ cb' = None /\ status' = status
    BY <1>9 DEF ReadIncomplete, AtFrame
  <2>2. Good(k, FALSE)
    BY <1>7, <1>9, <2>1, GoodIncomplete DEF ReadIncomplete
  <2>3. conn' = [conn EXCEPT ![c] = k]
    BY <1>9 DEF ReadIncomplete
  <2> HIDE DEF k
  <2>4. Good(k, cb' = c)
    BY <2>1, <2>2 DEF Good
  <2>5. AllGood' /\ conn' \in [Conns -> Connection]
    BY <2>1, <2>3, <2>4, UpdateStep
  <2>6. QED
    BY <1>9, <2>1, <2>5 DEF ReadIncomplete, DnstapTypeOK
<1>10. ASSUME NEW c \in Conns, ReadBadLength(c) \/ ReadControlFails(c)
       PROVE  DnstapTypeOK' /\ AllGood'
  <2>1. cb = c /\ cb' = None /\ cb_close_conn(c) /\ UNCHANGED <<peerVars, got, countVars>>
    BY <1>10 DEF ReadBadLength, ReadControlFails, AtControlFrame, AtFrame
  <2>2. QED
    BY <1>7, <2>1, CloseStep DEF DnstapTypeOK
<1>11. ASSUME NEW c \in Conns, ReadSkip(c)
       PROVE  DnstapTypeOK' /\ AllGood'
  <2> DEFINE n == IF conn[c].bytes_skip > conn[c].len_buf
                  THEN conn[c].len_buf ELSE conn[c].bytes_skip
             k == [Drained(conn[c], n) EXCEPT !.bytes_skip = @ - n]
  <2>1. cb = c /\ cb' = c /\ status' = status /\ conn[c].len_buf > 0 /\ conn[c].bytes_skip > 0
    BY <1>11 DEF ReadSkip
  <2>2. conn[c].len_buf \in Nat /\ conn[c].bytes_skip \in Nat
    BY DEF DnstapTypeOK, Connection
  <2>3. n \in Nat /\ n > 0 /\ n <= conn[c].bytes_skip /\ n <= conn[c].len_buf
    BY <2>1, <2>2
  <2>4. conn' = [conn EXCEPT ![c] = k]
    BY <1>11 DEF ReadSkip
  <2> HIDE DEF n
  <2>5. Good(k, TRUE)
    BY <1>7, <2>1, <2>3, GoodSkip
  <2> HIDE DEF k
  <2>6. Good(k, cb' = c)
    BY <2>1, <2>5 DEF Good
  <2>7. AllGood' /\ conn' \in [Conns -> Connection]
    BY <2>1, <2>4, <2>6, UpdateStep
  <2>8. QED
    BY <1>11, <2>1, <2>7 DEF ReadSkip, DnstapTypeOK
<1>12. ASSUME NEW c \in Conns, AtFrame(c), FullFrame(c)
       PROVE  /\ Good(Drained(conn[c], Current(c).size), TRUE)
              /\ Current(c) \in Frame
  <2>1. cb = c /\ conn[c].bytes_skip = 0 /\ conn[c].input # <<>>
        /\ conn[c].len_buf >= Head(conn[c].input).size
    BY <1>12 DEF AtFrame, FullFrame, Current
  <2>2. Good(conn[c], TRUE)
    BY <1>7, <2>1
  <2>3. conn[c] \in Connection
    BY DEF DnstapTypeOK
  <2>4. QED
    BY <2>1, <2>2, <2>3, GoodFrame, HeadFrame DEF Current
<1>13. ASSUME NEW c \in Conns, ReadDataFrame(c)
       PROVE  DnstapTypeOK' /\ AllGood'
  <2> DEFINE k == Drained(conn[c], Current(c).size)
  <2>1. cb = c /\ cb' = c /\ status' = status /\ AtFrame(c) /\ FullFrame(c)
    BY <1>13 DEF ReadDataFrame, AtFrame
  <2>2. Good(k, TRUE)
    BY <1>12, <2>1
  <2>3. conn' = [conn EXCEPT ![c] = k]
    BY <1>13 DEF ReadDataFrame
  <2> HIDE DEF k
  <2>4. Good(k, cb' = c)
    BY <2>1, <2>2 DEF Good
  <2>5. AllGood' /\ conn' \in [Conns -> Connection]
    BY <2>1, <2>3, <2>4, UpdateStep
  <2>6. inst' \in Counts /\ registered' \in Nat
    BY <1>13, CountsTyped DEF ReadDataFrame, DnstapTypeOK
  <2>7. QED
    BY <1>13, <2>1, <2>5, <2>6 DEF ReadDataFrame, DnstapTypeOK
<1>14. ASSUME NEW c \in Conns, ReadControlFrame(c)
       PROVE  DnstapTypeOK' /\ AllGood'
  <2> DEFINE d == Drained(conn[c], Current(c).size)
             k == Process(d, Current(c))
  <2>1. cb = c /\ cb' = c /\ status' = status /\ AtFrame(c) /\ FullFrame(c)
    BY <1>14 DEF ReadControlFrame, AtControlFrame, AtFrame
  <2>2. Good(d, TRUE) /\ Current(c) \in Frame
    BY <1>12, <2>1
  <2>3. conn' = [conn EXCEPT ![c] = k]
    BY <1>14 DEF ReadControlFrame
  <2> HIDE DEF d
  <2>4. d \in Connection
    BY <2>2 DEF Good
  <2>5. Good(k, TRUE)
    <3>1. /\ k \in Connection
          /\ k.len_buf = d.len_buf
          /\ k.bytes_skip = d.bytes_skip
          /\ k.taken = d.taken
          /\ k.input = d.input
      BY <2>2, <2>4, ProcessTyped
    <3> HIDE DEF k
    <3>2. QED
      BY <2>2, <3>1 DEF Good
  <2> HIDE DEF k
  <2>6. Good(k, cb' = c)
    BY <2>1, <2>5 DEF Good
  <2>7. AllGood' /\ conn' \in [Conns -> Connection]
    BY <2>1, <2>3, <2>6, UpdateStep
  <2>8. QED
    BY <1>14, <2>1, <2>7 DEF ReadControlFrame, DnstapTypeOK
<1>17. ASSUME NEW c \in Conns, ReadUnaddressed(c)
       PROVE  DnstapTypeOK' /\ AllGood'
  <2>1. Open' = {}
    BY <1>17, ProcessEnds
  <2>2. DnstapTypeOK'
    BY <1>17 DEF ReadUnaddressed, DnstapTypeOK
  <2>3. QED
    BY <2>1, <2>2 DEF AllGood
<1>15. CASE instrumentation_event
  <2>1. AllGood'
    BY <1>15 DEF instrumentation_event, AllGood, Open
  <2>2. inst' \in Counts /\ dumped' \in Counts
    BY <1>15, CountsTyped DEF instrumentation_event
  <2>3. QED
    BY <1>15, <2>1, <2>2 DEF instrumentation_event, DnstapTypeOK
<1>16. CASE UNCHANGED vars
  BY <1>16 DEF vars, DnstapTypeOK, AllGood, Open, peerVars, listenVars, countVars
<1>18. QED
  BY <1>1, <1>2, <1>3, <1>4, <1>5, <1>6, <1>8, <1>9, <1>10, <1>11, <1>13, <1>14,
     <1>15, <1>16, <1>17 DEF DnstapNext, ReadLoop

----------------------------------------------------------------------------
\* The types and the buffers at the start.
LEMMA DnstapStarts == DnstapInit => DnstapTypeOK /\ AllGood
<1> SUFFICES ASSUME DnstapInit
             PROVE  DnstapTypeOK /\ AllGood
  OBVIOUS
<1>1. ZeroCounts \in Counts
  BY DEF ZeroCounts, Counts
<1>2. <<>> \in Seq(Frame) /\ <<>> \in Seq({"ACCEPT", "FINISH"})
  OBVIOUS
<1>3. DnstapTypeOK
  BY <1>1, <1>2, FreshConnection DEF DnstapInit, DnstapTypeOK, Unlimited
<1>4. QED
  BY <1>3 DEF DnstapInit, AllGood, Open

\* The inductive invariant: the types, the reader's place in the stream and the
\* room in the input buffers hold in every reachable state.
THEOREM DnstapInvariant == DnstapSpec => [](DnstapTypeOK /\ AllGood)
<1>1. DnstapTypeOK /\ AllGood /\ [DnstapNext]_vars => (DnstapTypeOK /\ AllGood)'
  BY GoodStep
<1>2. QED
  BY DnstapStarts, <1>1, PTL DEF DnstapSpec

\* The callbacks keep all counters, buffers and states well typed, and cb_read()
\* never runs for a connection that was closed.
THEOREM DnstapTypeCorrect == DnstapSpec => []DnstapTypeOK
BY DnstapInvariant, PTL

\* Whatever the streams and however they are cut into reads, the reader of
\* cb_read() stays in step with the frames.
THEOREM InStepHolds == DnstapSpec => []InStep
<1>1. DnstapTypeOK /\ AllGood => InStep
  BY InvIsGood DEF AllGood
<1>2. QED
  BY DnstapInvariant, <1>1, PTL

\* When no callback runs, every open connection has room below the watermark:
\* libevent goes on reading, also after a frame that does not fit its buffer.
THEOREM NeverStallsHolds == DnstapSpec => []NeverStalls
<1>1. DnstapTypeOK /\ AllGood => NeverStalls
  <2> SUFFICES ASSUME DnstapTypeOK, AllGood, cb = None, NEW c \in Open
               PROVE  conn[c].len_buf < High
    BY DEF NeverStalls
  <2>1. Good(conn[c], cb = c) /\ cb # c
    BY DEF AllGood, Open
  <2>2. QED
    BY <2>1 DEF Good
<1>2. QED
  BY DnstapInvariant, <1>1, PTL

----------------------------------------------------------------------------
\* A lookup is registered where it is counted as accepted, and the minutely dump
\* moves the count to the log without losing any.
THEOREM AcceptedAccountedHolds == DnstapSpec => []AcceptedAccounted
<1>1. DnstapInit => AcceptedAccounted
  BY DEF DnstapInit, AcceptedAccounted, ZeroCounts
<1>2. DnstapTypeOK /\ AcceptedAccounted /\ [DnstapNext]_vars => AcceptedAccounted'
  <2> SUFFICES ASSUME DnstapTypeOK, AcceptedAccounted, [DnstapNext]_vars
               PROVE  AcceptedAccounted'
    OBVIOUS
  <2>1. inst \in Counts /\ dumped \in Counts /\ registered \in Nat
    BY DEF DnstapTypeOK
  <2>2. inst.accepted \in Nat /\ dumped.accepted \in Nat
    BY <2>1 DEF Counts
  <2>3. ASSUME UNCHANGED countVars
        PROVE  AcceptedAccounted'
    BY <2>3 DEF AcceptedAccounted, countVars
  <2>4. ASSUME NEW c \in Conns, ReadDataFrame(c)
        PROVE  AcceptedAccounted'
    <3>1. dumped' = dumped
      BY <2>4 DEF ReadDataFrame
    <3>2. inst'.accepted - inst.accepted = registered' - registered
          /\ inst'.accepted \in Int /\ registered' \in Int
      <4>1. CASE UNCHANGED <<inst, registered>>
        BY <2>1, <2>2, <4>1
      <4>2. ASSUME NEW m, decode_dnstap_message(m)
            PROVE  /\ inst'.accepted - inst.accepted = registered' - registered
                   /\ inst'.accepted \in Int /\ registered' \in Int
        BY <2>1, <2>2, <4>2 DEF decode_dnstap_message, Counts
      <4>3. QED
        BY <2>4, <4>1, <4>2 DEF ReadDataFrame
    <3>3. QED
      BY <2>1, <2>2, <3>1, <3>2 DEF AcceptedAccounted
  <2>5. CASE instrumentation_event
    <3>1. dumped'.accepted = dumped.accepted + inst.accepted
      BY <2>1, <2>5 DEF instrumentation_event, Counts
    <3>2. inst'.accepted = 0 /\ registered' = registered
      BY <2>5 DEF instrumentation_event, ZeroCounts
    <3>3. QED
      BY <2>2, <3>1, <3>2 DEF AcceptedAccounted
  <2>6. QED
    BY <2>3, <2>4, <2>5 DEF DnstapNext, vars, cb_accept_conn, AcceptFails, PeerGone,
       ReadEvent, WriteEvent, PartialWrite, ReadLoop, ReadNothing, ReadIncomplete,
       ReadBadLength, ReadSkip, ReadUnaddressed, ReadControlFrame, ReadControlFails
<1>3. QED
  BY DnstapTypeCorrect, <1>1, <1>2, PTL DEF DnstapSpec

----------------------------------------------------------------------------
\* Accepting and closing change the set of open connections by one.
LEMMA OpenCounts ==
  ASSUME DnstapTypeOK
  PROVE  /\ Cardinality(Open) \in Nat
         /\ \A c \in Conns : status[c] # "open" => Cardinality(Open \cup {c}) = Cardinality(Open) + 1
         /\ \A c \in Conns : status[c] = "open" => Cardinality(Open \ {c}) = Cardinality(Open) - 1
<1>1. IsFiniteSet(Open)
  BY FS_Subset DEF Open
<1>2. QED
  BY <1>1, FS_CardinalityType, FS_AddElement, FS_RemoveElement DEF Open

\* Every close gives back what its accept took, and the count stays below zero:
\* cb_accept_conn() never disables the listener.
THEOREM AlwaysAcceptingHolds == DnstapSpec => []AlwaysAccepting
<1>1. DnstapInit => AlwaysAccepting
  <2> SUFFICES ASSUME DnstapInit
               PROVE  AlwaysAccepting
    OBVIOUS
  <2>1. Open = {}
    BY DEF DnstapInit, Open
  <2>2. QED
    BY <2>1, FS_EmptySet DEF DnstapInit, AlwaysAccepting, Unlimited
<1>2. DnstapTypeOK /\ AlwaysAccepting /\ [DnstapNext]_vars => AlwaysAccepting'
  <2> SUFFICES ASSUME DnstapTypeOK, AlwaysAccepting, [DnstapNext]_vars
               PROVE  AlwaysAccepting'
    OBVIOUS
  <2> SUFFICES ASSUME cb # Exited
               PROVE  AlwaysAccepting'
    <3>1. CASE cb = Exited
      <4>1. cb # None /\ \A c \in Conns : cb # c
        BY <3>1
      <4>2. ~\E c \in Conns : ReadLoop(c)
        BY <4>1 DEF ReadLoop, ReadNothing, ReadIncomplete, ReadBadLength, ReadSkip,
           ReadDataFrame, ReadUnaddressed, ReadControlFrame, ReadControlFails,
           AtControlFrame, AtFrame
      <4>3. ~DnstapNext
        BY <4>1, <4>2 DEF DnstapNext, cb_accept_conn, AcceptFails, PeerGone,
           ReadEvent, WriteEvent, PartialWrite, instrumentation_event
      <4>4. cb' = Exited
        BY <3>1, <4>3 DEF vars
      <4>5. QED
        BY <4>4 DEF AlwaysAccepting
    <3>2. QED
      BY <3>1
  <2>1. Cardinality(Open) \in Nat
    BY OpenCounts
  <2>0. listener /\ remaining = -1 - Cardinality(Open)
    BY DEF AlwaysAccepting
  <2>2. ASSUME UNCHANGED <<status, listenVars>>
        PROVE  AlwaysAccepting'
    BY <2>0, <2>2 DEF AlwaysAccepting, Open, listenVars
  <2>3. ASSUME NEW c \in Conns, cb_accept_conn(c)
        PROVE  AlwaysAccepting'
    <3>1. status[c] # "open" /\ Open' = Open \cup {c}
      BY <2>3 DEF cb_accept_conn, Open, DnstapTypeOK
    <3>2. Cardinality(Open') = Cardinality(Open) + 1
      BY <3>1, OpenCounts
    <3>3. remaining' = remaining - 1 /\ listener' = (remaining - 1 # 0)
      BY <2>3 DEF cb_accept_conn
    <3>5. remaining - 1 # 0 /\ remaining' = -1 - Cardinality(Open')
      BY <2>0, <2>1, <3>2, <3>3
    <3>6. QED
      BY <3>3, <3>5 DEF AlwaysAccepting
  <2>4. ASSUME NEW c \in Conns, status[c] = "open", cb_close_conn(c)
        PROVE  AlwaysAccepting'
    <3>1. Open' = Open \ {c}
      BY <2>4 DEF cb_close_conn, Open, DnstapTypeOK
    <3>2. Cardinality(Open') = Cardinality(Open) - 1
      BY <2>4, <3>1, OpenCounts
    <3>3. remaining' = -1 - Cardinality(Open')
      BY <2>0, <2>1, <2>4, <3>2 DEF cb_close_conn
    <3>4. listener'
      BY <2>0, <2>4 DEF cb_close_conn
    <3>5. QED
      BY <3>3, <3>4 DEF AlwaysAccepting
  <2>5. ASSUME NEW c \in Conns, AcceptFails(c)
        PROVE  AlwaysAccepting'
    <3>1. Open' = Open
      BY <2>5 DEF AcceptFails, Open, DnstapTypeOK
    <3>2. QED
      BY <2>0, <2>5, <3>1 DEF AcceptFails, AlwaysAccepting, listenVars
  <2>6. ASSUME NEW c \in Conns, WriteEvent(c)
        PROVE  AlwaysAccepting'
    BY <2>2, <2>4, <2>6 DEF WriteEvent, cb_write
  <2>7. ASSUME NEW c \in Conns, ReadLoop(c)
        PROVE  AlwaysAccepting'
    <3>1. cb = c /\ status[c] = "open"
      BY <2>7 DEF ReadLoop, ReadNothing, ReadIncomplete, ReadBadLength, ReadSkip,
         ReadDataFrame, ReadUnaddressed, ReadControlFrame, ReadControlFails,
         AtControlFrame, AtFrame, DnstapTypeOK
    <3>2. cb_close_conn(c) \/ UNCHANGED <<status, listenVars>> \/ cb' = Exited
      BY <2>7 DEF ReadLoop, ReadNothing, ReadIncomplete, ReadBadLength, ReadSkip,
         ReadDataFrame, ReadUnaddressed, ReadControlFrame, ReadControlFails
    <3>3. CASE cb' = Exited
      BY <3>3 DEF AlwaysAccepting
    <3>4. QED
      BY <2>2, <2>4, <3>1, <3>2, <3>3
  <2>8. ASSUME NEW c \in Conns, PeerGone(c)
        PROVE  AlwaysAccepting'
    BY <2>4, <2>8 DEF PeerGone
  <2>9. QED
    BY <2>2, <2>3, <2>5, <2>6, <2>7, <2>8 DEF DnstapNext, vars, ReadEvent,
       PartialWrite, instrumentation_event
<1>3. QED
  BY DnstapTypeCorrect, <1>1, <1>2, PTL DEF DnstapSpec

----------------------------------------------------------------------------
(* The handshake.                                                           *)

\* One frame more: one control frame more, or none.
LEMMA OneFrameMore ==
  ASSUME NEW s, NEW n \in Nat
  PROVE  /\ ControlsIn(s, n) \in Nat
         /\ IsControl(s[n + 1]) => ControlsIn(s, n + 1) = ControlsIn(s, n) + 1
         /\ ~IsControl(s[n + 1]) => ControlsIn(s, n + 1) = ControlsIn(s, n)
         /\ \A m \in Nat : n <= m => ControlsIn(s, n) <= ControlsIn(s, m)
<1> DEFINE C(m) == {t \in 1..m : IsControl(s[t])}
<1>1. \A m \in Nat : IsFiniteSet(C(m))
  <2> SUFFICES ASSUME NEW m \in Nat
               PROVE  IsFiniteSet(C(m))
    OBVIOUS
  <2>1. IsFiniteSet(1..m) /\ C(m) \in SUBSET (1..m)
    BY FS_Interval
  <2>2. QED
    BY <2>1, FS_Subset
<1>2. ControlsIn(s, n) \in Nat
  BY <1>1, FS_CardinalityType DEF ControlsIn
<1>3. ASSUME IsControl(s[n + 1])
      PROVE  ControlsIn(s, n + 1) = ControlsIn(s, n) + 1
  <2>1. C(n + 1) = C(n) \cup {n + 1} /\ n + 1 \notin C(n)
    BY <1>3
  <2> HIDE DEF C
  <2>2. Cardinality(C(n + 1)) = Cardinality(C(n)) + 1
    BY <1>1, <2>1, FS_AddElement
  <2>3. QED
    BY <2>2 DEF ControlsIn, C
<1>4. ASSUME ~IsControl(s[n + 1])
      PROVE  ControlsIn(s, n + 1) = ControlsIn(s, n)
  <2>1. C(n + 1) = C(n)
    BY <1>4
  <2>2. QED
    BY <2>1 DEF ControlsIn
<1>5. ASSUME NEW m \in Nat, n <= m
      PROVE  ControlsIn(s, n) <= ControlsIn(s, m)
  <2>1. C(n) \in SUBSET C(m)
    BY <1>5
  <2> HIDE DEF C
  <2>2. Cardinality(C(n)) <= Cardinality(C(m))
    BY <1>1, <2>1, FS_Subset
  <2>3. QED
    BY <2>2 DEF ControlsIn, C
<1>6. QED
  BY <1>2, <1>3, <1>4, <1>5

\* What is left of the stream is its end.
Suffix(s, k) ==
  /\ Len(k.input) <= Len(s)
  /\ \A t \in 1..Len(k.input) : k.input[t] = s[Len(s) - Len(k.input) + t]

\* Of one connection with the stream s, and g received by the peer: what is left
\* is the end of the stream, and what was taken is as HandshakeFollows says.
Hand(s, k, g) ==
  LET n == Len(s) - Len(k.input)
  IN  /\ Suffix(s, k)
      /\ ControlsIn(s, n) = Step(k.state)
      /\ InOrder(s, n)
      /\ g \o k.out = Answers(Step(k.state))

AllHand == \A c \in Open : Hand(script[c], conn[c], got[c])

\* A change of the buffers, of the output that is sent, or of nothing at all.
LEMMA HandSame ==
  ASSUME NEW s, NEW k, NEW g, Hand(s, k, g),
         NEW h, NEW e, h.input = k.input, h.state = k.state, e \o h.out = g \o k.out
  PROVE  Hand(s, h, e)
BY DEF Hand, Suffix

\* The frame at the head of what is left.
LEMMA HeadOfSuffix ==
  ASSUME NEW s \in Seq(Frame), NEW k \in Connection, Suffix(s, k), k.input # <<>>
  PROVE  LET n == Len(s) - Len(k.input)
         IN  /\ n \in Nat /\ n + 1 \in 1..Len(s)
             /\ Head(k.input) = s[n + 1]
<1>1. k.input \in Seq(Frame)
  BY DEF Connection
<1>2. Len(k.input) \in Nat \ {0} /\ Head(k.input) = k.input[1] /\ Len(s) \in Nat
  BY <1>1
<1> DEFINE a == Len(s)
           b == Len(k.input)
<1>3. /\ a \in Nat /\ b \in Nat \ {0} /\ b <= a
      /\ \A t \in 1..b : k.input[t] = s[a - b + t]
  BY <1>2 DEF Suffix
<1> HIDE DEF a, b
<1>4. a - b \in Nat /\ (a - b) + 1 \in 1..a /\ 1 \in 1..b
  BY ONLY <1>3
<1>5. k.input[1] = s[(a - b) + 1]
  BY <1>3, <1>4
<1>6. QED
  BY <1>2, <1>4, <1>5 DEF a, b

\* The frame is taken from what is left.
LEMMA TakeFrame ==
  ASSUME NEW s \in Seq(Frame), NEW k \in Connection, Suffix(s, k), k.input # <<>>,
         NEW h, h.input = Tail(k.input)
  PROVE  Suffix(s, h) /\ Len(s) - Len(h.input) = (Len(s) - Len(k.input)) + 1
<1>1. k.input \in Seq(Frame)
  BY DEF Connection
<1>2. Len(k.input) \in Nat \ {0} /\ Len(s) \in Nat
  BY <1>1
<1>3. /\ Len(h.input) = Len(k.input) - 1
      /\ \A t \in 1..Len(h.input) : h.input[t] = k.input[t + 1]
  BY <1>1
<1>4. \A t \in 1..Len(h.input) : t + 1 \in 1..Len(k.input)
  BY <1>2, <1>3
<1>5. \A t \in 1..Len(h.input) : h.input[t] = s[Len(s) - Len(k.input) + (t + 1)]
  BY <1>3, <1>4 DEF Suffix
<1> DEFINE a == Len(s)
           b == Len(k.input)
<1>6. a \in Nat /\ b \in Nat \ {0} /\ b <= a /\ Len(h.input) = b - 1
  BY <1>2, <1>3 DEF Suffix
<1>7. \A t \in 1..(b - 1) : h.input[t] = s[a - b + (t + 1)]
  BY <1>3, <1>5
<1> HIDE DEF a, b
<1>8. \A t \in 1..(b - 1) : a - b + (t + 1) = a - (b - 1) + t
  BY ONLY <1>6
<1>9. b - 1 <= a /\ a - (b - 1) = (a - b) + 1
  BY ONLY <1>6
<1>10. Suffix(s, h)
  <2>1. \A t \in 1..Len(h.input) : h.input[t] = s[a - Len(h.input) + t]
    BY <1>6, <1>7, <1>8
  <2>2. Len(h.input) <= a
    BY <1>6, <1>9
  <2>3. QED
    BY <2>1, <2>2 DEF Suffix, a
<1>11. QED
  BY <1>6, <1>9, <1>10 DEF a, b

\* A data frame, of any size, leaves the handshake where it is.
LEMMA HandData ==
  ASSUME NEW s \in Seq(Frame), NEW k \in Connection, NEW g, Hand(s, k, g), k.input # <<>>,
         ~IsControl(Head(k.input)),
         NEW h, h.input = Tail(k.input), h.state = k.state, h.out = k.out
  PROVE  Hand(s, h, g)
<1> DEFINE n == Len(s) - Len(k.input)
<1>0. Suffix(s, k)
  BY DEF Hand
<1>1. n \in Nat /\ Head(k.input) = s[n + 1]
  BY <1>0, HeadOfSuffix
<1>2. Suffix(s, h) /\ Len(s) - Len(h.input) = n + 1
  BY <1>0, TakeFrame
<1>3. ControlsIn(s, n) = Step(k.state) /\ InOrder(s, n) /\ g \o k.out = Answers(Step(k.state))
  BY DEF Hand
<1> HIDE DEF n
<1>4. ControlsIn(s, n + 1) = Step(k.state)
  BY <1>1, <1>3, OneFrameMore
<1>5. InOrder(s, n + 1)
  BY <1>1, <1>3 DEF InOrder
<1>6. QED
  BY <1>2, <1>3, <1>4, <1>5 DEF Hand

\* READY and STOP are answered by one frame each.
LEMMA AnswersGrow ==
  ASSUME NEW g \in Seq({"ACCEPT", "FINISH"}), NEW o \in Seq({"ACCEPT", "FINISH"})
  PROVE  /\ g \o o = Answers(0) => g \o Append(o, "ACCEPT") = Answers(1)
         /\ g \o o = Answers(2) => g \o Append(o, "FINISH") = Answers(3)
<1> DEFINE A == {"ACCEPT", "FINISH"}
<1>1. \A x \in A : g \o Append(o, x) = (g \o o) \o <<x>>
  <2> SUFFICES ASSUME NEW x \in A
               PROVE  g \o Append(o, x) = (g \o o) \o <<x>>
    OBVIOUS
  <2>1. Append(o, x) = o \o <<x>> /\ <<x>> \in Seq(A)
    BY AppendIsConcat
  <2>2. QED
    BY <2>1, ConcatAssociative
<1>2. <<>> \o <<"ACCEPT">> = <<"ACCEPT">>
  BY ConcatEmptySeq
<1>3. <<"ACCEPT">> \o <<"FINISH">> = <<"ACCEPT", "FINISH">>
  <2> DEFINE f == <<"ACCEPT">>
             l == <<"FINISH">>
             b == <<"ACCEPT", "FINISH">>
  <2>1. f \in Seq(A) /\ l \in Seq(A) /\ b \in Seq(A)
    OBVIOUS
  <2>2. Len(f) = 1 /\ Len(l) = 1 /\ Len(b) = 2
    OBVIOUS
  <2>3. f[1] = "ACCEPT" /\ l[1] = "FINISH" /\ b[1] = "ACCEPT" /\ b[2] = "FINISH"
    OBVIOUS
  <2> HIDE DEF f, l, b, A
  <2>0. /\ f \o l \in Seq(A)
        /\ Len(f \o l) = Len(f) + Len(l)
        /\ \A i \in 1..(Len(f) + Len(l)) :
             (f \o l)[i] = IF i <= Len(f) THEN f[i] ELSE l[i - Len(f)]
    BY <2>1, ConcatProperties, Zenon
  <2>4. /\ f \o l \in Seq(A)
        /\ Len(f \o l) = 2
        /\ (f \o l)[1] = f[1]
        /\ (f \o l)[2] = l[1]
    <3> DEFINE fl == f \o l
    <3> HIDE DEF fl
    <3>1. /\ Len(fl) = Len(f) + Len(l)
          /\ \A i \in 1..(Len(f) + Len(l)) : fl[i] = IF i <= Len(f) THEN f[i] ELSE l[i - Len(f)]
      BY <2>0 DEF fl
    <3>2. Len(fl) = 2 /\ fl[1] = f[1] /\ fl[2] = l[1]
      BY ONLY <2>2, <3>1
    <3>3. QED
      BY <2>0, <3>2 DEF fl
  <2>5. \A i \in 1..Len(f \o l) : (f \o l)[i] = b[i]
    BY <2>3, <2>4
  <2>6. f \o l = b
    BY <2>1, <2>2, <2>4, <2>5, SeqEqual
  <2>7. QED
    BY <2>6 DEF f, l, b
<1>4. g \o Append(o, "ACCEPT") = (g \o o) \o <<"ACCEPT">>
  BY <1>1
<1>5. g \o Append(o, "FINISH") = (g \o o) \o <<"FINISH">>
  BY <1>1
<1>6. Answers(0) = <<>> /\ Answers(1) = <<"ACCEPT">>
  BY DEF Answers
<1>7. Answers(2) = <<"ACCEPT">> /\ Answers(3) = <<"ACCEPT", "FINISH">>
  BY DEF Answers
<1>8. QED
  BY ONLY <1>2, <1>3, <1>4, <1>5, <1>6, <1>7, Zenon

\* A control frame that is accepted is the next one of the handshake.
LEMMA HandControl ==
  ASSUME NEW s \in Seq(Frame), NEW k \in Connection, NEW g \in Seq({"ACCEPT", "FINISH"}),
         Hand(s, k, g), k.input # <<>>, IsControl(Head(k.input)),
         NEW at, at = Step(k.state), at \in 0..2,
         Head(k.input).kind = Handshake[at + 1],
         NEW h, h.input = Tail(k.input), Step(h.state) = at + 1,
         h.out = IF at = 0 THEN Append(k.out, "ACCEPT")
                 ELSE IF at = 1 THEN k.out ELSE Append(k.out, "FINISH")
  PROVE  Hand(s, h, g)
<1> DEFINE n == Len(s) - Len(k.input)
<1>0. Suffix(s, k)
  BY DEF Hand
<1>1. n \in Nat /\ Head(k.input) = s[n + 1]
  BY <1>0, HeadOfSuffix
<1>2. Suffix(s, h) /\ Len(s) - Len(h.input) = n + 1
  BY <1>0, TakeFrame
<1>3. ControlsIn(s, n) = at /\ InOrder(s, n) /\ g \o k.out = Answers(at)
  BY DEF Hand
<1>4. ControlsIn(s, n + 1) = at + 1
  <2> HIDE DEF n
  <2>1. QED
    BY <1>1, <1>3, OneFrameMore
<1>5. InOrder(s, n + 1)
  <2> HIDE DEF n
  <2>1. ASSUME NEW t \in 1..(n + 1), IsControl(s[t])
        PROVE  ControlsIn(s, t) \in 1..3 /\ s[t].kind = Handshake[ControlsIn(s, t)]
    <3>1. CASE t = n + 1
      BY <1>1, <1>4, <3>1
    <3>2. CASE t # n + 1
      <4>1. t \in 1..n
        BY <1>1, <3>2
      <4>2. QED
        BY <1>3, <2>1, <4>1 DEF InOrder
    <3>3. QED
      BY <3>1, <3>2
  <2>2. QED
    BY <2>1 DEF InOrder
<1>6. g \o h.out = Answers(at + 1)
  <2>1. k.out \in Seq({"ACCEPT", "FINISH"})
    BY DEF Connection
  <2>2. CASE at = 1
    <3>1. h.out = k.out /\ Answers(at + 1) = Answers(at)
      BY <2>2 DEF Answers
    <3>2. QED
      BY ONLY <1>3, <3>1
  <2>3. CASE at = 0
    <3>1. h.out = Append(k.out, "ACCEPT") /\ at + 1 = 1
      BY <2>3
    <3>2. g \o k.out = Answers(0)
      BY <1>3, <2>3
    <3>3. QED
      BY <2>1, <3>1, <3>2, AnswersGrow, Zenon
  <2>4. CASE at = 2
    <3>1. h.out = Append(k.out, "FINISH") /\ at + 1 = 3
      BY <2>4
    <3>2. g \o k.out = Answers(2)
      BY <1>3, <2>4
    <3>3. QED
      BY <2>1, <3>1, <3>2, AnswersGrow, Zenon
  <2>a. at = 0 \/ at = 1 \/ at = 2
    BY at \in 0..2
  <2>5. QED
    BY ONLY <2>a, <2>2, <2>3, <2>4
<1> HIDE DEF n
<1>7. QED
  BY <1>2, <1>4, <1>5, <1>6 DEF Hand

----------------------------------------------------------------------------
\* How far the handshake has got, by the state.
LEMMA StepIs ==
  /\ Step("CONTROL_READY") = 0 /\ Step("CONTROL_START") = 1
  /\ Step("DATA") = 2 /\ Step("STOPPED") = 3
  /\ \A st \in ConnStates : /\ Step(st) = 0 => st = "CONTROL_READY"
                            /\ Step(st) = 1 => st = "CONTROL_START"
                            /\ Step(st) = 2 => st = "DATA"
                            /\ Step(st) = 3 => st = "STOPPED"
  /\ Handshake[1] = "ready" /\ Handshake[2] = "start" /\ Handshake[3] = "stop"
<1>1. /\ Step("CONTROL_READY") = 0 /\ Step("CONTROL_START") = 1
      /\ Step("DATA") = 2 /\ Step("STOPPED") = 3
  BY DEF Step
<1>2. QED
  BY <1>1 DEF Handshake, ConnStates

\* In a stream that keeps to the protocol, the control frame at which the reader
\* is, is the one that its state asks for.
LEMMA NextIsExpected ==
  ASSUME NEW s \in Seq(Frame), NEW k \in Connection, NEW g, Hand(s, k, g), k.input # <<>>,
         IsControl(Head(k.input)), ControlsIn(s, Len(s)) = 3, InOrder(s, Len(s)),
         \A t \in 1..Len(s) : match_content_type(s[t])
  PROVE  /\ Step(k.state) \in 0..2
         /\ Head(k.input).kind = Handshake[Step(k.state) + 1]
         /\ match_content_type(Head(k.input))
<1> DEFINE n == Len(s) - Len(k.input)
           at == Step(k.state)
<1>1. Suffix(s, k) /\ ControlsIn(s, n) = at
  BY DEF Hand
<1>2. n \in Nat /\ n + 1 \in 1..Len(s) /\ Head(k.input) = s[n + 1]
  BY <1>1, HeadOfSuffix
<1>3. Len(s) \in Nat
  OBVIOUS
<1> HIDE DEF n, at
<1>4. ControlsIn(s, n + 1) = at + 1 /\ at \in Nat
  BY <1>1, <1>2, OneFrameMore
<1>5. ControlsIn(s, n + 1) <= 3
  BY <1>2, <1>3, OneFrameMore
<1>6. s[n + 1].kind = Handshake[at + 1] /\ match_content_type(s[n + 1])
  BY <1>2, <1>4 DEF InOrder
<1>7. QED
  BY <1>2, <1>4, <1>5, <1>6 DEF at

\* Nothing was sent on a connection that is not there yet.
NothingSent == \A c \in Conns : status[c] = "absent" => got[c] = <<>>

HandInv == AllHand /\ NothingSent /\ FinishDelivered

\* A step concerns one connection.
LEMMA OneHand ==
  ASSUME HandInv, NEW c \in Conns,
         \A d \in Conns \ {c} : /\ conn'[d] = conn[d] /\ status'[d] = status[d]
                                /\ script'[d] = script[d] /\ got'[d] = got[d]
                                /\ gone'[d] = gone[d],
         status'[c] # "absent",
         status'[c] = "open" => Hand(script'[c], conn'[c], got'[c]),
         status'[c] = "closed" /\ KeepsProtocol(c)' => got'[c] = <<"ACCEPT", "FINISH">>
  PROVE  HandInv'
<1>1. \A d \in Conns : status'[d] = "open" => Hand(script'[d], conn'[d], got'[d])
  BY DEF HandInv, AllHand, Open
<1>2. AllHand'
  BY <1>1 DEF AllHand, Open
<1>3. NothingSent'
  BY DEF HandInv, NothingSent
<1>4. \A d \in Conns \ {c} : KeepsProtocol(d)' => KeepsProtocol(d)
  BY DEF KeepsProtocol
<1>5. FinishDelivered'
  BY <1>4 DEF HandInv, FinishDelivered
<1>6. QED
  BY <1>2, <1>3, <1>5 DEF HandInv

\* The connection of a callback changes; peer and status stay.
LEMMA UpdateHand ==
  ASSUME DnstapTypeOK, HandInv, NEW c \in Conns, status[c] = "open", NEW k,
         conn' = [conn EXCEPT ![c] = k], UNCHANGED <<status, script, gone>>,
         \A d \in Conns \ {c} : got'[d] = got[d],
         Hand(script[c], k, got'[c])
  PROVE  HandInv'
<1>1. conn'[c] = k /\ \A d \in Conns \ {c} : conn'[d] = conn[d]
  BY DEF DnstapTypeOK
<1>2. QED
  BY <1>1, OneHand

\* The connection is closed.
LEMMA CloseHand ==
  ASSUME DnstapTypeOK, HandInv, NEW c \in Conns, cb_close_conn(c), script' = script,
         \A d \in Conns \ {c} : got'[d] = got[d] /\ gone'[d] = gone[d],
         KeepsProtocol(c)' => got'[c] = <<"ACCEPT", "FINISH">>
  PROVE  HandInv'
<1>1. status'[c] = "closed" /\ \A d \in Conns \ {c} : conn'[d] = conn[d] /\ status'[d] = status[d]
  BY DEF cb_close_conn, DnstapTypeOK
<1>2. QED
  BY <1>1, OneHand

\* cb_read() goes on, or returns, with the same output and nothing sent.
LEMMA ReadHand ==
  ASSUME DnstapTypeOK, HandInv, NEW c \in Conns, status[c] = "open",
         UNCHANGED <<status, script, gone, got>>,
         NEW k, conn' = [conn EXCEPT ![c] = k],
         Hand(script[c], k, got[c])
  PROVE  HandInv'
BY UpdateHand

\* What is sent and what is still to be sent, together, stay the same.
LEMMA WritesKeep ==
  ASSUME NEW g \in Seq({"ACCEPT", "FINISH"}), NEW o \in Seq({"ACCEPT", "FINISH"})
  PROVE  /\ (g \o o) \o <<>> = g \o o
         /\ o # <<>> => Append(g, Head(o)) \o Tail(o) = g \o o
<1> DEFINE A == {"ACCEPT", "FINISH"}
<1>1. g \o o \in Seq(A)
  BY ConcatProperties
<1>2. (g \o o) \o <<>> = g \o o
  BY <1>1, ConcatEmptySeq
<1>3. ASSUME o # <<>>
      PROVE  Append(g, Head(o)) \o Tail(o) = g \o o
  <2>1. /\ Head(o) \in A /\ Tail(o) \in Seq(A) /\ <<Head(o)>> \in Seq(A)
    BY <1>3, HeadTailProperties
  <2>2. o = <<Head(o)>> \o Tail(o)
    <3>1. /\ Len(o) \in Nat \ {0} /\ Head(o) = o[1]
      BY <1>3
    <3>2. Tail(o) = SubSeq(o, 2, Len(o)) /\ SubSeq(o, 1, Len(o)) = o
      BY <1>3, TailIsSubSeq, SubSeqFull
    <3>3. SubSeq(o, 1, Len(o)) = <<o[1]>> \o SubSeq(o, 1 + 1, Len(o))
      BY <3>1, SubSeqRecursiveFirst
    <3>4. QED
      BY <3>1, <3>2, <3>3
  <2>3. Append(g, Head(o)) = g \o <<Head(o)>>
    BY <2>1, AppendIsConcat
  <2>4. (g \o <<Head(o)>>) \o Tail(o) = g \o (<<Head(o)>> \o Tail(o))
    BY <2>1, ConcatAssociative
  <2>5. QED
    BY <2>2, <2>3, <2>4, Zenon
<1>4. QED
  BY <1>2, <1>3

\* The handshake, step by step.
LEMMA HandStep ==
  ASSUME DnstapTypeOK, AllGood, HandInv, [DnstapNext]_vars
  PROVE  HandInv'
<1>0. \A c \in Conns :
        /\ conn[c] \in Connection /\ script[c] \in Seq(Frame)
        /\ got[c] \in Seq({"ACCEPT", "FINISH"})
        /\ conn[c].out \in Seq({"ACCEPT", "FINISH"})
        /\ conn[c].input \in Seq(Frame) /\ conn[c].state \in ConnStates
  BY DEF DnstapTypeOK, Connection
<1>h. \A c \in Conns : status[c] = "open" => Hand(script[c], conn[c], got[c])
  BY DEF HandInv, AllHand, Open
<1>c. \A c \in Conns : cb = c => status[c] = "open"
  BY DEF DnstapTypeOK
<1>1. ASSUME NEW c \in Conns, cb_accept_conn(c)
      PROVE  HandInv'
  <2>1. PICK s \in Streams[c] :
          /\ script' = [script EXCEPT ![c] = s]
          /\ conn' = [conn EXCEPT ![c] = [conn_init EXCEPT !.input = s]]
    BY <1>1 DEF cb_accept_conn
  <2>2. s \in Seq(Frame)
    BY StreamsAssumption
  <2> DEFINE k == [conn_init EXCEPT !.input = s]
  <2>3. k.input = s /\ k.state = "CONTROL_READY" /\ k.out = <<>>
    BY DEF conn_init
  <2>4. status[c] = "absent" /\ got[c] = <<>> /\ got' = got /\ gone' = gone
    BY <1>1 DEF cb_accept_conn, HandInv, NothingSent
  <2>5. conn'[c] = k /\ script'[c] = s /\ status'[c] = "open"
    BY <1>1, <2>1 DEF cb_accept_conn, DnstapTypeOK
  <2>6. \A d \in Conns \ {c} : conn'[d] = conn[d] /\ status'[d] = status[d] /\ script'[d] = script[d]
    BY <1>1, <2>1 DEF cb_accept_conn, DnstapTypeOK
  <2> HIDE DEF k
  <2>7. Hand(s, k, <<>>)
    <3>1. Len(s) \in Nat /\ Len(s) - Len(k.input) = 0
      BY <2>2, <2>3
    <3>2. Suffix(s, k)
      BY <2>3, <3>1 DEF Suffix
    <3>3. ControlsIn(s, 0) = 0
      <4>1. {t \in 1..0 : IsControl(s[t])} = {}
        OBVIOUS
      <4>2. QED
        BY <4>1, FS_EmptySet DEF ControlsIn
    <3>4. InOrder(s, 0)
      BY DEF InOrder
    <3>5. <<>> \o <<>> = Answers(0)
      BY DEF Answers
    <3>6. QED
      BY <2>3, <3>1, <3>2, <3>3, <3>4, <3>5, StepIs DEF Hand
  <2>8. Hand(script'[c], conn'[c], got'[c])
    BY <2>4, <2>5, <2>7
  <2>9. QED
    BY <2>4, <2>5, <2>6, <2>8, OneHand
<1>2. ASSUME NEW c \in Conns, AcceptFails(c)
      PROVE  HandInv'
  <2>1. /\ status'[c] = "closed" /\ gone'[c] = TRUE
        /\ \A d \in Conns \ {c} : status'[d] = status[d] /\ gone'[d] = gone[d]
        /\ UNCHANGED <<conn, script, got>>
    BY <1>2 DEF AcceptFails, DnstapTypeOK
  <2>2. ~KeepsProtocol(c)'
    BY <2>1 DEF KeepsProtocol
  <2>3. QED
    BY <2>1, <2>2, OneHand
<1>3. ASSUME NEW c \in Conns, PeerGone(c)
      PROVE  HandInv'
  <2>1. /\ cb_close_conn(c) /\ gone'[c] = TRUE /\ UNCHANGED <<script, got>>
        /\ \A d \in Conns \ {c} : gone'[d] = gone[d]
    BY <1>3 DEF PeerGone, DnstapTypeOK
  <2>2. ~KeepsProtocol(c)'
    BY <2>1 DEF KeepsProtocol
  <2>3. QED
    BY <2>1, <2>2, CloseHand
<1>4. ASSUME NEW c \in Conns, ReadEvent(c)
      PROVE  HandInv'
  <2>1. PICK n \in ReadRoom(c) : conn' = [conn EXCEPT ![c].len_buf = @ + n]
    BY <1>4 DEF ReadEvent
  <2> DEFINE k == [conn[c] EXCEPT !.len_buf = @ + n]
  <2>2. k.input = conn[c].input /\ k.state = conn[c].state /\ k.out = conn[c].out
    BY <1>0 DEF Connection
  <2>3. conn' = [conn EXCEPT ![c] = k]
    BY <2>1
  <2>4. status[c] = "open" /\ UNCHANGED <<status, script, gone, got>>
    BY <1>4 DEF ReadEvent, peerVars
  <2> HIDE DEF k
  <2>5. Hand(script[c], k, got[c])
    BY <1>h, <2>2, <2>4, HandSame
  <2>6. QED
    BY <2>3, <2>4, <2>5, ReadHand
<1>5. ASSUME NEW c \in Conns, WriteEvent(c)
      PROVE  HandInv'
  <2>1. /\ status[c] = "open" /\ UNCHANGED <<script, gone>>
        /\ got' = [got EXCEPT ![c] = @ \o conn[c].out]
    BY <1>5 DEF WriteEvent, cb_write, peerVars
  <2>2. got'[c] = got[c] \o conn[c].out /\ \A d \in Conns \ {c} : got'[d] = got[d]
    BY <2>1 DEF DnstapTypeOK
  <2>3. CASE conn[c].state = "STOPPED" /\ cb_close_conn(c)
    <3>1. got'[c] = Answers(Step(conn[c].state))
      BY <1>h, <2>1, <2>2 DEF Hand
    <3>2. got'[c] = <<"ACCEPT", "FINISH">>
      BY <2>3, <3>1, StepIs DEF Answers
    <3>3. QED
      BY <2>1, <2>2, <2>3, <3>2, CloseHand
  <2>4. CASE conn' = [conn EXCEPT ![c].out = <<>>] /\ UNCHANGED status
    <3> DEFINE k == [conn[c] EXCEPT !.out = <<>>]
    <3>1. k.input = conn[c].input /\ k.state = conn[c].state /\ k.out = <<>>
      BY <1>0 DEF Connection
    <3>2. conn' = [conn EXCEPT ![c] = k]
      BY <2>4
    <3> HIDE DEF k
    <3>3. got'[c] \o k.out = got[c] \o conn[c].out
      BY <1>0, <2>2, <3>1, WritesKeep
    <3>4. Hand(script[c], k, got'[c])
      BY <1>h, <2>1, <3>1, <3>3, HandSame
    <3>5. QED
      BY <2>1, <2>2, <2>4, <3>2, <3>4, UpdateHand
  <2>5. QED
    BY <1>5, <2>3, <2>4 DEF WriteEvent, cb_write
<1>6. ASSUME NEW c \in Conns, PartialWrite(c)
      PROVE  HandInv'
  <2>1. /\ status[c] = "open" /\ UNCHANGED <<script, gone, status>>
        /\ got' = [got EXCEPT ![c] = Append(@, Head(conn[c].out))]
        /\ conn[c].out # <<>>
    BY <1>0, <1>6 DEF PartialWrite, peerVars
  <2>2. got'[c] = Append(got[c], Head(conn[c].out)) /\ \A d \in Conns \ {c} : got'[d] = got[d]
    BY <2>1 DEF DnstapTypeOK
  <2> DEFINE k == [conn[c] EXCEPT !.out = Tail(@)]
  <2>3. k.input = conn[c].input /\ k.state = conn[c].state /\ k.out = Tail(conn[c].out)
    BY <1>0 DEF Connection
  <2>4. conn' = [conn EXCEPT ![c] = k]
    BY <1>6 DEF PartialWrite
  <2> HIDE DEF k
  <2>5. got'[c] \o k.out = got[c] \o conn[c].out
    <3>1. Append(got[c], Head(conn[c].out)) \o Tail(conn[c].out) = got[c] \o conn[c].out
      BY <1>0, <2>1, WritesKeep DEF Connection
    <3>2. QED
      BY ONLY <3>1, <2>2, <2>3, Zenon
  <2>6. Hand(script[c], k, got'[c])
    BY <1>h, <2>1, <2>3, <2>5, HandSame
  <2>7. QED
    BY <2>1, <2>2, <2>4, <2>6, UpdateHand
<1>7. ASSUME NEW c \in Conns, ReadNothing(c)
      PROVE  HandInv'
  <2>1. conn' = [conn EXCEPT ![c] = conn[c]] /\ UNCHANGED <<status, script, gone, got>> /\ cb = c
    BY <1>7 DEF ReadNothing, DnstapTypeOK, peerVars
  <2>2. QED
    BY <1>c, <1>h, <2>1, ReadHand
<1>8. ASSUME NEW c \in Conns, ReadIncomplete(c)
      PROVE  HandInv'
  <2> DEFINE k == [conn[c] EXCEPT !.bytes_skip = Oversized(c)]
  <2>1. k.input = conn[c].input /\ k.state = conn[c].state /\ k.out = conn[c].out
    BY <1>0 DEF Connection
  <2>2. conn' = [conn EXCEPT ![c] = k] /\ UNCHANGED <<status, script, gone, got>> /\ cb = c
    BY <1>8 DEF ReadIncomplete, AtFrame, peerVars
  <2> HIDE DEF k
  <2>3. status[c] = "open" /\ Hand(script[c], k, got[c])
    BY <1>c, <1>h, <2>1, <2>2, HandSame
  <2>4. QED
    BY <2>2, <2>3, ReadHand
<1>9. ASSUME NEW c \in Conns, ReadBadLength(c) \/ ReadControlFails(c)
      PROVE  HandInv'
  <2> DEFINE f == Current(c)
  <2>1. /\ cb = c /\ cb_close_conn(c) /\ UNCHANGED <<script, gone, got>> /\ conn[c].input # <<>>
        /\ IsControl(f) /\ (f.kind = "badlen" \/ ~Accepted(c, f))
    BY <1>9 DEF ReadBadLength, ReadControlFails, AtControlFrame, AtFrame, peerVars,
       BadLength, IsControl, ControlKinds
  <2>2. ASSUME KeepsProtocol(c)'
        PROVE  FALSE
    <3>1. /\ ControlsIn(script[c], Len(script[c])) = 3
          /\ InOrder(script[c], Len(script[c]))
          /\ \A t \in 1..Len(script[c]) : match_content_type(script[c][t])
      BY <2>1, <2>2 DEF KeepsProtocol
    <3>2. Hand(script[c], conn[c], got[c])
      BY <1>c, <1>h, <2>1
    <3> DEFINE at == Step(conn[c].state)
    <3>3. at \in 0..2 /\ f.kind = Handshake[at + 1] /\ match_content_type(f)
      BY <1>0, <2>1, <3>1, <3>2, NextIsExpected DEF Current
    <3> HIDE DEF at
    <3>4. at = 0 \/ at = 1 \/ at = 2
      BY <3>3
    <3>5. \/ at = 0 /\ f.kind = "ready"
          \/ at = 1 /\ f.kind = "start"
          \/ at = 2 /\ f.kind = "stop"
      BY <3>3, <3>4, StepIs
    <3>6. \/ conn[c].state = "CONTROL_READY" /\ f.kind = "ready"
          \/ conn[c].state = "CONTROL_START" /\ f.kind = "start"
          \/ conn[c].state = "DATA" /\ f.kind = "stop"
      BY <1>0, <3>5, StepIs DEF at
    <3>7. QED
      BY <2>1, <3>3, <3>6 DEF Accepted
  <2>3. QED
    BY <2>1, <2>2, CloseHand
<1>10. ASSUME NEW c \in Conns, cb = c
       PROVE  Good(conn[c], TRUE)
  BY <1>10, <1>c DEF AllGood, Open, Good
<1>11. ASSUME NEW c \in Conns, ReadSkip(c)
       PROVE  HandInv'
  <2> DEFINE n == IF conn[c].bytes_skip > conn[c].len_buf
                  THEN conn[c].len_buf ELSE conn[c].bytes_skip
             d == Drained(conn[c], n)
             k == [d EXCEPT !.bytes_skip = @ - n]
  <2>1. /\ cb = c /\ conn[c].bytes_skip > 0 /\ UNCHANGED <<status, script, gone, got>>
        /\ conn' = [conn EXCEPT ![c] = k]
    BY <1>11 DEF ReadSkip, peerVars
  <2>2. conn[c].len_buf \in Nat /\ conn[c].bytes_skip \in Nat
    BY <1>0 DEF Connection
  <2>3. n \in Nat /\ n <= conn[c].len_buf
    BY <2>2
  <2>4. Good(conn[c], TRUE)
    BY <1>10, <2>1
  <2>5. conn[c].input # <<>> /\ Head(conn[c].input).size > High
    BY <2>1, <2>2, <2>4 DEF Good
  <2>6. ~IsControl(Head(conn[c].input))
    BY <1>0, <2>5, HeadFrame
  <2> HIDE DEF n
  <2>7. d \in Connection /\ d.state = conn[c].state /\ d.out = conn[c].out
        /\ (d.input = conn[c].input \/ d.input = Tail(conn[c].input))
    BY <1>0, <2>3, <2>5, DrainedTyped
  <2> HIDE DEF d
  <2>8. k.input = d.input /\ k.state = d.state /\ k.out = d.out
    BY <2>7 DEF Connection
  <2> HIDE DEF k
  <2>9. status[c] = "open" /\ Hand(script[c], conn[c], got[c])
    BY <1>c, <1>h, <2>1
  <2>10. Hand(script[c], k, got[c])
    <3>1. CASE d.input = conn[c].input
      BY <2>7, <2>8, <2>9, <3>1, HandSame
    <3>2. CASE d.input = Tail(conn[c].input)
      BY <1>0, <2>5, <2>6, <2>7, <2>8, <2>9, <3>2, HandData
    <3>3. QED
      BY <2>7, <3>1, <3>2
  <2>11. QED
    BY <2>1, <2>9, <2>10, ReadHand
<1>12. ASSUME NEW c \in Conns, AtFrame(c), FullFrame(c)
       PROVE  LET d == Drained(conn[c], Current(c).size)
              IN  /\ cb = c /\ conn[c].input # <<>> /\ status[c] = "open"
                  /\ d \in Connection
                  /\ d.state = conn[c].state /\ d.out = conn[c].out
                  /\ d.input = Tail(conn[c].input)
  <2> DEFINE n == Current(c).size
  <2>1. cb = c /\ conn[c].bytes_skip = 0 /\ conn[c].input # <<>> /\ conn[c].len_buf >= n
    BY <1>12 DEF AtFrame, FullFrame
  <2>2. conn[c].taken = 0
    BY <1>0, <1>10, <2>1 DEF Good, Connection
  <2>3. n \in Nat /\ n = Head(conn[c].input).size
    BY <1>0, <2>1, HeadFrame DEF Current
  <2>4. conn[c].len_buf \in Nat
    BY <1>0 DEF Connection
  <2> HIDE DEF n
  <2>5. n <= conn[c].len_buf /\ ~(conn[c].taken + n < Head(conn[c].input).size)
    BY <2>1, <2>2, <2>3, <2>4
  <2>6. /\ Drained(conn[c], n) \in Connection
        /\ Drained(conn[c], n).state = conn[c].state
        /\ Drained(conn[c], n).out = conn[c].out
        /\ Drained(conn[c], n).input = Tail(conn[c].input)
    BY <1>0, <2>1, <2>3, <2>5, DrainedTyped
  <2>7. QED
    BY <1>c, <2>1, <2>6 DEF n
<1>13. ASSUME NEW c \in Conns, ReadDataFrame(c)
       PROVE  HandInv'
  <2> DEFINE k == Drained(conn[c], Current(c).size)
  <2>1. /\ AtFrame(c) /\ FullFrame(c) /\ ~IsControl(Head(conn[c].input))
        /\ conn' = [conn EXCEPT ![c] = k] /\ UNCHANGED <<status, script, gone, got>>
    BY <1>13 DEF ReadDataFrame, Current, peerVars
  <2>2. /\ conn[c].input # <<>> /\ status[c] = "open"
        /\ k.state = conn[c].state /\ k.out = conn[c].out
        /\ k.input = Tail(conn[c].input)
    BY <1>12, <2>1
  <2> HIDE DEF k
  <2>3. Hand(script[c], k, got[c])
    BY <1>0, <1>h, <2>1, <2>2, HandData
  <2>4. QED
    BY <2>1, <2>2, <2>3, ReadHand
<1>14. ASSUME NEW c \in Conns, ReadControlFrame(c)
       PROVE  HandInv'
  <2> DEFINE f == Current(c)
             d == Drained(conn[c], f.size)
             k == Process(d, f)
             at == Step(conn[c].state)
  <2>1. /\ AtFrame(c) /\ FullFrame(c) /\ IsControl(f) /\ Accepted(c, f)
        /\ conn' = [conn EXCEPT ![c] = k] /\ UNCHANGED <<status, script, gone, got>>
    BY <1>14 DEF ReadControlFrame, AtControlFrame, peerVars
  <2>2. /\ conn[c].input # <<>> /\ status[c] = "open"
        /\ d \in Connection /\ d.state = conn[c].state /\ d.out = conn[c].out
        /\ d.input = Tail(conn[c].input)
    BY <1>12, <2>1
  <2> HIDE DEF d
  <2>3. f = Head(conn[c].input) /\ f \in Frame
    BY <1>0, <2>2, HeadFrame DEF Current
  <2> HIDE DEF f
  <2>4. k.input = d.input
    BY <2>2, <2>3, ProcessTyped
  <2>5. CASE conn[c].state = "CONTROL_READY" /\ f.kind = "ready"
    <3>1. k = [d EXCEPT !.state = "CONTROL_START", !.out = Append(@, "ACCEPT")]
      BY <2>5 DEF Process
    <3>2. k.state = "CONTROL_START" /\ k.out = Append(d.out, "ACCEPT")
      BY <2>2, <3>1 DEF Connection
    <3>3. at = 0 /\ Step(k.state) = at + 1 /\ f.kind = Handshake[at + 1]
      BY <2>5, <3>2, StepIs
    <3> HIDE DEF k, at
    <3>4. at \in 0..2 /\ at = Step(conn[c].state)
      BY <3>3 DEF at
    <3>5. Hand(script[c], k, got[c])
      BY <1>0, <1>h, <2>1, <2>2, <2>3, <2>4, <3>2, <3>3, <3>4, HandControl
    <3>6. QED
      BY <2>1, <2>2, <3>5, ReadHand
  <2>6. CASE conn[c].state = "CONTROL_START" /\ f.kind = "start"
    <3>1. k = [d EXCEPT !.state = "DATA"]
      BY <2>6 DEF Process
    <3>2. k.state = "DATA" /\ k.out = d.out
      BY <2>2, <3>1 DEF Connection
    <3>3. at = 1 /\ Step(k.state) = at + 1 /\ f.kind = Handshake[at + 1]
      BY <2>6, <3>2, StepIs
    <3> HIDE DEF k, at
    <3>4. at \in 0..2 /\ at = Step(conn[c].state)
      BY <3>3 DEF at
    <3>5. Hand(script[c], k, got[c])
      <4>1. k.out = IF at = 0 THEN Append(conn[c].out, "ACCEPT")
                    ELSE IF at = 1 THEN conn[c].out ELSE Append(conn[c].out, "FINISH")
        BY <2>2, <3>2, <3>3
      <4>2. /\ k.input = Tail(conn[c].input) /\ Step(k.state) = at + 1
            /\ Head(conn[c].input).kind = Handshake[at + 1]
            /\ IsControl(Head(conn[c].input)) /\ conn[c].input # <<>>
        BY <2>1, <2>2, <2>3, <2>4, <3>3
      <4>3. /\ script[c] \in Seq(Frame) /\ conn[c] \in Connection
            /\ got[c] \in Seq({"ACCEPT", "FINISH"}) /\ Hand(script[c], conn[c], got[c])
        BY <1>0, <1>h, <2>2
      <4>4. QED
        BY ONLY <3>4, <4>1, <4>2, <4>3, HandControl
    <3>6. QED
      BY <2>1, <2>2, <3>5, ReadHand
  <2>7. CASE conn[c].state = "DATA" /\ f.kind = "stop"
    <3>1. k = [d EXCEPT !.state = "STOPPED", !.out = Append(@, "FINISH")]
      BY <2>7 DEF Process
    <3>2. k.state = "STOPPED" /\ k.out = Append(d.out, "FINISH")
      BY <2>2, <3>1 DEF Connection
    <3>3. at = 2 /\ Step(k.state) = at + 1 /\ f.kind = Handshake[at + 1]
      BY <2>7, <3>2, StepIs
    <3> HIDE DEF k, at
    <3>4. at \in 0..2 /\ at = Step(conn[c].state)
      BY <3>3 DEF at
    <3>5. Hand(script[c], k, got[c])
      <4>1. k.out = IF at = 0 THEN Append(conn[c].out, "ACCEPT")
                    ELSE IF at = 1 THEN conn[c].out ELSE Append(conn[c].out, "FINISH")
        BY <2>2, <3>2, <3>3
      <4>2. /\ k.input = Tail(conn[c].input) /\ Step(k.state) = at + 1
            /\ Head(conn[c].input).kind = Handshake[at + 1]
            /\ IsControl(Head(conn[c].input)) /\ conn[c].input # <<>>
        BY <2>1, <2>2, <2>3, <2>4, <3>3
      <4>3. /\ script[c] \in Seq(Frame) /\ conn[c] \in Connection
            /\ got[c] \in Seq({"ACCEPT", "FINISH"}) /\ Hand(script[c], conn[c], got[c])
        BY <1>0, <1>h, <2>2
      <4>4. QED
        BY ONLY <3>4, <4>1, <4>2, <4>3, HandControl
    <3>6. QED
      BY <2>1, <2>2, <3>5, ReadHand
  <2>8. QED
    BY <2>1, <2>5, <2>6, <2>7 DEF Accepted
<1>15. CASE UNCHANGED <<status, conn, script, got, gone>>
  BY <1>15 DEF HandInv, AllHand, Open, NothingSent, FinishDelivered, KeepsProtocol
<1>17. ASSUME NEW c \in Conns, ReadUnaddressed(c)
       PROVE  HandInv'
  <2>1. Open' = {} /\ UNCHANGED <<script, gone, got>>
    BY <1>17, ProcessEnds DEF ReadUnaddressed, peerVars
  <2>2. \A d \in Conns : /\ status'[d] = "absent" => status[d] = "absent"
                         /\ status'[d] = "closed" => status[d] = "closed"
    BY <1>17 DEF ReadUnaddressed
  <2>3. AllHand'
    BY <2>1 DEF AllHand
  <2>4. NothingSent'
    BY <2>1, <2>2 DEF HandInv, NothingSent
  <2>5. FinishDelivered'
    BY <2>1, <2>2 DEF HandInv, FinishDelivered, KeepsProtocol
  <2>6. QED
    BY <2>3, <2>4, <2>5 DEF HandInv
<1>16. QED
  BY <1>1, <1>2, <1>3, <1>4, <1>5, <1>6, <1>7, <1>8, <1>9, <1>11, <1>13, <1>14, <1>15, <1>17
     DEF DnstapNext, ReadLoop, vars, peerVars, instrumentation_event

\* The strengthened invariant of the handshake: the rest of every stream is its
\* end, and what was read and answered of it is a beginning of the handshake.
THEOREM HandshakeInvariant == DnstapSpec => []HandInv
<1>1. DnstapInit => HandInv
  BY DEF DnstapInit, HandInv, AllHand, Open, NothingSent, FinishDelivered
<1>2. DnstapTypeOK /\ AllGood /\ HandInv /\ [DnstapNext]_vars => HandInv'
  BY HandStep
<1>3. QED
  BY DnstapInvariant, <1>1, <1>2, PTL DEF DnstapSpec

\* Whatever a peer sends and however it is cut: the state of a connection, and the
\* answers to its peer, are those of the control frames that were read.
THEOREM HandshakeFollowsHolds == DnstapSpec => []HandshakeFollows
<1>1. HandInv => HandshakeFollows
  BY DEF HandInv, AllHand, Hand, HandshakeFollows, Taken
<1>2. QED
  BY HandshakeInvariant, <1>1, PTL

\* cb_read() and cb_write() close no connection of a peer that keeps to the
\* protocol before it received ACCEPT and FINISH.
THEOREM FinishDeliveredHolds == DnstapSpec => []FinishDelivered
<1>1. HandInv => FinishDelivered
  BY DEF HandInv
<1>2. QED
  BY HandshakeInvariant, <1>1, PTL

=============================================================================
