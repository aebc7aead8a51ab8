----------------------------- MODULE SearchJob -----------------------------
(***************************************************************************)
(* perform_search_job() of honas_search: a search job, a JSON document, is *)
(* read by yajl, which calls back for each of its elements; the callbacks  *)
(* look the host name hashes of the job up in a loaded state and print the *)
(* result, another JSON document, as they go.  What is printed is printed: *)
(* a group's object is opened at the first hit and closed at its end.      *)
(*                                                                         *)
(* The job is any JSON document whatever, and of any length: each element  *)
(* of it is chosen when yajl gets to it.  A callback that returns 0, a     *)
(* document that is no JSON, and log_die() end the program with exit(1).   *)
(***************************************************************************)
EXTENDS JsonPrinter, FiniteSets

CONSTANTS
  Hashes,                       \* host name hashes, as text
  Hits,                         \* Hits[h]: the filters that contain h
  Undecodable,                  \* text that is not hexadecimal
  Ids,                          \* group ids in a job
  number_of_filters,
  number_of_filters_per_user

ASSUME SearchAssumption ==
  /\ number_of_filters \in Nat \ {0}
  /\ number_of_filters_per_user \in 1..number_of_filters
  /\ Hits \in [Hashes -> SUBSET (1..number_of_filters)]
  /\ Undecodable \notin Hashes
  /\ Ids \subseteq Nat
  /\ Names \cap {"groups", "id", "hostnames", "hits_by_all_hostnames"} = {}

VARIABLES
  status,       \* of the program: "running", "done" (exit(0)) or "failed" (exit(1))
  nest,         \* yajl: the objects and arrays it is in, and what may follow
  state,        \* ctx->state
  group_id, group_has_results, group_all_host_names_found,
  group_filters_hit, host_name_filters_hit, host_name_key,
  flatten_results,
  printer,
  \* What the current group asked for and what was answered: not in the program.
  asked, answered

groupVars == <<group_id, group_has_results, group_all_host_names_found,
               group_filters_hit, host_name_filters_hit>>

vars == <<status, nest, state, groupVars, host_name_key, flatten_results, printer,
          asked, answered>>

\* flatten_results is fixed by the state's estimate and the threshold.
SearchInit ==
  /\ status = "running"
  /\ nest = <<"top">>
  /\ state = "INIT"
  /\ group_id = 0
  /\ group_has_results = FALSE
  /\ group_all_host_names_found = FALSE
  /\ group_filters_hit = {}
  /\ host_name_filters_hit = {}
  /\ host_name_key = ""
  /\ flatten_results \in BOOLEAN
  /\ printer = json_printer_begin
  /\ asked = {}
  /\ answered = {}

----------------------------------------------------------------------------
(* yajl.  nest: for each open object or array whether a key ("key"), the     *)
(* value of a key ("val") or an element ("elem") may follow; below them the *)
(* document itself: to come ("top"), an object ("object") or another value. *)

Here == nest[Len(nest)]

ValueMayFollow == status = "running" /\ Here \in {"top", "val", "elem"}

\* The place after a value.
AfterValue(kind) ==
  [nest EXCEPT ![Len(nest)] = CASE Here = "top" -> kind
                                [] Here = "val" -> "key"
                                [] OTHER -> "elem"]

Opened(place) == Append(AfterValue("object"), place)

Closed == SubSeq(nest, 1, Len(nest) - 1)

\* A callback returned 0: yajl stops and perform_search_job() calls exit(1).
Refuse ==
  /\ status' = "failed"
  /\ UNCHANGED <<nest, state, groupVars, host_name_key, flatten_results, printer,
                 asked, answered>>

\* The numbers that the last callback printed are forgotten.
Fresh == [printer EXCEPT !.members = <<>>]

\* A callback prints; log_die() in it ends the program.
Emit(p) ==
  /\ printer' = p
  /\ status' = IF p.died THEN "failed" ELSE "running"

Silent == printer' = Fresh /\ UNCHANGED status

----------------------------------------------------------------------------
(* add_general_information()                                               *)

GeneralKeys ==
  <<"node_version", "state_file_version", "period_begin", "first_request", "last_request",
    "period_end", "estimated_number_of_clients", "estimated_number_of_host_names",
    "number_of_requests", "number_of_filters", "number_of_filters_per_user",
    "number_of_hashes", "number_of_bits_per_filter", "flatten_threshold">>

FilterKeys ==
  <<"number_of_bits_set", "estimated_number_of_host_names", "actual_false_positive_rate">>

Pairs(p, keys) ==
  LET printed[t \in 0..Len(keys)] ==
        IF t = 0 THEN p ELSE json_printer_object_pair(printed[t - 1], keys[t])
  IN  printed[Len(keys)]

FilterInformation(p) ==
  LET printed[i \in 0..number_of_filters] ==
        IF i = 0
        THEN p
        ELSE json_printer_object_end(Pairs(json_printer_object_begin(printed[i - 1]), FilterKeys))
  IN  printed[number_of_filters]

add_general_information(p) ==
  json_printer_array_end(FilterInformation(json_printer_array_begin(
    json_printer_object_key(Pairs(p, GeneralKeys), "filters"))))

----------------------------------------------------------------------------
(* The callbacks, one for each element of the job.                         *)

search_spec_integer(id) ==
  /\ ValueMayFollow
  /\ IF state # "GROUP_EXPECT_ID"
     THEN Refuse
     ELSE /\ nest' = AfterValue("scalar")
          /\ group_id' = id
          /\ state' = "GROUP"
          /\ Silent
          /\ UNCHANGED <<group_has_results, group_all_host_names_found, group_filters_hit,
                         host_name_filters_hit, host_name_key, flatten_results,
                         asked, answered>>

\* null, true, false and numbers with a fraction have no callback.
NoCallback ==
  /\ ValueMayFollow
  /\ nest' = AfterValue("scalar")
  /\ Silent
  /\ UNCHANGED <<state, groupVars, host_name_key, flatten_results, asked, answered>>

Flattened(hits) ==
  IF ~flatten_results THEN hits ELSE IF hits < number_of_filters_per_user THEN 0 ELSE 1

\* The first hit of a group opens its object.
GroupOpened(p) ==
  json_printer_object_begin(json_printer_object_key(json_printer_object_begin(p), "hostnames"))

\* Where honas_state_check_host_name_lookups() puts the filters that were hit.
IntoGroup == group_all_host_names_found /\ ~group_has_results
IntoHostName == group_all_host_names_found /\ group_has_results

\* A hash that can be decoded.
Process(h) ==
  LET hits == Flattened(Cardinality(Hits[h]))
      opened == IF group_has_results THEN Fresh ELSE GroupOpened(Fresh)
      stored == IF IntoGroup THEN Hits[h] ELSE group_filters_hit
  IN  /\ host_name_filters_hit' = IF IntoHostName THEN Hits[h] ELSE host_name_filters_hit
      /\ IF hits > 0
         THEN /\ group_has_results' = TRUE
              /\ group_filters_hit' =
                   IF IntoHostName THEN group_filters_hit \cap Hits[h] ELSE stored
              /\ Emit(json_printer_object_pair_uint(opened, host_name_key, hits))
              /\ UNCHANGED group_all_host_names_found
         ELSE /\ group_all_host_names_found' = FALSE
              /\ group_filters_hit' = stored
              /\ Silent
              /\ UNCHANGED group_has_results
      /\ answered' = answered \cup {printer'.members[t] : t \in 1..Len(printer'.members)}
      /\ asked' = asked \cup {<<host_name_key, h>>}

search_spec_string(text) ==
  /\ ValueMayFollow
  /\ IF state # "HOST_NAME_MAP_EXPECT_VALUE"
     THEN Refuse
     ELSE /\ nest' = AfterValue("scalar")
          /\ state' = "HOST_NAME_MAP"
          /\ \/ text \in Hashes /\ Process(text)
             \/ /\ text = Undecodable
                /\ Silent
                /\ UNCHANGED <<group_has_results, group_all_host_names_found,
                               group_filters_hit, host_name_filters_hit, asked, answered>>
          /\ UNCHANGED <<group_id, host_name_key, flatten_results>>

\* As it would be if keys were recognised in every object.
KeyLeadsAnywhere(k) ==
  CASE k = "groups" -> "SEARCH_SPEC_EXPECT_GROUPS_ARRAY"
    [] k = "id" -> "GROUP_EXPECT_ID"
    [] k = "hostnames" -> "GROUP_EXPECT_HOST_NAME_MAP"
    [] state = "HOST_NAME_MAP" -> "HOST_NAME_MAP_EXPECT_VALUE"
    [] OTHER -> state

\* The state a key leads to; an unknown key leaves it as it is.
KeyLeadsTo(k) ==
  CASE state = "SEARCH_SPEC" /\ k = "groups" -> "SEARCH_SPEC_EXPECT_GROUPS_ARRAY"
    [] state = "GROUP" /\ k = "id" -> "GROUP_EXPECT_ID"
    [] state = "GROUP" /\ k = "hostnames" -> "GROUP_EXPECT_HOST_NAME_MAP"
    [] state = "HOST_NAME_MAP" -> "HOST_NAME_MAP_EXPECT_VALUE"
    [] OTHER -> state

Keys == Names \cup {"groups", "id", "hostnames"}

\* The keys of host names are taken from Names.
search_spec_map_key(k) ==
  /\ status = "running" /\ Here = "key"
  /\ IF state \notin {"SEARCH_SPEC", "GROUP", "HOST_NAME_MAP"}
     THEN Refuse
     ELSE /\ state = "HOST_NAME_MAP" => k \in Names
          /\ nest' = [nest EXCEPT ![Len(nest)] = "val"]
          /\ state' = KeyLeadsTo(k)
          /\ host_name_key' = IF state = "HOST_NAME_MAP" THEN k ELSE host_name_key
          /\ Silent
          /\ UNCHANGED <<groupVars, flatten_results, asked, answered>>

\* As it would be if a group inherited what the one before it had found.
GroupKept ==
  /\ group_id' = 0
  /\ group_all_host_names_found' = TRUE
  /\ asked' = {}
  /\ answered' = {}
  /\ UNCHANGED <<group_has_results, group_filters_hit, host_name_filters_hit>>

\* A group starts: nothing of it has been found or printed yet.
GroupReset ==
  /\ group_id' = 0
  /\ group_has_results' = FALSE
  /\ group_all_host_names_found' = TRUE
  /\ asked' = {}
  /\ answered' = {}
  /\ UNCHANGED <<group_filters_hit, host_name_filters_hit>>

search_spec_start_map ==
  /\ ValueMayFollow
  /\ \/ /\ state = "INIT"
        /\ Emit(add_general_information(json_printer_object_begin(Fresh)))
        /\ state' = "SEARCH_SPEC"
        /\ UNCHANGED <<groupVars, asked, answered>>
     \/ /\ state = "GROUPS_ARRAY"
        /\ GroupReset
        /\ Silent
        /\ state' = "GROUP"
     \/ /\ state = "GROUP_EXPECT_HOST_NAME_MAP"
        /\ Silent
        /\ state' = "HOST_NAME_MAP"
        /\ UNCHANGED <<groupVars, asked, answered>>
  /\ nest' = Opened("key")
  /\ UNCHANGED <<host_name_key, flatten_results>>

RefuseStartMap ==
  /\ ValueMayFollow
  /\ state \notin {"INIT", "GROUPS_ARRAY", "GROUP_EXPECT_HOST_NAME_MAP"}
  /\ Refuse

\* As it would be if the hits of the hashes that were found were enough.
GroupResultFound(p) ==
  LET hits == Flattened(Cardinality(group_filters_hit))
  IN  json_printer_object_end(
        json_printer_object_pair_uint(
          json_printer_object_pair_uint(json_printer_object_end(p), "id", group_id),
          "hits_by_all_hostnames", hits))

\* The end of a group that had hits.
GroupResult(p) ==
  LET hits == Flattened(Cardinality(group_filters_hit))
  IN  json_printer_object_end(
        json_printer_object_pair_uint(
          json_printer_object_pair_uint(json_printer_object_end(p), "id", group_id),
          "hits_by_all_hostnames", IF group_all_host_names_found THEN hits ELSE 0))

search_spec_end_map ==
  /\ status = "running" /\ Here = "key"
  /\ \/ /\ state = "SEARCH_SPEC"
        /\ Emit(json_printer_object_end(Fresh))
        /\ state' = "INIT"
     \/ /\ state = "GROUP"
        /\ IF group_has_results THEN Emit(GroupResult(Fresh)) ELSE Silent
        /\ state' = "GROUPS_ARRAY"
     \/ /\ state = "HOST_NAME_MAP"
        /\ Silent
        /\ state' = "GROUP"
  /\ nest' = Closed
  /\ UNCHANGED <<groupVars, host_name_key, flatten_results, asked, answered>>

RefuseEndMap ==
  /\ status = "running" /\ Here = "key"
  /\ state \notin {"SEARCH_SPEC", "GROUP", "HOST_NAME_MAP"}
  /\ Refuse

search_spec_start_array ==
  /\ ValueMayFollow
  /\ IF state # "SEARCH_SPEC_EXPECT_GROUPS_ARRAY"
     THEN Refuse
     ELSE /\ Emit(json_printer_array_begin(
               json_printer_object_key(
                 json_printer_object_pair(Fresh, "flattened_results"), "groups")))
          /\ state' = "GROUPS_ARRAY"
          /\ nest' = Opened("elem")
          /\ UNCHANGED <<groupVars, host_name_key, flatten_results, asked, answered>>

search_spec_end_array ==
  /\ status = "running" /\ Here = "elem"
  /\ IF state # "GROUPS_ARRAY"
     THEN Refuse
     ELSE /\ Emit(json_printer_array_end(Fresh))
          /\ state' = "SEARCH_SPEC"
          /\ nest' = Closed
          /\ UNCHANGED <<groupVars, host_name_key, flatten_results, asked, answered>>

\* The job cannot be read, is no JSON or ends too early.
Malformed ==
  /\ status = "running"
  /\ Refuse

\* yajl_complete_parse() at the end of the file; trailing text is an error.
Complete ==
  /\ status = "running"
  /\ Here \in {"object", "scalar"}
  /\ status' = "done"
  /\ printer' = json_printer_end(Fresh)
  /\ UNCHANGED <<nest, state, groupVars, host_name_key, flatten_results, asked, answered>>

SearchNext ==
  \/ \E id \in Ids : search_spec_integer(id)
  \/ \E text \in Hashes \cup {Undecodable} : search_spec_string(text)
  \/ \E k \in Keys : search_spec_map_key(k)
  \/ NoCallback
  \/ search_spec_start_map
  \/ RefuseStartMap
  \/ search_spec_end_map
  \/ RefuseEndMap
  \/ search_spec_start_array
  \/ search_spec_end_array
  \/ Malformed
  \/ Complete

SearchSpec == SearchInit /\ [][SearchNext]_vars

----------------------------------------------------------------------------
States ==
  {"INIT", "SEARCH_SPEC", "SEARCH_SPEC_EXPECT_GROUPS_ARRAY", "GROUPS_ARRAY", "GROUP",
   "GROUP_EXPECT_ID", "GROUP_EXPECT_HOST_NAME_MAP", "HOST_NAME_MAP",
   "HOST_NAME_MAP_EXPECT_VALUE"}

\* Types of the context, the parser and what was asked and answered.
SearchTypeOK ==
  /\ status \in {"running", "done", "failed"}
  /\ nest \in Seq({"top", "object", "scalar", "key", "val", "elem"}) \ {<<>>}
  /\ state \in States
  /\ group_id \in Nat
  /\ group_has_results \in BOOLEAN
  /\ group_all_host_names_found \in BOOLEAN
  /\ group_filters_hit \subseteq 1..number_of_filters
  /\ host_name_filters_hit \subseteq 1..number_of_filters
  /\ host_name_key \in Names \cup {""}
  /\ flatten_results \in BOOLEAN
  /\ printer \in Printer
  /\ asked \subseteq Names \X Hashes
  /\ answered \subseteq [key : Names, value : Nat]

InGroup == state \in {"GROUP", "GROUP_EXPECT_ID", "GROUP_EXPECT_HOST_NAME_MAP"}
InHostNames == state \in {"HOST_NAME_MAP", "HOST_NAME_MAP_EXPECT_VALUE"}

\* ctx->state is the place in the job, and the printer's nesting follows from it:
\* a callback never takes an element of one object for one of another, whatever
\* unknown keys, ignored values and repeated keys the job has.
InContext ==
  LET depth ==
        CASE state = "INIT" -> 1
          [] state \in {"SEARCH_SPEC", "SEARCH_SPEC_EXPECT_GROUPS_ARRAY"} -> 2
          [] state = "GROUPS_ARRAY" -> 3
          [] InGroup -> 4
          [] InHostNames -> 5
      printed ==
        CASE depth = 1 -> <<"sentinel">>
          [] depth = 2 -> <<"sentinel", "brace">>
          [] depth > 3 /\ group_has_results -> <<"sentinel", "brace", "bracket", "brace", "brace">>
          [] OTHER -> <<"sentinel", "brace", "bracket">>
  IN  /\ SearchTypeOK
      /\ status = "running" => Len(nest) = depth /\ printer.stack = printed

\* No assertion of the printer fails, what is printed is always the beginning of
\* a JSON document, and it is a whole one when the program ends well: only for a
\* job that is no object nothing is printed.
ResultIsJson ==
  /\ printer.sound
  /\ status # "failed" => printer.reader # <<>>
  /\ status = "done" => printer.reader = IF nest = <<"scalar">> THEN <<"empty">> ELSE <<"done">>

\* The filters that contain every hash the group asked for.
HitByAll == {f \in 1..number_of_filters : \A a \in asked : f \in Hits[a[2]]}

\* "The `hits_by_all_hostnames` field tells the number of filters that probably
\* contained all the host name hashes in that group": whatever the order of the
\* hashes and of the groups, with an empty intersection, or one that is too
\* small for a flattened result, in any place.
HitsByAllHostnames ==
  \A t \in 1..Len(printer.members) :
    printer.members[t].key = "hits_by_all_hostnames" =>
      printer.members[t].value = Flattened(Cardinality(HitByAll))

\* What a group prints: every readable name whose hash has hits, with their
\* number, and nothing else; the group is there when it has such a name.
GroupReported ==
  status = "running" =>
    /\ answered =
         {[key |-> a[1], value |-> Flattened(Cardinality(Hits[a[2]]))] :
            a \in {b \in asked : Kind[b[1]] = "plain" /\ Flattened(Cardinality(Hits[b[2]])) > 0}}
    /\ InGroup \/ InHostNames =>
         (group_has_results <=> \E a \in asked : Flattened(Cardinality(Hits[a[2]])) > 0)

=============================================================================
