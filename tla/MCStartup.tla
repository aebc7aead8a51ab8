----------------------------- MODULE MCStartup -----------------------------
(* honas-gather from its start: the configuration is read; with --aggregate   *)
(* the definitions of subnets are; with --dry-run the dry run counts names,   *)
(* and in any case the state does.                                            *)
EXTENDS ConfigReader, SubnetActivity, DryRun

----------------------------------------------------------------------------
(* Configurations.  A file is a sequence of lines; files 2 to 5 may be        *)
(* included, and the name of 5 has a dot.                                     *)

L(len, what, arg, if_exist) == [len |-> len, what |-> what, arg |-> arg, if_exist |-> if_exist]
Blank == L(0, "blank", 0, FALSE)
Item(len, field, value) == L(len, "item", [field |-> field, value |-> value], FALSE)
Include(file) == L(2, "include", file, FALSE)
IncludeIfExist(file) == L(1, "include", file, TRUE)

Compressed(lines, st) == [type |-> "file", lines |-> lines, ended |-> TRUE, status |-> st]
Text(lines) == Compressed(lines, -1)
Unended(lines) == [Text(lines) EXCEPT !.ended = FALSE]
Dir(names) == [type |-> "dir", names |-> names]
Absent == [type |-> "absent"]
Other == [type |-> "other"]

path == "bloomfilter_path"
subnets == "subnet_activity_path"
MCFields == {path, subnets}
MCRequired == {path}

System(main, two, three, four) ==
  [files |-> <<main, two, three, four, Text(<<L(1, "bad", 0, FALSE)>>)>>, ignored |-> FALSE]

\* The one that start-up goes on with: an option before, in and after a directory.
Usual ==
  System(Text(<<Item(3, path, "a"), Blank, Include(2), Item(3, path, "d")>>), Dir({3, 4, 5}),
         Text(<<Item(1, subnets, "b"), Item(0, path, "b")>>), Text(<<Item(2, subnets, "c")>>))

MainFiles ==
  {Text(<<Item(2, path, "a"), L(3, "include", 3, FALSE), Item(1, path, "b")>>),
   Text(<<Include(2), Item(1, path, "b")>>),
   Text(<<IncludeIfExist(4), Item(3, path, "a")>>),
   Text(<<Item(1, path, "a"), Include(1)>>)}

SecondFiles == {Dir({5}), Dir({3, 4, 5}), Absent, Other}

\* Lines of exactly the buffer's length and one more; files that fail in their ways.
ThirdFiles ==
  {Text(<<Item(1, subnets, "b"), Item(0, path, "e")>>), Text(<<Item(4, subnets, "b")>>),
   Unended(<<Item(1, subnets, "b")>>), Text(<<Include(4)>>), Text(<<Item(1, subnets, Unset)>>),
   Text(<<L(1, "unknown", 0, FALSE)>>),
   Compressed(<<Item(1, subnets, "b"), Item(2, path, "c")>>, 0),
   Compressed(<<Item(1, subnets, "b")>>, 1)}

FourthFiles == {Text(<<Item(2, subnets, "c")>>), Text(<<Include(3)>>), Absent, Dir({})}

MCFileSystems ==
  {System(m, s, t, f) : m \in MainFiles, s \in SecondFiles, t \in ThirdFiles, f \in FourthFiles}
  \cup {Usual, System(Unended(<<Item(3, path, "a")>>), Absent, Absent, Absent),
        System(Text(<<>>), Absent, Absent, Absent),
        [System(Text(<<Include(3), Item(1, path, "a")>>), Absent,
                Compressed(<<Item(1, subnets, "b")>>, 1), Absent) EXCEPT !.ignored = TRUE]}

----------------------------------------------------------------------------
(* Definitions of subnets.                                                  *)

MCWidth == [AF_INET |-> 2, AF_INET6 |-> 4]

MCDefinable ==
  [af : {"AF_INET"}, bits : {{0}, {1}}] \cup [af : {"AF_INET6"}, bits : {{}, {0}}]

MCNames == {<<"a">>}

----------------------------------------------------------------------------
(* Hashes and lookups.                                                      *)

\* The hash of register i with a run of length c.
H(i, c) == {b \in 0..(HLL_P - 1) : (i \div 2^b) % 2 = 1} \cup {HLL_P + c - 1}

\* A value for every register, another one for three of them, one too large for
\* the sparse representation, and the hash that has no bit set.
MCHashes == {H(i, 10) : i \in Regs} \cup {H(i, 21) : i \in {1, 2, 6}} \cup {H(5, 42), {}}

\* 10 is contained in 42 as a set of bits; 10 and 21 are disjoint.
MCOthers == {{H(1, 10)}, {H(1, 21), H(6, 10)}}

\* A name that is counted twice, another one, and one asked for by PTR.
MCLookups ==
  {[hashes |-> {H(0, 10), H(1, 21)}, ptr |-> FALSE],
   [hashes |-> {H(2, 10)}, ptr |-> FALSE],
   [hashes |-> {H(5, 42)}, ptr |-> TRUE]}

\* The number of registers in use.
MCEstimate(histogram) == HLL_REGISTERS - SumSet({e[2] : e \in {f \in histogram : f[1] = 0}})

----------------------------------------------------------------------------
\* The options are varied for the usual configuration: what they start does not
\* depend on the files it came from.
StartupInit ==
  /\ ConfigInit /\ SubnetInit /\ DryInit /\ CountInit
  /\ fs = Usual \/ (saPc = "off" /\ dryPc = "off" /\ startHour = 0)
  /\ saPc = "off" \/ (dryPc = "off" /\ startHour = 0)

Configured == configPc = "ready" /\ fs = Usual /\ ~faulted

\* Definitions, dry run and the state's count do not depend on each other: each
\* is followed for itself.
StartupNext ==
  \/ ConfigNext /\ UNCHANGED <<saVars, dryVars, countVars>>
  \/ Configured /\ SubnetNext /\ UNCHANGED <<configVars, dryVars, countVars>>
  \/ Configured /\ DryNext /\ UNCHANGED <<configVars, saVars, countVars>>
  \/ /\ Configured /\ saPc = "off" /\ dryPc = "off" /\ startHour = 0
     /\ CountNext
     /\ UNCHANGED <<configVars, saVars, dryVars>>

startupVars == <<configVars, saVars, dryVars, countVars>>

StartupSpec == StartupInit /\ [][StartupNext]_startupVars /\ ConfigFairness

=============================================================================
