---------------------------- MODULE ConfigReader ----------------------------
(***************************************************************************)
(* read_file.c, config.c and honas_gather_config.c: the configuration is   *)
(* read in pieces of any size into a buffer, cut into lines, and each line *)
(* is handled at once: an include reads other files, compressed or not, in *)
(* the middle of a line of this one.  Whatever goes wrong ends the process.*)
(*                                                                         *)
(* Files are numbers, which stand for their names in the order of          *)
(* cmpstringp().  A line is how many bytes it has and what config_parse_   *)
(* line() finds in it; spaces and comments are part of that.  The child    *)
(* that decompresses a file is external: it writes the file's lines, which *)
(* may be cut short, and ends with a status.                               *)
(***************************************************************************)
EXTENDS Binary, FiniteSets, FiniteSetsExt, SequencesExt

CONSTANTS
  MAX_FILE_LINE_LENGTH,   \* 16384
  MaxInclude,             \* 10
  Fields,                 \* options
  Required,               \* options that honas_gather_config_finalize() wants
  Unset,                  \* NULL or 0: the value of an option that is not set
  Main,                   \* the file honas-gather is started with
  PlainNames,             \* files with names of letters, digits, - and _
  FileSystems             \* what the files may be: see below

(***************************************************************************)
(* A file system: file |-> entry, and whether SIGCHLD is ignored, so that  *)
(* nobody learns the status of a child.  An entry is                       *)
(*   [type |-> "file", lines |-> ..., ended |-> the last line ends with a  *)
(*    newline, status |-> of the child that decompresses it, or -1],       *)
(*   [type |-> "dir", names |-> files], or [type |-> "absent" or "other"]. *)
(* A line: [len |-> bytes, what |-> "blank", "item", "unknown" (option),   *)
(* "bad" (no keyword, or an include that is none) or "include", arg |-> the*)
(* item or the file, if_exist |-> BOOLEAN].                                *)
(***************************************************************************)

ASSUME ConfigAssumption ==
  /\ MAX_FILE_LINE_LENGTH \in Nat \ {0}
  /\ MaxInclude \in Nat
  /\ Required \subseteq Fields

WellFormedLine(l, names) ==
  /\ l.len \in Nat
  /\ l.what = "include" => l.arg \in names /\ l.if_exist \in BOOLEAN

\* A last line that has no newline has a byte.
WellFormedEntry(e, names) ==
  /\ e.type \in {"file", "dir", "absent", "other"}
  /\ e.type = "dir" => e.names \subseteq names /\ IsFiniteSet(e.names)
  /\ e.type = "file" =>
       /\ e.lines = [n \in 1..Len(e.lines) |-> e.lines[n]] /\ Len(e.lines) \in Nat
       /\ \A n \in 1..Len(e.lines) : WellFormedLine(e.lines[n], names)
       /\ e.ended \in BOOLEAN /\ e.status \in Int
       /\ ~e.ended => Len(e.lines) > 0 /\ e.lines[Len(e.lines)].len > 0

WellFormed(system) ==
  LET names == DOMAIN system.files
  IN  /\ Main \in names /\ names \subseteq Nat
      /\ \A file \in names : WellFormedEntry(system.files[file], names)
      /\ system.ignored \in BOOLEAN

ASSUME FilesAssumption == \A system \in FileSystems : WellFormed(system)

VARIABLES
  fs,
  stack,                 \* calls of read_file(), the running one last
  config_include_loop,
  config,                \* honas_gather_config_t
  configPc,              \* "reading", "read", "ready", "exited"
  faulted                \* history: a system call failed

configVars == <<fs, stack, config_include_loop, config, configPc, faulted>>

NoConfig == [f \in Fields |-> Unset]

----------------------------------------------------------------------------
(* read_file(): a call is a record.                                        *)

\* got: bytes read; line: the next line to handle; todo: files of the directory
\* that is being included; err: what read_file_close() is called with.
Call(file) ==
  [file |-> file, got |-> 0, line |-> 1, at |-> "open", todo |-> <<>>,
   child |-> "none", err |-> 0]

Top == Last(stack)
Entry(file) == fs.files[file]
Lines(c) == Entry(c.file).lines

\* Bytes before line n.
Start(lines, n) == Sums([k \in 1..Len(lines) |-> lines[k].len + 1])[n - 1]

Size(e) == Start(e.lines, Len(e.lines) + 1) - (IF e.ended THEN 0 ELSE 1)

\* What is in the buffer, once the lines handled so far are moved out of it.
Buflen(c) == c.got - Start(Lines(c), c.line)

\* memchr() finds the end of the next line.
HasLine(c) ==
  /\ c.line <= Len(Lines(c))
  /\ c.line < Len(Lines(c)) \/ Entry(c.file).ended
  /\ c.got >= Start(Lines(c), c.line + 1)

SetTop(c) == stack' = Append(Front(stack), c)

Exit == configPc' = "exited"

Here(at) == configPc = "reading" /\ Top.at = at

\* open(), and pipe() and fork() for a file that is compressed.
OpenFile ==
  /\ Here("open")
  /\ Entry(Top.file).type \in {"file", "dir"}
  /\ SetTop([Top EXCEPT !.at = "read",
                        !.child = IF Entry(Top.file).type = "file" /\ Entry(Top.file).status >= 0
                                  THEN "running" ELSE "none"])
  /\ UNCHANGED <<fs, config_include_loop, config, configPc, faulted>>

\* -1
OpenFails ==
  /\ Here("open")
  /\ Exit
  /\ faulted' = (faulted \/ Entry(Top.file).type \in {"file", "dir"})
  /\ UNCHANGED <<fs, stack, config_include_loop, config>>

Reading == Here("read") /\ Entry(Top.file).type = "file" /\ Buflen(Top) < MAX_FILE_LINE_LENGTH

\* read() of n bytes.
Read(n) ==
  /\ Reading
  /\ n <= MAX_FILE_LINE_LENGTH - Buflen(Top)
  /\ n <= Size(Entry(Top.file)) - Top.got
  /\ LET c == [Top EXCEPT !.got = @ + n]
     IN  SetTop(IF HasLine(c) THEN [c EXCEPT !.at = "lines"] ELSE c)
  /\ UNCHANGED <<fs, config_include_loop, config, configPc, faulted>>

\* As it would be if the end of the file were only seen with an empty buffer.
AtEndEmpty(c) == IF Buflen(c) = 0 THEN [c EXCEPT !.at = "close"] ELSE c

AtEnd(c) ==
  IF Buflen(c) = 0 THEN [c EXCEPT !.at = "close"] ELSE [c EXCEPT !.at = "close", !.err = -3]

\* read() of 0 bytes: end of file.
ReadEnd ==
  /\ Reading
  /\ Top.got = Size(Entry(Top.file))
  /\ SetTop(AtEnd(Top))
  /\ UNCHANGED <<fs, config_include_loop, config, configPc, faulted>>

\* A read error; a directory is one.
ReadFails ==
  /\ Here("read")
  /\ SetTop([Top EXCEPT !.at = "close", !.err = -1])
  /\ faulted' = (faulted \/ Entry(Top.file).type = "file")
  /\ UNCHANGED <<fs, config_include_loop, config, configPc>>

\* The buffer is full and has no newline: -4.
LineTooLong ==
  /\ Here("read")
  /\ Entry(Top.file).type = "file"
  /\ Buflen(Top) = MAX_FILE_LINE_LENGTH
  /\ SetTop([Top EXCEPT !.at = "close", !.err = -4])
  /\ UNCHANGED <<fs, config_include_loop, config, configPc, faulted>>

\* memmove(): back to reading.
MoveLines ==
  /\ Here("lines")
  /\ ~HasLine(Top)
  /\ SetTop([Top EXCEPT !.at = "read"])
  /\ UNCHANGED <<fs, config_include_loop, config, configPc, faulted>>

\* The child closes its output and ends.
ChildExits ==
  /\ configPc = "reading"
  /\ Top.child = "running"
  /\ SetTop([Top EXCEPT !.child = "exited"])
  /\ UNCHANGED <<fs, config_include_loop, config, configPc, faulted>>

\* read_file_close(): waitpid() fails with ECHILD if SIGCHLD is ignored.
Closed(c) ==
  IF c.err = 0 /\ c.child = "exited" /\ ~fs.ignored /\ Entry(c.file).status # 0 THEN -5 ELSE c.err

\* As it would be if one file of a directory were read.
AfterFileOne(below) == Append(Front(below), [Last(below) EXCEPT !.at = "lines"])

\* What goes on when an included file was read: the next one of its directory,
\* or the including line is done.
AfterFile(below) ==
  LET c == Last(below)
  IN  IF c.todo = <<>> THEN Append(Front(below), [c EXCEPT !.at = "lines"])
      ELSE Front(below) \o <<[c EXCEPT !.todo = Tail(@)], Call(Head(c.todo))>>

\* The child is waited for, for as long as it takes.  _config_read() ends the
\* process if the result is negative.
Close ==
  /\ Here("close")
  /\ Top.child # "running"
  /\ UNCHANGED <<fs, config, faulted>>
  /\ \/ /\ Closed(Top) < 0
        /\ Exit
        /\ UNCHANGED <<stack, config_include_loop>>
     \/ /\ Closed(Top) = 0
        /\ Len(stack) = 1
        /\ configPc' = "read"
        /\ UNCHANGED <<stack, config_include_loop>>
     \/ /\ Closed(Top) = 0
        /\ Len(stack) > 1
        /\ stack' = AfterFile(Front(stack))
        /\ config_include_loop' =
             config_include_loop - (IF Last(Front(stack)).todo = <<>> THEN 1 ELSE 0)
        /\ UNCHANGED configPc

----------------------------------------------------------------------------
(* config_parse_line()                                                     *)

\* honas_gather_config_parse_item(): the last value counts.
Parsed(conf, item) == [conf EXCEPT ![item.field] = item.value]

\* qsort() by cmpstringp().
Sorted(names) ==
  [n \in 1..Cardinality(names) |->
     CHOOSE x \in names : Cardinality({y \in names : y < x}) = n - 1]

\* The files an include stands for, in order.
Listed(e, file) == IF e.type = "dir" THEN Sorted(e.names \cap PlainNames) ELSE <<file>>

LineAt(what) == Here("lines") /\ HasLine(Top) /\ Lines(Top)[Top.line].what = what
Line == Lines(Top)[Top.line]
Done == [Top EXCEPT !.line = @ + 1]

BlankLine ==
  /\ LineAt("blank")
  /\ SetTop(Done)
  /\ UNCHANGED <<fs, config_include_loop, config, configPc, faulted>>

\* A value that fails its check ends the process.
ItemLine ==
  /\ LineAt("item")
  /\ \/ /\ Line.arg.value # Unset
        /\ config' = Parsed(config, Line.arg)
        /\ SetTop(Done)
        /\ UNCHANGED configPc
     \/ /\ Line.arg.value = Unset
        /\ Exit
        /\ UNCHANGED <<config, stack>>
  /\ UNCHANGED <<fs, config_include_loop, faulted>>

BadLine ==
  /\ LineAt("bad") \/ LineAt("unknown")
  /\ Exit
  /\ UNCHANGED <<fs, stack, config_include_loop, config, faulted>>

\* Too deep, or nothing to include.
IncludeDies ==
  /\ LineAt("include")
  /\ \/ config_include_loop > MaxInclude
     \/ Entry(Line.arg).type = "absent" /\ ~Line.if_exist
     \/ Entry(Line.arg).type = "other"
  /\ Exit
  /\ UNCHANGED <<fs, stack, config_include_loop, config, faulted>>

\* config_include_loop is back where it was after the line.
IncludeNothing ==
  /\ LineAt("include")
  /\ config_include_loop <= MaxInclude
  /\ \/ Entry(Line.arg).type = "absent" /\ Line.if_exist
     \/ Entry(Line.arg).type = "dir" /\ Entry(Line.arg).names \cap PlainNames = {}
  /\ SetTop(Done)
  /\ UNCHANGED <<fs, config_include_loop, config, configPc, faulted>>

IncludeFiles ==
  /\ LineAt("include")
  /\ config_include_loop <= MaxInclude
  /\ Entry(Line.arg).type \in {"file", "dir"}
  /\ LET files == Listed(Entry(Line.arg), Line.arg)
     IN  /\ files # <<>>
         /\ stack' = Front(stack) \o <<[Done EXCEPT !.at = "include", !.todo = Tail(files)],
                                       Call(Head(files))>>
  /\ config_include_loop' = config_include_loop + 1
  /\ UNCHANGED <<fs, config, configPc, faulted>>

honas_gather_config_finalize ==
  /\ configPc = "read"
  /\ configPc' = IF \E f \in Required : config[f] = Unset THEN "exited" ELSE "ready"
  /\ UNCHANGED <<fs, stack, config_include_loop, config, faulted>>

ConfigInit ==
  /\ fs \in FileSystems
  /\ stack = <<Call(Main)>>
  /\ config_include_loop = 0
  /\ config = NoConfig
  /\ configPc = "reading"
  /\ faulted = FALSE

ReaderNext ==
  \/ OpenFile \/ OpenFails
  \/ \E n \in 1..MAX_FILE_LINE_LENGTH : Read(n)
  \/ ReadEnd \/ ReadFails \/ LineTooLong \/ MoveLines \/ Close
  \/ BlankLine \/ ItemLine \/ BadLine
  \/ IncludeDies \/ IncludeNothing \/ IncludeFiles
  \/ honas_gather_config_finalize

ConfigNext == ReaderNext \/ ChildExits

\* The process runs, without the help of failing system calls, and a
\* decompressing child ends.
ConfigFairness ==
  /\ WF_configVars(ReaderNext /\ UNCHANGED faulted)
  /\ WF_configVars(ChildExits)

ConfigSpec == ConfigInit /\ [][ConfigNext]_configVars /\ ConfigFairness

----------------------------------------------------------------------------
(* Properties.                                                             *)

Broken == [field |-> Unset, value |-> Unset]

\* What the last n sequences of s are, one after the other; and all of them.
Joined(s) ==
  LET last[n \in 0..Len(s)] == IF n = 0 THEN <<>> ELSE s[Len(s) - n + 1] \o last[n - 1]
  IN  last
All(s) == Joined(s)[Len(s)]

(***************************************************************************)
(* The items a configuration stands for, Broken where it cannot be read:   *)
(* by the text of the files of a system alone, each included in its place. *)
(* `deeper` is the same for the files that may be included, or empty at    *)
(* the last level.                                                         *)
(***************************************************************************)
Included(system, l, deeper) ==
  LET e     == system.files[l.arg]
      files == Listed(e, l.arg)
  IN  CASE deeper = <<>> \/ e.type = "other" -> <<Broken>>
        [] deeper # <<>> /\ e.type = "absent" -> IF l.if_exist THEN <<>> ELSE <<Broken>>
        [] OTHER -> All([n \in 1..Len(files) |-> deeper[files[n]]])

Meaning(system, l, deeper) ==
  CASE l.len >= MAX_FILE_LINE_LENGTH -> <<Broken>>
    [] l.len < MAX_FILE_LINE_LENGTH /\ l.what = "blank" -> <<>>
    [] l.len < MAX_FILE_LINE_LENGTH /\ l.what = "item" ->
         IF l.arg.value = Unset THEN <<Broken>> ELSE <<l.arg>>
    [] l.len < MAX_FILE_LINE_LENGTH /\ l.what = "include" -> Included(system, l, deeper)
    [] OTHER -> <<Broken>>

\* The lines of a file, and how it ends.
LineMeanings(system, e, deeper) ==
  [n \in 1..Len(e.lines) |-> Meaning(system, e.lines[n], deeper)]

Ending(system, e) ==
  (IF e.ended THEN <<>> ELSE <<Broken>>)
    \o (IF e.status > 0 /\ ~system.ignored THEN <<Broken>> ELSE <<>>)

FileMeaning(system, file, deeper) ==
  LET e == system.files[file]
  IN  IF e.type # "file" THEN <<Broken>>
      ELSE All(LineMeanings(system, e, deeper)) \o Ending(system, e)

\* By the number of includes around a file that are still allowed.
Meanings(system) ==
  LET M[d \in 0..(MaxInclude + 1)] ==
        [file \in DOMAIN system.files |->
           FileMeaning(system, file, IF d = 0 THEN <<>> ELSE M[d - 1])]
  IN  M

Meant == Meanings(fs)[MaxInclude + 1][Main]

\* The value of an option: the last one it is given.
LastValue(items, f) ==
  LET given == {i \in DOMAIN items : items[i].field = f}
  IN  IF given = {} THEN Unset ELSE items[Max(given)].value

\* However the files come in pieces, and whichever line an included file
\* interrupts: a configuration is taken as read exactly when all of it can be
\* read, with the last value of each option in the order of the text, and the
\* process does not go on with part of it.  Nothing but a failed system call
\* makes it refuse a configuration that can be read.
WholeOrExit ==
  configPc \in {"ready", "exited"} =>
    LET meant  == Meant
        broken == Broken \in Range(meant)
        meantConfig == [f \in Fields |-> LastValue(meant, f)]
    IN  IF configPc = "ready" THEN ~broken /\ config = meantConfig
        ELSE faulted \/ broken \/ \E f \in Required : meantConfig[f] = Unset

\* Files that include each other, lines longer than the buffer and a missing
\* newline do not keep the process reading: it gets to its configuration or ends.
ReadsEnd == <>(configPc \in {"ready", "exited"})

=============================================================================
