------------------------------ MODULE Archive ------------------------------
(***************************************************************************)
(* What happens to the states that honas_gather saves.  Two scripts are    *)
(* run by cron: honas_state_rotate.py moves the states of a complete day   *)
(* to a directory of their own and writes the day to the rotation file;    *)
(* honas_daily_state_combine.py reads that file, has honas-combine put the *)
(* day's states together in one daily state, and removes the file.         *)
(* Either can be killed anywhere, and each may still run when the other    *)
(* starts.  A state file is a pair of a day and a period; what a daily     *)
(* state holds is how often each period was put into it.                   *)
(***************************************************************************)
EXTENDS Integers, FiniteSets

CONSTANTS
  Days,
  Periods,      \* the periods that can end in a day
  Required,     \* required_state_files: 86400 / period_length, rounded down
  None          \* no file, no day

ASSUME ArchiveAssumption ==
  /\ IsFiniteSet(Days) /\ IsFiniteSet(Periods)
  /\ Required \in 1..Cardinality(Periods)
  /\ None \notin Days \cup Periods
  /\ \A days \in SUBSET Days : None # days
  /\ None \notin [Periods -> Nat]

Files == Days \X Periods

VARIABLES
  spool,        \* *.hs in the directory of honas_gather
  dirs,         \* the days whose archive directory exists
  copy,         \* copy[f]: of f in the archive: "none", "torn" or "whole"
  daily,        \* daily[d]: the daily state: None, or how often each period is in it
  rotfile,      \* the rotation file: None, or the days it lists
  rot,          \* honas_state_rotate.py
  com,          \* honas_daily_state_combine.py
  \* Not in the program: what was saved, whether a step failed or a script was
  \* killed, and whose turn it is when the schedule is kept.
  saved, failed, schedule, turn

rotVars == <<spool, dirs, copy, rot>>
comVars == <<daily, com>>
vars == <<rotVars, comVars, rotfile, saved, failed, schedule, turn>>

RotIdle == [pc |-> "idle", listed |-> {}, todo |-> {}, day |-> None, entries |-> {}]
ComIdle == [pc |-> "idle", todo |-> {}, day |-> None, files |-> {}, merged |-> None]

ArchiveInit ==
  /\ spool = {} /\ dirs = {} /\ copy = [f \in Files |-> "none"]
  /\ daily = [d \in Days |-> None]
  /\ rotfile = None
  /\ rot = RotIdle /\ com = ComIdle
  /\ saved = {} /\ failed = FALSE
  /\ schedule \in {"cron", "free"} /\ turn = "rotate"

\* finalize_state() of honas_gather: the file appears with all its contents.
Save(f) ==
  /\ f \notin saved
  /\ saved' = saved \cup {f}
  /\ spool' = spool \cup {f}
  /\ UNCHANGED <<dirs, copy, rot, comVars, rotfile, failed, schedule, turn>>

----------------------------------------------------------------------------
(* honas_state_rotate.py                                                   *)

\* README: rotate at 4:00, combine at 6:00, and each is done by then.
MayStart(who) == schedule = "cron" => turn = who /\ rot.pc = "idle" /\ com.pc = "idle"

OfDay(d, files) == {f \in files : f[1] = d}

\* More states of the day may still come when period_length does not divide a day.
CompletedStates(files) == {d \in Days : Cardinality(OfDay(d, files)) >= Required}

RotateStart ==
  /\ rot.pc = "idle" /\ MayStart("rotate")
  /\ rot' = [RotIdle EXCEPT !.pc = "days", !.listed = spool, !.todo = CompletedStates(spool)]
  /\ UNCHANGED <<spool, dirs, copy, comVars, rotfile, saved, failed, schedule, turn>>

\* As it would be if a day whose directory exists were still handed over.
MkdirAnyway(d) ==
  /\ rot.pc = "days" /\ d \in rot.todo
  /\ dirs' = dirs \cup {d}
  /\ rot' = IF d \in dirs
            THEN [rot EXCEPT !.todo = @ \ {d}, !.entries = @ \cup {d}]
            ELSE [rot EXCEPT !.pc = "move", !.todo = @ \ {d}, !.day = d]
  /\ UNCHANGED <<spool, copy, comVars, rotfile, saved, failed, schedule, turn>>

\* os.mkdir(): a day whose directory exists already is skipped.
Mkdir(d) ==
  /\ rot.pc = "days" /\ d \in rot.todo
  /\ dirs' = dirs \cup {d}
  /\ rot' = IF d \in dirs
            THEN [rot EXCEPT !.todo = @ \ {d}]
            ELSE [rot EXCEPT !.pc = "move", !.todo = @ \ {d}, !.day = d]
  /\ UNCHANGED <<spool, copy, comVars, rotfile, saved, failed, schedule, turn>>

ToMove == OfDay(rot.day, rot.listed) \cap spool

\* shutil.move() to another file system: copy, then remove.
MoveCopies(f) ==
  /\ rot.pc = "move" /\ f \in ToMove
  /\ \A g \in ToMove : copy[g] = "none"
  /\ copy' = [copy EXCEPT ![f] = "torn"]
  /\ UNCHANGED <<spool, dirs, rot, comVars, rotfile, saved, failed, schedule, turn>>

MoveCopied(f) ==
  /\ rot.pc = "move" /\ f \in ToMove /\ copy[f] = "torn"
  /\ copy' = [copy EXCEPT ![f] = "whole"]
  /\ UNCHANGED <<spool, dirs, rot, comVars, rotfile, saved, failed, schedule, turn>>

\* As it would be if the original went before the copy is complete.
RemoveEarly(f) ==
  /\ rot.pc = "move" /\ f \in ToMove /\ copy[f] # "none"
  /\ spool' = spool \ {f}
  /\ UNCHANGED <<dirs, copy, rot, comVars, rotfile, saved, failed, schedule, turn>>

MoveRemoves(f) ==
  /\ rot.pc = "move" /\ f \in ToMove /\ copy[f] = "whole"
  /\ spool' = spool \ {f}
  /\ UNCHANGED <<dirs, copy, rot, comVars, rotfile, saved, failed, schedule, turn>>

DayMoved ==
  /\ rot.pc = "move" /\ ToMove = {}
  /\ rot' = [rot EXCEPT !.pc = "days", !.day = None, !.entries = @ \cup {rot.day}]
  /\ UNCHANGED <<spool, dirs, copy, comVars, rotfile, saved, failed, schedule, turn>>

\* The rotation file is opened for writing, which empties it, if there is an
\* entry to write ...
OpenRotationFile ==
  /\ rot.pc = "days" /\ rot.todo = {} /\ rot.entries # {}
  /\ rotfile' = {}
  /\ rot' = [rot EXCEPT !.pc = "write"]
  /\ UNCHANGED <<spool, dirs, copy, comVars, saved, failed, schedule, turn>>

\* ... and written when it is closed.
WriteRotationFile ==
  /\ rot.pc = "write"
  /\ rotfile' = rot.entries
  /\ rot' = RotIdle
  /\ turn' = "combine"
  /\ UNCHANGED <<spool, dirs, copy, comVars, saved, failed, schedule>>

NothingRotated ==
  /\ rot.pc = "days" /\ rot.todo = {} /\ rot.entries = {}
  /\ rot' = RotIdle
  /\ turn' = "combine"
  /\ UNCHANGED <<spool, dirs, copy, comVars, rotfile, saved, failed, schedule>>

RotateKilled ==
  /\ rot.pc # "idle"
  /\ rot' = RotIdle
  /\ failed' = TRUE
  /\ turn' = "combine"
  /\ UNCHANGED <<spool, dirs, copy, comVars, rotfile, saved, schedule>>

----------------------------------------------------------------------------
(* honas_daily_state_combine.py and honas-combine                          *)

CombineStart ==
  /\ com.pc = "idle" /\ MayStart("combine")
  /\ IF rotfile = None
     THEN turn' = "rotate" /\ UNCHANGED com
     ELSE com' = [ComIdle EXCEPT !.pc = "days", !.todo = rotfile] /\ UNCHANGED turn
  /\ UNCHANGED <<rotVars, daily, rotfile, saved, failed, schedule>>

\* os.listdir(): the states in the archive, and the daily one (None) if it exists.
Listed(d) ==
  {p \in Periods : copy[<<d, p>>] # "none"} \cup (IF daily[d] = None THEN {} ELSE {None})

Once(p) == [q \in Periods |-> IF q = p THEN 1 ELSE 0]

\* There is nothing to combine, or the first name listed is the daily one.
SkipDay(d) ==
  /\ com.pc = "days" /\ d \in com.todo
  /\ Listed(d) = {} \/ None \in Listed(d)
  /\ com' = [com EXCEPT !.todo = @ \ {d}]
  /\ UNCHANGED <<rotVars, daily, rotfile, saved, failed, schedule, turn>>

\* The file that is listed first, any of them, is copied to the daily one.  A kill
\* during the copy is a kill after it: nothing is said of a daily state then.
CopyFirst(d, p) ==
  /\ com.pc = "days" /\ d \in com.todo
  /\ p \in Listed(d) \ {None}
  /\ daily' = [daily EXCEPT ![d] = Once(p)]
  /\ com' = [com EXCEPT !.pc = "combine", !.todo = @ \ {d}, !.day = d, !.files = Listed(d)]
  /\ UNCHANGED <<rotVars, rotfile, saved, failed, schedule, turn>>

Source(p) == IF p = None THEN daily[com.day] ELSE Once(p)

SumOf(a, b) == [q \in Periods |-> a[q] + b[q]]

\* As it would be if the source were saved in the destination's place.
MergedOver(p) == Source(p)

\* honas_state_aggregate_combine()
Merged(p) == SumOf(daily[com.day], Source(p))

\* honas-combine: both states are loaded and combined, the destination removed ...
Unlink(p) ==
  /\ com.pc = "combine" /\ p \in com.files
  /\ daily[com.day] # None
  /\ com' = [com EXCEPT !.pc = "persist", !.files = @ \ {p}, !.merged = Merged(p)]
  /\ daily' = [daily EXCEPT ![com.day] = None]
  /\ UNCHANGED <<rotVars, rotfile, saved, failed, schedule, turn>>

\* (when the states' parameters differ it is to be saved as it was)
Mismatch(p) ==
  /\ com.pc = "combine" /\ p \in com.files
  /\ daily[com.day] # None
  /\ com' = [com EXCEPT !.pc = "persist", !.files = @ \ {p}, !.merged = daily[com.day]]
  /\ daily' = [daily EXCEPT ![com.day] = None]
  /\ failed' = TRUE
  /\ UNCHANGED <<rotVars, rotfile, saved, schedule, turn>>

\* ... and saved in its place.
Persist ==
  /\ com.pc = "persist"
  /\ daily' = [daily EXCEPT ![com.day] = com.merged]
  /\ com' = [com EXCEPT !.pc = "combine", !.merged = None]
  /\ UNCHANGED <<rotVars, rotfile, saved, failed, schedule, turn>>

\* log_passert() in honas_state_persist(); the script goes on.
PersistFails ==
  /\ com.pc = "persist"
  /\ com' = [com EXCEPT !.pc = "combine", !.merged = None]
  /\ failed' = TRUE
  /\ UNCHANGED <<rotVars, daily, rotfile, saved, schedule, turn>>

\* honas-combine finds no destination and gives up; nor does it wait for one.
NoDestination(p) ==
  /\ com.pc = "combine" /\ p \in com.files
  /\ daily[com.day] = None
  /\ com' = [com EXCEPT !.files = @ \ {p}]
  /\ UNCHANGED <<rotVars, daily, rotfile, saved, failed, schedule, turn>>

DayCombined ==
  /\ com.pc = "combine" /\ com.files = {}
  /\ com' = [com EXCEPT !.pc = "days", !.day = None]
  /\ UNCHANGED <<rotVars, daily, rotfile, saved, failed, schedule, turn>>

\* As it would be if days were crossed off before they are combined.
RemoveFirst ==
  /\ com.pc = "days"
  /\ rotfile' = None
  /\ com' = ComIdle
  /\ turn' = "rotate"
  /\ UNCHANGED <<rotVars, daily, saved, failed, schedule>>

\* os.remove() of the rotation file, whatever is in it by now.
RemoveRotationFile ==
  /\ com.pc = "days" /\ com.todo = {}
  /\ rotfile' = None
  /\ com' = ComIdle
  /\ turn' = "rotate"
  /\ UNCHANGED <<rotVars, daily, saved, failed, schedule>>

CombineKilled ==
  /\ com.pc # "idle"
  /\ com' = ComIdle
  /\ failed' = TRUE
  /\ turn' = "rotate"
  /\ UNCHANGED <<rotVars, daily, rotfile, saved, schedule>>

ArchiveNext ==
  \/ \E f \in Files : Save(f) \/ MoveCopies(f) \/ MoveCopied(f) \/ MoveRemoves(f)
  \/ \E d \in Days :
       \/ Mkdir(d)
       \/ SkipDay(d)
       \/ \E p \in Periods : CopyFirst(d, p)
  \/ \E p \in Periods \cup {None} : Unlink(p) \/ Mismatch(p) \/ NoDestination(p)
  \/ RotateStart \/ DayMoved \/ OpenRotationFile \/ WriteRotationFile \/ NothingRotated
  \/ CombineStart \/ Persist \/ PersistFails \/ DayCombined \/ RemoveRotationFile
  \/ RotateKilled \/ CombineKilled

ArchiveSpec == ArchiveInit /\ [][ArchiveNext]_vars

----------------------------------------------------------------------------
Contents == [Periods -> Nat]

Rotators ==
  [pc : {"idle", "days", "move", "write"}, listed : SUBSET Files, todo : SUBSET Days,
   day : Days \cup {None}, entries : SUBSET Days]

Combiners ==
  [pc : {"idle", "days", "combine", "persist"}, todo : SUBSET Days, day : Days \cup {None},
   files : SUBSET (Periods \cup {None}), merged : Contents \cup {None}]

ArchiveTypeOK ==
  /\ spool \subseteq Files
  /\ dirs \subseteq Days
  /\ copy \in [Files -> {"none", "torn", "whole"}]
  /\ daily \in [Days -> Contents \cup {None}]
  /\ rotfile \in (SUBSET Days) \cup {None}
  /\ rot \in Rotators
  /\ rot.day \in Days <=> rot.pc = "move"
  /\ com \in Combiners
  /\ com.day \in Days <=> com.pc \in {"combine", "persist"}
  /\ com.pc = "persist" => com.merged \in Contents
  /\ saved \subseteq Files
  /\ failed \in BOOLEAN
  /\ schedule \in {"cron", "free"}
  /\ turn \in {"rotate", "combine"}

\* Wherever the scripts are killed, a state that was saved is still there, in the
\* directory of honas_gather or whole in the archive.
NothingLost == \A f \in saved : f \in spool \/ copy[f] = "whole"

HandedOver ==
  (IF rotfile = None THEN {} ELSE rotfile) \cup com.todo \cup
    (IF com.day = None THEN {} ELSE {com.day})

Archived == {f \in Files : copy[f] = "whole"}

\* A day that the combining script is told of, by whichever of several runs, is
\* complete in the archive, and what is there of it is whole: the script never
\* takes up a day that is still being moved or was left half moved.
HandedOverWhole ==
  \A d \in HandedOver :
    d \in CompletedStates(Archived) /\ \A p \in Periods : copy[<<d, p>>] # "torn"

\* A daily state that is not being worked on has every state that the archive has
\* of its day, unless something failed.
DailyHasAll ==
  \A d \in Days :
    ~failed /\ daily[d] # None /\ com.day # d =>
      \A p \in Periods : copy[<<d, p>>] # "none" => daily[d][p] >= 1

\* A day that was moved to the archive is, or will be, combined.
Remembered(d) == d \in HandedOver \/ d \in rot.entries \/ rot.day = d \/ daily[d] # None

\* When each script is done before the other starts, and nothing fails, no day is
\* forgotten between mkdir and the daily state.
NoDayForgotten == schedule = "cron" /\ ~failed => \A d \in dirs : Remembered(d)

\* "We write all completed state dates to it" (honas_state_rotate.py): the
\* rotation file tells the merging script of every completed day.
AllDatesWritten == ~failed => \A d \in dirs : Remembered(d)

=============================================================================
