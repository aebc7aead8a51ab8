--------------------------- MODULE ArchiveProofs ---------------------------
(***************************************************************************)
(* Proofs about Archive, for any number of days and of periods in a day:   *)
(* however the two scripts overlap and wherever they are killed, no saved  *)
(* state is lost and no day is combined that was not moved completely.     *)
(***************************************************************************)
EXTENDS Archive, FiniteSetTheorems, TLAPS

\* None is no day, no period, no list of days and no contents.
LEMMA NoneIsNothing ==
  /\ None \notin Days /\ None \notin Periods
  /\ None \notin SUBSET Days
  /\ None \notin Contents
BY ArchiveAssumption DEF Contents

LEMMA FilesFinite == \A S \in SUBSET Files : IsFiniteSet(S) /\ Cardinality(S) \in Nat
<1>1. IsFiniteSet(Files)
  BY ArchiveAssumption, FS_Product DEF Files
<1>2. QED
  BY <1>1, FS_Subset, FS_CardinalityType

\* A day that is complete among some states is so among more of them ...
LEMMA CompletedMore ==
  ASSUME NEW S \in SUBSET Files, NEW T \in SUBSET Files, NEW d \in CompletedStates(S),
         OfDay(d, S) \subseteq T
  PROVE  d \in CompletedStates(T)
<1>1. OfDay(d, S) \subseteq OfDay(d, T) /\ OfDay(d, S) \in SUBSET Files /\ OfDay(d, T) \in SUBSET Files
  BY DEF OfDay
<1>2. Cardinality(OfDay(d, S)) <= Cardinality(OfDay(d, T))
  BY <1>1, FilesFinite, FS_Subset
<1>3. Cardinality(OfDay(d, S)) \in Nat /\ Cardinality(OfDay(d, T)) \in Nat
  BY <1>1, FilesFinite
<1>4. Required \in Int
  BY ArchiveAssumption
<1>5. QED
  BY <1>2, <1>3, <1>4 DEF CompletedStates

\* ... and has a state among them.
LEMMA CompletedHasOne ==
  ASSUME NEW S \in SUBSET Files, NEW d \in CompletedStates(S)
  PROVE  \E p \in Periods : <<d, p>> \in S
<1>1. Cardinality(OfDay(d, S)) >= Required /\ Required >= 1
  BY ArchiveAssumption DEF CompletedStates
<1>2. OfDay(d, S) # {}
  <2>1. Cardinality({}) = 0
    BY FS_EmptySet
  <2>2. Required \in Nat
    BY ArchiveAssumption
  <2>3. QED
    BY <1>1, <2>1, <2>2
<1>3. QED
  BY <1>2 DEF OfDay, Files

----------------------------------------------------------------------------
\* What the rotating script has listed was saved, and the days it still has to move
\* and the one it is moving are complete on its list.
Listing ==
  /\ rot.listed \subseteq saved
  /\ rot.todo \subseteq CompletedStates(rot.listed)
  /\ rot.pc = "move" => rot.day \in CompletedStates(rot.listed)

\* A day without a directory has nothing in the archive, and of the day that is being
\* moved only a file that is still to be removed can be torn.
Moving ==
  /\ \A d \in Days \ dirs : \A p \in Periods : copy[<<d, p>>] = "none"
  /\ rot.pc = "move" =>
       /\ rot.day \in dirs
       /\ \A p \in Periods : copy[<<rot.day, p>>] = "torn" => <<rot.day, p>> \in rot.listed

Whole(d) == d \in CompletedStates(Archived) /\ \A p \in Periods : copy[<<d, p>>] # "torn"

Done(d) == d \in dirs /\ rot.day # d /\ Whole(d)

\* The days that were moved completely: those that will be written to the rotation
\* file, those that are in it, those the combining script took from it, and those
\* with a daily state.
Moved ==
  /\ \A d \in rot.entries : Done(d)
  /\ rotfile # None => \A d \in rotfile : Done(d)
  /\ \A d \in com.todo : Done(d)
  /\ com.day # None => Done(com.day)
  /\ \A d \in Days : daily[d] # None => Done(d)

\* What is in the spool was saved.
SpoolSaved == spool \subseteq saved

TornInSpool == \A f \in Files : copy[f] = "torn" => f \in spool

SafeInv == SpoolSaved /\ NothingLost /\ TornInSpool /\ Listing /\ Moving /\ Moved

\* The contents c that are being made of day d have every state in the archive that is
\* no longer on the combining script's list.
Counted(c, d, p) == copy[<<d, p>>] # "none" => p \in com.files \/ c[p] >= 1

Progress ==
  ~failed =>
    /\ com.pc = "combine" =>
         /\ daily[com.day] # None
         /\ \A p \in Periods : Counted(daily[com.day], com.day, p)
    /\ com.pc = "persist" => \A p \in Periods : Counted(com.merged, com.day, p)
    /\ \A d \in Days : daily[d] # None /\ com.day # d =>
         \A p \in Periods : copy[<<d, p>>] # "none" => daily[d][p] >= 1

\* On the documented schedule the scripts take turns, and between a combination and
\* the next rotation there is no rotation file.
Turns ==
  /\ rot.pc # "idle" => com.pc = "idle" /\ turn = "rotate"
  /\ com.pc # "idle" => turn = "combine"
  /\ turn = "rotate" /\ rot.pc # "write" => rotfile = None
  /\ rot.pc # "write" /\ rotfile = None => com.pc = "idle"
  /\ rot.pc = "write" => rotfile = {}
  /\ rot.pc = "idle" => rot.entries = {}
  /\ com.pc = "idle" => com.todo = {}
  /\ com.pc # "idle" =>
       \A d \in rotfile : d \in com.todo \/ com.day = d \/ daily[d] # None
  /\ \A d \in dirs : Remembered(d)

Scheduled == schedule = "cron" /\ ~failed => Turns

ArchiveInv == ArchiveTypeOK /\ SafeInv /\ Progress /\ Scheduled

----------------------------------------------------------------------------
\* The values the actions store in the two scripts' states.
LEMMA StoredValues ==
  /\ RotIdle \in Rotators
  /\ ComIdle \in Combiners
  /\ \A p \in Periods : Once(p) \in Contents
  /\ \A a, b \in Contents : SumOf(a, b) \in Contents
BY NoneIsNothing DEF RotIdle, ComIdle, Rotators, Combiners, Once, Contents, SumOf

\* Every step preserves the types.
LEMMA ArchiveTypeStep == ArchiveTypeOK /\ [ArchiveNext]_vars => ArchiveTypeOK'
<1> SUFFICES ASSUME ArchiveTypeOK, [ArchiveNext]_vars
             PROVE  ArchiveTypeOK'
  OBVIOUS
<1> USE StoredValues, NoneIsNothing
<1>1. ASSUME NEW f \in Files, Save(f) PROVE ArchiveTypeOK'
  BY <1>1 DEF Save, ArchiveTypeOK, Rotators, Combiners, RotIdle, ComIdle, rotVars,
     comVars, CompletedStates, Files, ToMove, OfDay, Listed, Merged, Source
<1>2. ASSUME NEW f \in Files, MoveCopies(f) PROVE ArchiveTypeOK'
  BY <1>2 DEF MoveCopies, ArchiveTypeOK, Rotators, Combiners, RotIdle, ComIdle, rotVars,
     comVars, CompletedStates, Files, ToMove, OfDay, Listed, Merged, Source
<1>3. ASSUME NEW f \in Files, MoveCopied(f) PROVE ArchiveTypeOK'
  BY <1>3 DEF MoveCopied, ArchiveTypeOK, Rotators, Combiners, RotIdle, ComIdle, rotVars,
     comVars, CompletedStates, Files, ToMove, OfDay, Listed, Merged, Source
<1>4. ASSUME NEW f \in Files, MoveRemoves(f) PROVE ArchiveTypeOK'
  BY <1>4 DEF MoveRemoves, ArchiveTypeOK, Rotators, Combiners, RotIdle, ComIdle, rotVars,
     comVars, CompletedStates, Files, ToMove, OfDay, Listed, Merged, Source
<1>5. ASSUME NEW d \in Days, Mkdir(d) PROVE ArchiveTypeOK'
  BY <1>5 DEF Mkdir, ArchiveTypeOK, Rotators, Combiners, RotIdle, ComIdle, rotVars,
     comVars, CompletedStates, Files, ToMove, OfDay, Listed, Merged, Source
<1>6. ASSUME NEW d \in Days, SkipDay(d) PROVE ArchiveTypeOK'
  BY <1>6 DEF SkipDay, ArchiveTypeOK, Rotators, Combiners, RotIdle, ComIdle, rotVars,
     comVars, CompletedStates, Files, ToMove, OfDay, Listed, Merged, Source
<1>7. ASSUME NEW d \in Days, NEW p \in Periods, CopyFirst(d, p) PROVE ArchiveTypeOK'
  BY <1>7 DEF CopyFirst, ArchiveTypeOK, Rotators, Combiners, RotIdle, ComIdle, rotVars,
     comVars, CompletedStates, Files, ToMove, OfDay, Listed, Merged, Source
<1>8. ASSUME NEW p \in Periods \cup {None}, Unlink(p) PROVE ArchiveTypeOK'
  BY <1>8 DEF Unlink, ArchiveTypeOK, Rotators, Combiners, RotIdle, ComIdle, rotVars,
     comVars, CompletedStates, Files, ToMove, OfDay, Listed, Merged, Source
<1>9. ASSUME NEW p \in Periods \cup {None}, Mismatch(p) PROVE ArchiveTypeOK'
  BY <1>9 DEF Mismatch, ArchiveTypeOK, Rotators, Combiners, RotIdle, ComIdle, rotVars,
     comVars, CompletedStates, Files, ToMove, OfDay, Listed, Merged, Source
<1>10. ASSUME NEW p \in Periods \cup {None}, NoDestination(p) PROVE ArchiveTypeOK'
  BY <1>10 DEF NoDestination, ArchiveTypeOK, Rotators, Combiners, RotIdle, ComIdle,
     rotVars, comVars, CompletedStates, Files, ToMove, OfDay, Listed, Merged, Source
<1>11. CASE RotateStart
  BY <1>11 DEF RotateStart, ArchiveTypeOK, Rotators, Combiners, RotIdle, ComIdle, rotVars,
     comVars, CompletedStates, Files, ToMove, OfDay, Listed, Merged, Source
<1>12. CASE DayMoved
  BY <1>12 DEF DayMoved, ArchiveTypeOK, Rotators, Combiners, RotIdle, ComIdle, rotVars,
     comVars, CompletedStates, Files, ToMove, OfDay, Listed, Merged, Source
<1>13. CASE OpenRotationFile
  BY <1>13 DEF OpenRotationFile, ArchiveTypeOK, Rotators, Combiners, RotIdle, ComIdle,
     rotVars, comVars, CompletedStates, Files, ToMove, OfDay, Listed, Merged, Source
<1>14. CASE WriteRotationFile
  BY <1>14 DEF WriteRotationFile, ArchiveTypeOK, Rotators, Combiners, RotIdle, ComIdle,
     rotVars, comVars, CompletedStates, Files, ToMove, OfDay, Listed, Merged, Source
<1>15. CASE NothingRotated
  BY <1>15 DEF NothingRotated, ArchiveTypeOK, Rotators, Combiners, RotIdle, ComIdle,
     rotVars, comVars, CompletedStates, Files, ToMove, OfDay, Listed, Merged, Source
<1>16. CASE CombineStart
  <2>1. CASE rotfile = None
    BY <1>16, <2>1 DEF CombineStart, ArchiveTypeOK, Rotators, Combiners, RotIdle,
       ComIdle, rotVars, comVars, CompletedStates, Files, ToMove, OfDay, Listed, Merged,
       Source
  <2>2. CASE rotfile # None
    <3>1. com' = [ComIdle EXCEPT !.pc = "days", !.todo = rotfile] /\ rotfile \in SUBSET Days
      BY <1>16, <2>2 DEF CombineStart, ArchiveTypeOK
    <3>2. com' \in Combiners
      BY <3>1 DEF Combiners, ComIdle
    <3>3. com'.todo = rotfile /\ com'.pc = "days" /\ com'.day = None
      BY <3>1 DEF ComIdle
    <3>4. QED
      BY <1>16, <2>2, <3>1, <3>2, <3>3 DEF CombineStart, ArchiveTypeOK, Rotators,
         RotIdle, rotVars, comVars, CompletedStates, Files, ToMove, OfDay, Listed,
         Merged, Source
  <2>3. QED
    BY <2>1, <2>2
<1>17. CASE Persist
  BY <1>17 DEF Persist, ArchiveTypeOK, Rotators, Combiners, RotIdle, ComIdle, rotVars,
     comVars, CompletedStates, Files, ToMove, OfDay, Listed, Merged, Source
<1>18. CASE PersistFails
  BY <1>18 DEF PersistFails, ArchiveTypeOK, Rotators, Combiners, RotIdle, ComIdle,
     rotVars, comVars, CompletedStates, Files, ToMove, OfDay, Listed, Merged, Source
<1>19. CASE DayCombined
  BY <1>19 DEF DayCombined, ArchiveTypeOK, Rotators, Combiners, RotIdle, ComIdle, rotVars,
     comVars, CompletedStates, Files, ToMove, OfDay, Listed, Merged, Source
<1>20. CASE RemoveRotationFile
  BY <1>20 DEF RemoveRotationFile, ArchiveTypeOK, Rotators, Combiners, RotIdle, ComIdle,
     rotVars, comVars, CompletedStates, Files, ToMove, OfDay, Listed, Merged, Source
<1>21. CASE RotateKilled
  BY <1>21 DEF RotateKilled, ArchiveTypeOK, Rotators, Combiners, RotIdle, ComIdle,
     rotVars, comVars, CompletedStates, Files, ToMove, OfDay, Listed, Merged, Source
<1>22. CASE CombineKilled
  BY <1>22 DEF CombineKilled, ArchiveTypeOK, Rotators, Combiners, RotIdle, ComIdle,
     rotVars, comVars, CompletedStates, Files, ToMove, OfDay, Listed, Merged, Source
<1>23. CASE UNCHANGED vars
  BY <1>23 DEF vars, rotVars, comVars, ArchiveTypeOK, Rotators, Combiners, RotIdle,
     ComIdle, rotVars, comVars, CompletedStates, Files, ToMove, OfDay, Listed, Merged,
     Source
<1>24. QED
  BY <1>1, <1>2, <1>3, <1>4, <1>5, <1>6, <1>7, <1>8, <1>9, <1>10, <1>11, <1>12, <1>13,
     <1>14, <1>15, <1>16, <1>17, <1>18, <1>19, <1>20, <1>21, <1>22, <1>23 DEF ArchiveNext

----------------------------------------------------------------------------
\* A step that touches a file of one day in the archive leaves the other days there.
LEMMA OtherDaysStay ==
  ASSUME ArchiveTypeOK, NEW f \in Files, NEW x, copy' = [copy EXCEPT ![f] = x],
         NEW d \in Days, d # f[1]
  PROVE  Whole(d)' = Whole(d)
<1>1. \A p \in Periods : copy'[<<d, p>>] = copy[<<d, p>>]
  BY DEF ArchiveTypeOK, Files
<1>2. OfDay(d, Archived') = OfDay(d, Archived)
  BY DEF OfDay, Archived, ArchiveTypeOK
<1>3. QED
  BY <1>1, <1>2 DEF Whole, CompletedStates

\* No step loses a state or hands over a day that was not moved completely.
LEMMA SafeStep == ArchiveTypeOK /\ SafeInv /\ [ArchiveNext]_vars => SafeInv'
<1> SUFFICES ASSUME ArchiveTypeOK, SafeInv, [ArchiveNext]_vars
             PROVE  SafeInv'
  OBVIOUS
<1>0. copy' = copy => \A d \in Days : Whole(d)' <=> Whole(d)
  BY DEF Whole, Archived
<1> USE NoneIsNothing, <1>0 DEF SafeInv, SpoolSaved, NothingLost, TornInSpool, Listing,
      Moving, Moved, Done
<1>1. ASSUME NEW f \in Files, Save(f) PROVE SafeInv'
  BY <1>1 DEF Save, ArchiveTypeOK, Rotators, Combiners, RotIdle, ComIdle, rotVars,
     comVars, ToMove, OfDay, Files
<1>2. ASSUME NEW f \in Files, MoveCopies(f) PROVE SafeInv'
  <2>1. f[1] = rot.day /\ f \in rot.listed /\ f \in spool /\ copy[f] = "none"
    BY <1>2 DEF MoveCopies, ToMove, OfDay
  <2>2. copy' = [copy EXCEPT ![f] = "torn"]
    BY <1>2 DEF MoveCopies
  <2>3. \A d \in Days : d # rot.day => Whole(d)' = Whole(d)
    BY <2>1, <2>2, OtherDaysStay
  <2>4. QED
    BY <1>2, <2>1, <2>2, <2>3 DEF MoveCopies, ArchiveTypeOK, Rotators, Combiners,
       rotVars, comVars, Files
<1>3. ASSUME NEW f \in Files, MoveCopied(f) PROVE SafeInv'
  <2>1. f[1] = rot.day /\ f \in rot.listed /\ f \in spool /\ copy[f] = "torn"
    BY <1>3 DEF MoveCopied, ToMove, OfDay
  <2>2. copy' = [copy EXCEPT ![f] = "whole"]
    BY <1>3 DEF MoveCopied
  <2>3. \A d \in Days : d # rot.day => Whole(d)' = Whole(d)
    BY <2>1, <2>2, OtherDaysStay
  <2>4. QED
    BY <1>3, <2>1, <2>2, <2>3 DEF MoveCopied, ArchiveTypeOK, Rotators, Combiners,
       rotVars, comVars, Files
<1>4. ASSUME NEW f \in Files, MoveRemoves(f) PROVE SafeInv'
  BY <1>4 DEF MoveRemoves, ArchiveTypeOK, Rotators, Combiners, RotIdle, ComIdle, rotVars,
     comVars, ToMove, OfDay, Files
<1>5. ASSUME NEW d \in Days, Mkdir(d) PROVE SafeInv'
  BY <1>5 DEF Mkdir, ArchiveTypeOK, Rotators, Combiners, RotIdle, ComIdle, rotVars,
     comVars, ToMove, OfDay, Files
<1>6. ASSUME NEW d \in Days, SkipDay(d) PROVE SafeInv'
  BY <1>6 DEF SkipDay, ArchiveTypeOK, Rotators, Combiners, RotIdle, ComIdle, rotVars,
     comVars, ToMove, OfDay, Files
<1>7. ASSUME NEW d \in Days, NEW p \in Periods, CopyFirst(d, p) PROVE SafeInv'
  BY <1>7 DEF CopyFirst, ArchiveTypeOK, Rotators, Combiners, RotIdle, ComIdle, rotVars,
     comVars, ToMove, OfDay, Files
<1>8. ASSUME NEW p \in Periods \cup {None}, Unlink(p) PROVE SafeInv'
  BY <1>8 DEF Unlink, ArchiveTypeOK, Rotators, Combiners, RotIdle, ComIdle, rotVars,
     comVars, ToMove, OfDay, Files
<1>9. ASSUME NEW p \in Periods \cup {None}, Mismatch(p) PROVE SafeInv'
  BY <1>9 DEF Mismatch, ArchiveTypeOK, Rotators, Combiners, RotIdle, ComIdle, rotVars,
     comVars, ToMove, OfDay, Files
<1>10. ASSUME NEW p \in Periods \cup {None}, NoDestination(p) PROVE SafeInv'
  BY <1>10 DEF NoDestination, ArchiveTypeOK, Rotators, Combiners, RotIdle, ComIdle,
     rotVars, comVars, ToMove, OfDay, Files
<1>11. CASE RotateStart
  <2>1. /\ rot'.listed = spool /\ rot'.todo = CompletedStates(spool) /\ rot'.pc = "days"
        /\ rot'.day = None /\ rot'.entries = {}
    BY <1>11 DEF RotateStart, RotIdle
  <2>2. QED
    BY <1>11, <2>1 DEF RotateStart, ArchiveTypeOK, Rotators, comVars
<1>12. CASE DayMoved
  <2> DEFINE day == rot.day
  <2>1. /\ rot'.pc = "days" /\ rot'.day = None /\ rot'.listed = rot.listed
        /\ rot'.todo = rot.todo /\ rot'.entries = rot.entries \cup {day}
        /\ rot.pc = "move" /\ day \in Days /\ rot.listed \in SUBSET Files
    BY <1>12 DEF DayMoved, ArchiveTypeOK, Rotators
  <2>2. OfDay(day, rot.listed) \cap spool = {} /\ copy' = copy
    BY <1>12 DEF DayMoved, ToMove
  <2>3. Whole(day)
    <3>1. OfDay(day, rot.listed) \subseteq Archived
      BY <2>1, <2>2 DEF OfDay, Archived
    <3>2. day \in CompletedStates(Archived)
      BY <2>1, <3>1, CompletedMore DEF Archived
    <3>3. \A p \in Periods : copy[<<day, p>>] # "torn"
      BY <2>1, <2>2 DEF OfDay, Files
    <3>4. QED
      BY <3>2, <3>3 DEF Whole
  <2>4. day \in dirs
    BY <2>1
  <2> HIDE DEF day
  <2>5. QED
    BY <1>12, <2>1, <2>2, <2>3, <2>4 DEF DayMoved, ArchiveTypeOK, Rotators, Combiners, comVars
<1>13. CASE OpenRotationFile
  BY <1>13 DEF OpenRotationFile, ArchiveTypeOK, Rotators, Combiners, RotIdle, ComIdle,
     rotVars, comVars, ToMove, OfDay, Files
<1>14. CASE WriteRotationFile
  BY <1>14 DEF WriteRotationFile, ArchiveTypeOK, Rotators, Combiners, RotIdle, ComIdle,
     rotVars, comVars, ToMove, OfDay, Files
<1>15. CASE NothingRotated
  BY <1>15 DEF NothingRotated, ArchiveTypeOK, Rotators, Combiners, RotIdle, ComIdle,
     rotVars, comVars, ToMove, OfDay, Files
<1>16. CASE CombineStart
  <2>1. CASE rotfile = None
    BY <1>16, <2>1 DEF CombineStart, ArchiveTypeOK, Rotators, Combiners, RotIdle,
       ComIdle, rotVars, comVars, ToMove, OfDay, Files
  <2>2. CASE rotfile # None
    <3>1. com' = [ComIdle EXCEPT !.pc = "days", !.todo = rotfile] /\ rotfile \in SUBSET Days
      BY <1>16, <2>2 DEF CombineStart, ArchiveTypeOK
    <3>2. com' \in Combiners
      BY <3>1 DEF Combiners, ComIdle
    <3>3. com'.todo = rotfile /\ com'.pc = "days" /\ com'.day = None
      BY <3>1 DEF ComIdle
    <3>4. QED
      BY <1>16, <2>2, <3>1, <3>2, <3>3 DEF CombineStart, ArchiveTypeOK, Rotators,
         RotIdle, rotVars, comVars, ToMove, OfDay, Files
  <2>3. QED
    BY <2>1, <2>2
<1>17. CASE Persist
  BY <1>17 DEF Persist, ArchiveTypeOK, Rotators, Combiners, RotIdle, ComIdle, rotVars,
     comVars, ToMove, OfDay, Files
<1>18. CASE PersistFails
  BY <1>18 DEF PersistFails, ArchiveTypeOK, Rotators, Combiners, RotIdle, ComIdle,
     rotVars, comVars, ToMove, OfDay, Files
<1>19. CASE DayCombined
  BY <1>19 DEF DayCombined, ArchiveTypeOK, Rotators, Combiners, RotIdle, ComIdle, rotVars,
     comVars, ToMove, OfDay, Files
<1>20. CASE RemoveRotationFile
  BY <1>20 DEF RemoveRotationFile, ArchiveTypeOK, Rotators, Combiners, RotIdle, ComIdle,
     rotVars, comVars, ToMove, OfDay, Files
<1>21. CASE RotateKilled
  BY <1>21 DEF RotateKilled, ArchiveTypeOK, Rotators, Combiners, RotIdle, ComIdle,
     rotVars, comVars, ToMove, OfDay, Files
<1>22. CASE CombineKilled
  BY <1>22 DEF CombineKilled, ArchiveTypeOK, Rotators, Combiners, RotIdle, ComIdle,
     rotVars, comVars, ToMove, OfDay, Files
<1>23. CASE UNCHANGED vars
  BY <1>23 DEF vars, rotVars, comVars, ArchiveTypeOK, Rotators, Combiners, RotIdle,
     ComIdle, rotVars, comVars, ToMove, OfDay, Files
<1>24. QED
  BY <1>1, <1>2, <1>3, <1>4, <1>5, <1>6, <1>7, <1>8, <1>9, <1>10, <1>11, <1>12, <1>13,
     <1>14, <1>15, <1>16, <1>17, <1>18, <1>19, <1>20, <1>21, <1>22, <1>23 DEF ArchiveNext



----------------------------------------------------------------------------
\* No step of the combining script, as long as none fails, drops a state.
LEMMA ProgressStep ==
  ArchiveTypeOK /\ SafeInv /\ Progress /\ [ArchiveNext]_vars => Progress'
<1> SUFFICES ASSUME ArchiveTypeOK, SafeInv, Progress, [ArchiveNext]_vars, ~failed'
             PROVE  Progress'
  BY DEF Progress
<1> USE NoneIsNothing DEF Progress, Counted
<1>1. ASSUME NEW f \in Files, Save(f) PROVE Progress'
  BY <1>1 DEF Save, ArchiveTypeOK, Rotators, Combiners, RotIdle, ComIdle, rotVars,
     comVars, Contents
<1>2. ASSUME NEW f \in Files, MoveCopies(f) PROVE Progress'
  <2>1. f[1] = rot.day /\ com' = com /\ daily' = daily /\ ~failed
    BY <1>2 DEF MoveCopies, ToMove, OfDay, comVars
  <2>2. \A d \in Days : d # rot.day => \A p \in Periods : copy'[<<d, p>>] = copy[<<d, p>>]
    BY <1>2, <2>1 DEF MoveCopies, ArchiveTypeOK, Files
  <2>3. /\ com.day # None => com.day \in Days /\ com.day # rot.day
        /\ \A d \in Days : daily[d] # None => d # rot.day
    BY DEF SafeInv, Moved, Done, ArchiveTypeOK, Combiners
  <2>4. com.pc \in {"combine", "persist"} => com.day # None
    BY DEF ArchiveTypeOK
  <2>5. QED
    BY <2>1, <2>2, <2>3, <2>4
<1>3. ASSUME NEW f \in Files, MoveCopied(f) PROVE Progress'
  BY <1>3 DEF MoveCopied, ArchiveTypeOK, Rotators, Combiners, RotIdle, ComIdle, rotVars,
     comVars, Contents
<1>4. ASSUME NEW f \in Files, MoveRemoves(f) PROVE Progress'
  BY <1>4 DEF MoveRemoves, ArchiveTypeOK, Rotators, Combiners, RotIdle, ComIdle, rotVars,
     comVars, Contents
<1>5. ASSUME NEW d \in Days, Mkdir(d) PROVE Progress'
  BY <1>5 DEF Mkdir, ArchiveTypeOK, Rotators, Combiners, RotIdle, ComIdle, rotVars,
     comVars, Contents
<1>6. ASSUME NEW d \in Days, SkipDay(d) PROVE Progress'
  <2>1. com'.pc = com.pc /\ com'.day = com.day /\ com'.files = com.files /\ com'.merged = com.merged
    BY <1>6 DEF SkipDay, ArchiveTypeOK, Combiners
  <2>2. QED
    BY <1>6, <2>1 DEF SkipDay, rotVars
<1>7. ASSUME NEW d \in Days, NEW p \in Periods, CopyFirst(d, p) PROVE Progress'
  <2>1. daily'[d] = Once(p) /\ Once(p) \in Contents /\ \A e \in Days \ {d} : daily'[e] = daily[e]
    BY <1>7, StoredValues DEF CopyFirst, ArchiveTypeOK
  <2>2. com'.day = d /\ com'.files = Listed(d) /\ com'.pc = "combine" /\ com.day = None
    BY <1>7 DEF CopyFirst, ArchiveTypeOK, Combiners
  <2>3. \A q \in Periods : copy[<<d, q>>] # "none" => q \in Listed(d)
    BY DEF Listed
  <2>4. ~failed /\ copy' = copy
    BY <1>7 DEF CopyFirst, rotVars
  <2>5. QED
    BY <2>1, <2>2, <2>3, <2>4
<1>8. ASSUME NEW p \in Periods \cup {None}, Unlink(p) PROVE Progress'
  <2> DEFINE d == com.day
  <2>1. d \in Days /\ daily[d] \in Contents
    BY <1>8 DEF Unlink, ArchiveTypeOK
  <2>2. com'.day = d /\ com'.files = com.files \ {p} /\ com'.pc = "persist" /\ com'.merged = Merged(p)
    BY <1>8 DEF Unlink, ArchiveTypeOK, Combiners
  <2>3. daily'[d] = None /\ \A e \in Days \ {d} : daily'[e] = daily[e]
    BY <1>8, <2>1 DEF Unlink, ArchiveTypeOK
  <2>4. Source(p) \in Contents
    BY <2>1, StoredValues DEF Source
  <2>5. \A q \in Periods : Merged(p)[q] = daily[d][q] + Source(p)[q]
    BY DEF Merged, SumOf
  <2>6. p \in Periods => Source(p)[p] = 1
    BY DEF Source, Once
  <2>7. ~failed /\ com.pc = "combine" /\ failed' = failed /\ copy' = copy
    BY <1>8 DEF Unlink, rotVars
  <2>8. \A q \in Periods : daily[d][q] \in Nat /\ Source(p)[q] \in Nat
    BY <2>1, <2>4 DEF Contents
  <2>9. \A q \in Periods : copy[<<d, q>>] # "none" => q \in com'.files \/ com'.merged[q] >= 1
    <3> SUFFICES ASSUME NEW q \in Periods, copy[<<d, q>>] # "none"
                 PROVE  q \in com'.files \/ com'.merged[q] >= 1
      OBVIOUS
    <3>1. q \in com.files \/ daily[d][q] >= 1
      BY <2>7
    <3>2. CASE q = p
      BY <3>2, <2>2, <2>5, <2>6, <2>8
    <3>3. CASE q # p
      BY <3>1, <3>3, <2>2, <2>5, <2>8
    <3>4. QED
      BY <3>2, <3>3
  <2>10. QED
    BY <2>2, <2>3, <2>7, <2>9
<1>9. ASSUME NEW p \in Periods \cup {None}, Mismatch(p) PROVE Progress'
  BY <1>9 DEF Mismatch, ArchiveTypeOK, Rotators, Combiners, RotIdle, ComIdle, rotVars,
     comVars, Contents
<1>10. ASSUME NEW p \in Periods \cup {None}, NoDestination(p) PROVE Progress'
  BY <1>10 DEF NoDestination, ArchiveTypeOK, Rotators, Combiners, RotIdle, ComIdle,
     rotVars, comVars, Contents
<1>11. CASE RotateStart
  BY <1>11 DEF RotateStart, ArchiveTypeOK, Rotators, Combiners, RotIdle, ComIdle, rotVars,
     comVars, Contents
<1>12. CASE DayMoved
  BY <1>12 DEF DayMoved, ArchiveTypeOK, Rotators, Combiners, RotIdle, ComIdle, rotVars,
     comVars, Contents
<1>13. CASE OpenRotationFile
  BY <1>13 DEF OpenRotationFile, ArchiveTypeOK, Rotators, Combiners, RotIdle, ComIdle,
     rotVars, comVars, Contents
<1>14. CASE WriteRotationFile
  BY <1>14 DEF WriteRotationFile, ArchiveTypeOK, Rotators, Combiners, RotIdle, ComIdle,
     rotVars, comVars, Contents
<1>15. CASE NothingRotated
  BY <1>15 DEF NothingRotated, ArchiveTypeOK, Rotators, Combiners, RotIdle, ComIdle,
     rotVars, comVars, Contents
<1>16. CASE CombineStart
  <2>1. com'.pc \in {"idle", "days"} /\ com.day = None
    BY <1>16 DEF CombineStart, ArchiveTypeOK, Combiners, ComIdle
  <2>2. QED
    BY <1>16, <2>1 DEF CombineStart, rotVars
<1>17. CASE Persist
  <2>1. com.day \in Days /\ com.merged \in Contents
    BY <1>17 DEF Persist, ArchiveTypeOK
  <2>2. com'.day = com.day /\ com'.files = com.files /\ com'.pc = "combine"
    BY <1>17 DEF Persist, ArchiveTypeOK, Combiners
  <2>3. daily'[com.day] = com.merged /\ \A e \in Days \ {com.day} : daily'[e] = daily[e]
    BY <1>17, <2>1 DEF Persist, ArchiveTypeOK
  <2>4. ~failed /\ com.pc = "persist" /\ copy' = copy
    BY <1>17 DEF Persist, rotVars
  <2>5. QED
    BY <2>1, <2>2, <2>3, <2>4
<1>18. CASE PersistFails
  BY <1>18 DEF PersistFails, ArchiveTypeOK, Rotators, Combiners, RotIdle, ComIdle,
     rotVars, comVars, Contents
<1>19. CASE DayCombined
  BY <1>19 DEF DayCombined, ArchiveTypeOK, Rotators, Combiners, RotIdle, ComIdle, rotVars,
     comVars, Contents
<1>20. CASE RemoveRotationFile
  BY <1>20 DEF RemoveRotationFile, ArchiveTypeOK, Rotators, Combiners, RotIdle, ComIdle,
     rotVars, comVars, Contents
<1>21. CASE RotateKilled
  BY <1>21 DEF RotateKilled, ArchiveTypeOK, Rotators, Combiners, RotIdle, ComIdle,
     rotVars, comVars, Contents
<1>22. CASE CombineKilled
  BY <1>22 DEF CombineKilled, ArchiveTypeOK, Rotators, Combiners, RotIdle, ComIdle,
     rotVars, comVars, Contents
<1>23. CASE UNCHANGED vars
  BY <1>23 DEF vars, rotVars, comVars, ArchiveTypeOK, Rotators, Combiners, RotIdle,
     ComIdle, rotVars, comVars, Contents
<1>24. QED
  BY <1>1, <1>2, <1>3, <1>4, <1>5, <1>6, <1>7, <1>8, <1>9, <1>10, <1>11, <1>12, <1>13,
     <1>14, <1>15, <1>16, <1>17, <1>18, <1>19, <1>20, <1>21, <1>22, <1>23 DEF ArchiveNext

----------------------------------------------------------------------------
\* The schedule keeps every day remembered.
LEMMA TurnsStep ==
  ArchiveTypeOK /\ SafeInv /\ Progress /\ Scheduled /\ [ArchiveNext]_vars => Scheduled'
<1> SUFFICES ASSUME ArchiveTypeOK, SafeInv, Progress, Scheduled, [ArchiveNext]_vars,
                    schedule' = "cron", ~failed'
             PROVE  Turns'
  BY DEF Scheduled
<1>0. schedule = "cron" /\ ~failed
  <2>1. schedule' = schedule
    BY DEF ArchiveNext, Save, MoveCopies, MoveCopied, MoveRemoves, Mkdir, SkipDay,
       CopyFirst, Unlink,
           Mismatch, NoDestination, RotateStart, DayMoved, OpenRotationFile, WriteRotationFile,
           NothingRotated, CombineStart, Persist, PersistFails, DayCombined, RemoveRotationFile,
           RotateKilled, CombineKilled, vars
  <2>2. failed' = failed \/ failed' = TRUE
    BY DEF ArchiveNext, Save, MoveCopies, MoveCopied, MoveRemoves, Mkdir, SkipDay,
       CopyFirst, Unlink,
           Mismatch, NoDestination, RotateStart, DayMoved, OpenRotationFile, WriteRotationFile,
           NothingRotated, CombineStart, Persist, PersistFails, DayCombined, RemoveRotationFile,
           RotateKilled, CombineKilled, vars
  <2>3. QED
    BY <2>1, <2>2
<1>a. Turns
  BY <1>0 DEF Scheduled
<1> USE NoneIsNothing, <1>0, <1>a DEF Turns, Remembered, HandedOver
<1>1. ASSUME NEW f \in Files, Save(f) PROVE Turns'
  BY <1>1 DEF Save, ArchiveTypeOK, Rotators, Combiners, RotIdle, ComIdle, rotVars,
     comVars, MayStart
<1>2. ASSUME NEW f \in Files, MoveCopies(f) PROVE Turns'
  BY <1>2 DEF MoveCopies, ArchiveTypeOK, Rotators, Combiners, RotIdle, ComIdle, rotVars,
     comVars, MayStart
<1>3. ASSUME NEW f \in Files, MoveCopied(f) PROVE Turns'
  BY <1>3 DEF MoveCopied, ArchiveTypeOK, Rotators, Combiners, RotIdle, ComIdle, rotVars,
     comVars, MayStart
<1>4. ASSUME NEW f \in Files, MoveRemoves(f) PROVE Turns'
  BY <1>4 DEF MoveRemoves, ArchiveTypeOK, Rotators, Combiners, RotIdle, ComIdle, rotVars,
     comVars, MayStart
<1>5. ASSUME NEW d \in Days, Mkdir(d) PROVE Turns'
  BY <1>5 DEF Mkdir, ArchiveTypeOK, Rotators, Combiners, RotIdle, ComIdle, rotVars,
     comVars, MayStart
<1>6. ASSUME NEW d \in Days, SkipDay(d) PROVE Turns'
  <2>1. com'.pc = com.pc /\ com'.day = com.day /\ com'.todo = com.todo \ {d}
    BY <1>6 DEF SkipDay, ArchiveTypeOK, Combiners
  <2>2. Whole(d)
    BY <1>6 DEF SkipDay, SafeInv, Moved, Done
  <2>3. daily[d] # None
    <3>1. PICK p \in Periods : <<d, p>> \in Archived
      BY <2>2, CompletedHasOne DEF Whole, Archived
    <3>2. p \in Listed(d)
      BY <3>1 DEF Archived, Listed
    <3>3. QED
      BY <1>6, <3>2 DEF SkipDay, Listed
  <2>4. QED
    BY <1>6, <2>1, <2>3 DEF SkipDay, rotVars, ArchiveTypeOK
<1>7. ASSUME NEW d \in Days, NEW p \in Periods, CopyFirst(d, p) PROVE Turns'
  BY <1>7 DEF CopyFirst, ArchiveTypeOK, Rotators, Combiners, RotIdle, ComIdle, rotVars,
     comVars, MayStart
<1>8. ASSUME NEW p \in Periods \cup {None}, Unlink(p) PROVE Turns'
  BY <1>8 DEF Unlink, ArchiveTypeOK, Rotators, Combiners, RotIdle, ComIdle, rotVars,
     comVars, MayStart
<1>9. ASSUME NEW p \in Periods \cup {None}, Mismatch(p) PROVE Turns'
  BY <1>9 DEF Mismatch, ArchiveTypeOK, Rotators, Combiners, RotIdle, ComIdle, rotVars,
     comVars, MayStart
<1>10. ASSUME NEW p \in Periods \cup {None}, NoDestination(p) PROVE Turns'
  BY <1>10 DEF NoDestination, ArchiveTypeOK, Rotators, Combiners, RotIdle, ComIdle,
     rotVars, comVars, MayStart
<1>11. CASE RotateStart
  BY <1>11 DEF RotateStart, ArchiveTypeOK, Rotators, Combiners, RotIdle, ComIdle, rotVars,
     comVars, MayStart
<1>12. CASE DayMoved
  BY <1>12 DEF DayMoved, ArchiveTypeOK, Rotators, Combiners, RotIdle, ComIdle, rotVars,
     comVars, MayStart
<1>13. CASE OpenRotationFile
  BY <1>13 DEF OpenRotationFile, ArchiveTypeOK, Rotators, Combiners, RotIdle, ComIdle,
     rotVars, comVars, MayStart
<1>14. CASE WriteRotationFile
  BY <1>14 DEF WriteRotationFile, ArchiveTypeOK, Rotators, Combiners, RotIdle, ComIdle,
     rotVars, comVars, MayStart
<1>15. CASE NothingRotated
  BY <1>15 DEF NothingRotated, ArchiveTypeOK, Rotators, Combiners, RotIdle, ComIdle,
     rotVars, comVars, MayStart
<1>16. CASE CombineStart
  <2>1. CASE rotfile = None
    BY <1>16, <2>1 DEF CombineStart, MayStart, rotVars
  <2>2. CASE rotfile # None
    <3>1. com'.pc = "days" /\ com'.todo = rotfile /\ com'.day = None
      BY <1>16, <2>2 DEF CombineStart, ComIdle
    <3>2. \A d \in dirs : Remembered(d)'
      BY <1>16, <2>2, <3>1 DEF CombineStart, rotVars, ArchiveTypeOK, Combiners
    <3>3. QED
      BY <1>16, <2>2, <3>1, <3>2 DEF CombineStart, MayStart, rotVars, ArchiveTypeOK
  <2>3. QED
    BY <2>1, <2>2
<1>17. CASE Persist
  BY <1>17 DEF Persist, ArchiveTypeOK, Rotators, Combiners, RotIdle, ComIdle, rotVars,
     comVars, MayStart
<1>18. CASE PersistFails
  BY <1>18 DEF PersistFails, ArchiveTypeOK, Rotators, Combiners, RotIdle, ComIdle,
     rotVars, comVars, MayStart
<1>19. CASE DayCombined
  <2>1. com'.pc = "days" /\ com'.day = None /\ com'.todo = com.todo
    BY <1>19 DEF DayCombined, ArchiveTypeOK, Combiners
  <2>2. com.day \in Days /\ daily[com.day] # None
    BY <1>19 DEF DayCombined, ArchiveTypeOK, Progress
  <2>3. QED
    BY <1>19, <2>1, <2>2 DEF DayCombined, rotVars, ArchiveTypeOK
<1>20. CASE RemoveRotationFile
  BY <1>20 DEF RemoveRotationFile, ArchiveTypeOK, Rotators, Combiners, RotIdle, ComIdle,
     rotVars, comVars, MayStart
<1>21. CASE RotateKilled
  BY <1>21 DEF RotateKilled, ArchiveTypeOK, Rotators, Combiners, RotIdle, ComIdle,
     rotVars, comVars, MayStart
<1>22. CASE CombineKilled
  BY <1>22 DEF CombineKilled, ArchiveTypeOK, Rotators, Combiners, RotIdle, ComIdle,
     rotVars, comVars, MayStart
<1>23. CASE UNCHANGED vars
  BY <1>23 DEF vars, rotVars, comVars, ArchiveTypeOK, Rotators, Combiners, RotIdle,
     ComIdle, rotVars, comVars, MayStart
<1>24. QED
  BY <1>1, <1>2, <1>3, <1>4, <1>5, <1>6, <1>7, <1>8, <1>9, <1>10, <1>11, <1>12, <1>13,
     <1>14, <1>15, <1>16, <1>17, <1>18, <1>19, <1>20, <1>21, <1>22, <1>23 DEF ArchiveNext

----------------------------------------------------------------------------
\* The invariant holds when nothing has been saved and no script has run.
LEMMA ArchiveInitInv == ArchiveInit => ArchiveInv
<1> SUFFICES ASSUME ArchiveInit
             PROVE  ArchiveInv
  OBVIOUS
<1>1. ArchiveTypeOK
  BY StoredValues, NoneIsNothing DEF ArchiveInit, ArchiveTypeOK, RotIdle, ComIdle
<1>2. SafeInv
  BY DEF ArchiveInit, SafeInv, SpoolSaved, NothingLost, TornInSpool, Listing, Moving, Moved,
     RotIdle, ComIdle, Files
<1>3. Progress /\ Scheduled
  BY DEF ArchiveInit, Progress, Scheduled, Turns, RotIdle, ComIdle
<1>4. QED
  BY <1>1, <1>2, <1>3 DEF ArchiveInv

\* Every state that Archive can reach satisfies the inductive invariant.
THEOREM ArchiveInvariant == ArchiveSpec => []ArchiveInv
<1>1. ArchiveInit => ArchiveInv
  BY ArchiveInitInv
<1>2. ArchiveInv /\ [ArchiveNext]_vars => ArchiveInv'
  BY ArchiveTypeStep, SafeStep, ProgressStep, TurnsStep DEF ArchiveInv
<1>3. QED
  BY <1>1, <1>2, PTL DEF ArchiveSpec

\* The variables of the two scripts and of the files keep their types.
THEOREM ArchiveTypeCorrect == ArchiveSpec => []ArchiveTypeOK
<1>1. ArchiveInv => ArchiveTypeOK
  BY DEF ArchiveInv
<1>2. QED
  BY <1>1, ArchiveInvariant, PTL

\* Wherever the scripts are killed, no saved state is lost (shutil.move() copies
\* before it removes).
THEOREM NothingLostHolds == ArchiveSpec => []NothingLost
<1>1. ArchiveInv => NothingLost
  BY DEF ArchiveInv, SafeInv
<1>2. QED
  BY <1>1, ArchiveInvariant, PTL

\* A day the combining script is told of was moved completely: mkdir, the moves and
\* the rotation file in this order, and a directory that exists is never taken up.
THEOREM HandedOverWholeHolds == ArchiveSpec => []HandedOverWhole
<1>1. ArchiveInv => HandedOverWhole
  BY DEF ArchiveInv, SafeInv, Moved, Done, Whole, HandedOver, HandedOverWhole
<1>2. QED
  BY <1>1, ArchiveInvariant, PTL

\* A daily state that is not being worked on has every state of its day, unless
\* something failed (the loop over os.listdir() and honas-combine).
THEOREM DailyHasAllHolds == ArchiveSpec => []DailyHasAll
<1>1. ArchiveInv => DailyHasAll
  BY DEF ArchiveInv, Progress, DailyHasAll
<1>2. QED
  BY <1>1, ArchiveInvariant, PTL

\* On the schedule of the README, and when nothing fails, the rotation file carries
\* every day from the rotating script to the combining one.
THEOREM NoDayForgottenHolds == ArchiveSpec => []NoDayForgotten
<1>1. ArchiveInv => NoDayForgotten
  BY DEF ArchiveInv, Scheduled, Turns, NoDayForgotten
<1>2. QED
  BY <1>1, ArchiveInvariant, PTL

=============================================================================
