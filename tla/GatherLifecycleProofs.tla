---------------------- MODULE GatherLifecycleProofs ----------------------
(***************************************************************************)
(* Proofs about GatherLifecycle, for every set of directories, period      *)
(* lengths, faults and bounds.                                             *)
(***************************************************************************)
EXTENDS GatherLifecycle, TLAPS

USE LifecycleAssumption

\* create_state(): the new period ends after the moment it begins.
LEMMA PeriodEndLater ==
  ASSUME NEW b \in Nat, NEW l \in Lengths
  PROVE  PeriodEnd(b, l) \in Nat /\ PeriodEnd(b, l) > b
<1>1. l \in Nat /\ l > 0
  OBVIOUS
<1>2. b % l \in 0..(l - 1)
  BY <1>1
<1>3. QED
  BY <1>1, <1>2 DEF PeriodEnd

\* create_state() returns a well-typed state without lookups.
LEMMA CreatedState ==
  ASSUME NEW b \in Nat, NEW l \in Lengths
  PROVE  /\ create_state(l, b) \in States
         /\ create_state(l, b).end > b
         /\ create_state(l, b).end > 0
         /\ create_state(l, b).lookups = {}
BY PeriodEndLater DEF create_state, States

\* The types of the values the actions store.
LEMMA StoredTypes ==
  /\ NoConfig.dir \in Dirs
  /\ Destroyed \in States
  /\ ActiveName \in Nat
BY DEF NoConfig, Destroyed, States, ActiveName

\* A saver starts well typed, and what it links is a well-typed entry.
LEMMA SaverTypes ==
  ASSUME TypeOK
  PROVE  /\ \A n \in Nat, c \in BOOLEAN : pc # "down" => Saver(n, c) \in Savers
         /\ \A s \in savers : Entry(s) \in Entries
         /\ \A s \in savers : ~FullyWritten(s) =>
              [s EXCEPT !.written = @ + 1] \in Savers
BY DEF TypeOK, Confs, Saver, Savers, Entry, Entries, FullyWritten

----------------------------------------------------------------------------
\* Every step preserves the types.
LEMMA TypeStep == TypeOK /\ [Next]_vars => TypeOK'
<1> SUFFICES ASSUME TypeOK, [Next]_vars
             PROVE  TypeOK'
  OBVIOUS
<1> USE StoredTypes, SaverTypes
<1>1. CASE Start
  BY <1>1 DEF TypeOK, Start, PCs
<1>2. CASE CreateAtStart
  BY <1>2, CreatedState DEF TypeOK, CreateAtStart, PCs, Confs
<1>3. CASE LoadActiveState
  BY <1>3 DEF TypeOK, LoadActiveState, Exit, PCs, ActiveFiles, Entries
<1>4. CASE UnlinkActiveState
  BY <1>4 DEF TypeOK, UnlinkActiveState, PCs
<1>5. CASE UnlinkFails
  BY <1>5 DEF TypeOK, UnlinkFails, Fault, PCs, FaultKinds
<1>6. ASSUME NEW after \in PCs, pc # "down", Rotate(after)
      PROVE  TypeOK'
  <2>1. savers' \subseteq Savers
    BY <1>6 DEF TypeOK, Rotate, finalize_state, States
  <2>2. CASE Exit
    BY <1>6, <2>1, <2>2 DEF TypeOK, Rotate, Exit, PCs
  <2>3. CASE NewPeriod(after)
    BY <1>6, <2>1, <2>3, CreatedState DEF TypeOK, Rotate, NewPeriod, Confs
  <2>4. QED
    BY <1>6, <2>2, <2>3 DEF Rotate
<1>7. CASE StartupRotate
  BY <1>6, <1>7 DEF StartupRotate, PCs
<1>8. CASE StartupKeep
  BY <1>8 DEF TypeOK, StartupKeep, PCs
<1>9. CASE init_dnstap_input
  BY <1>9 DEF TypeOK, init_dnstap_input, PCs
<1>10. CASE BindFails
  BY <1>10 DEF TypeOK, BindFails, Fault, Exit, PCs, FaultKinds
<1>11. CASE recheck_handler
  BY <1>6, <1>11 DEF recheck_handler, PCs
<1>12. CASE RegisterLookup
  BY <1>12 DEF TypeOK, RegisterLookup, States
<1>13. CASE shutdown_handler
  BY <1>13 DEF TypeOK, shutdown_handler
<1>14. CASE close_state
  BY <1>14 DEF TypeOK, close_state, PCs
<1>15. ASSUME NEW s \in savers, SaverEnds(s), UNCHANGED <<clock, next, starts>>,
              entries' \subseteq Entries, faults' \subseteq FaultKinds
       PROVE  TypeOK'
  BY <1>15 DEF TypeOK, SaverEnds, Exit, PCs
<1>16. ASSUME NEW s \in savers, Persist(s)
       PROVE  TypeOK'
  <2>1. CASE PersistWrite(s)
    BY <2>1 DEF TypeOK, PersistWrite
  <2>2. CASE PersistLink(s)
    BY <1>15, <2>2 DEF TypeOK, PersistLink
  <2>3. CASE PersistExists(s)
    BY <1>15, <2>3 DEF TypeOK, PersistExists
  <2>4. QED
    BY <1>16, <2>1, <2>2, <2>3 DEF Persist
<1>17. ASSUME NEW s \in savers, SaveFails(s)
       PROVE  TypeOK'
  BY <1>15, <1>17 DEF TypeOK, SaveFails, Fault, FaultKinds
<1>18. CASE Tick
  BY <1>18 DEF TypeOK, Tick
<1>19. CASE Kill
  BY <1>19 DEF TypeOK, Kill, Fault, Exit, PCs, FaultKinds
<1>20. CASE PowerFail
  BY <1>20 DEF TypeOK, PowerFail, Fault, Exit, PCs, FaultKinds
<1>21. CASE RegisterDies \/ DryRunDies
  BY <1>21 DEF TypeOK, RegisterDies, DryRunDies, Fault, Exit, PCs, FaultKinds
<1>22. CASE UNCHANGED vars
  BY <1>22 DEF TypeOK, vars
<1>23. QED
  BY <1>1, <1>2, <1>3, <1>4, <1>5, <1>7, <1>8, <1>9, <1>10, <1>11, <1>12, <1>13,
     <1>14, <1>16, <1>17, <1>18, <1>19, <1>20, <1>21, <1>22 DEF Next, Startup

\* The initial state is well typed.
LEMMA TypeInit == Init => TypeOK
<1> SUFFICES ASSUME Init PROVE TypeOK
  OBVIOUS
<1>1. clock \in Nat /\ next \in Nat \ {0} /\ starts \in Nat
  BY DEF Init
<1>2. pc = "down" /\ pc \in PCs /\ cfg = NoConfig
  BY DEF Init, PCs
<1>3. stop \in BOOLEAN
  BY DEF Init
<1>4. /\ mem \in States /\ savers \subseteq Savers
      /\ entries \subseteq Entries /\ faults \subseteq FaultKinds
  BY StoredTypes DEF Init
<1>5. QED
  BY <1>1, <1>2, <1>3, <1>4 DEF TypeOK

\* The process, its savers and the directory always have their types.
THEOREM TypeCorrect == Spec => []TypeOK
BY TypeInit, TypeStep, PTL DEF Spec

----------------------------------------------------------------------------
(***************************************************************************)
(* The shape of savers and entries.  Most steps change neither, or only    *)
(* remove from them.                                                       *)
(***************************************************************************)

\* Steps that leave mem and the directory alone, add no saver and do not enter
\* the states in which the process holds a loaded state.
LEMMA ShapeKept ==
  ASSUME TypeOK, Shape,
         savers' \subseteq savers,
         entries' \subseteq entries,
         HasState' => HasState /\ mem'.end = mem.end,
         \A s \in savers' : ~s.child => pc' = "closing",
         pc' = "loaded" => pc = "loaded" /\ mem' = mem /\ cfg' = cfg
  PROVE  Shape'
BY DEF Shape, Kept, HasState

\* Every step preserves the shape.
LEMMA ShapeStep == TypeOK /\ Shape /\ [Next]_vars => Shape'
<1> SUFFICES ASSUME TypeOK, Shape, [Next]_vars
             PROVE  Shape'
  OBVIOUS
<1> USE StoredTypes
<1>1. CASE Start
  BY <1>1, ShapeKept DEF Start, HasState, Shape
<1>2. CASE CreateAtStart
  <2>1. mem'.end > 0
    BY <1>2, CreatedState DEF CreateAtStart, TypeOK, Confs
  <2>2. QED
    BY <1>2, <2>1 DEF CreateAtStart, Shape, Kept, HasState
<1>3. CASE LoadActiveState
  <2>1. PICK f \in ActiveFiles :
          /\ f.dir = cfg.dir
          /\ IF f.size = Chunks
             THEN mem' = f.st /\ pc' = "loaded" /\ UNCHANGED <<cfg, stop>>
             ELSE Exit
    BY <1>3 DEF LoadActiveState
  <2>2. f.size = Chunks /\ f \in entries /\ f.name = ActiveName
    BY <2>1 DEF Shape, ActiveFiles
  <2>3. savers' = savers /\ entries' = entries
    BY <1>3 DEF LoadActiveState
  <2>4. QED
    BY <1>3, <2>1, <2>2, <2>3 DEF LoadActiveState, Shape, Kept, HasState
<1>4. CASE UnlinkActiveState
  BY <1>4, ShapeKept DEF UnlinkActiveState, HasState, Shape
<1>5. CASE UnlinkFails
  BY <1>5, ShapeKept DEF UnlinkFails, HasState, Shape
<1>6. ASSUME NEW after \in {"binding", "running"}, HasState, Rotate(after)
      PROVE  Shape'
  <2>1. \A s \in savers : s.child
    BY <1>6 DEF Shape, HasState
  <2>2. savers' = savers \cup {Saver(mem.end, TRUE)} /\ entries' = entries
    BY <1>6 DEF Rotate, finalize_state
  <2>3. /\ Saver(mem.end, TRUE).st.end > 0
        /\ Saver(mem.end, TRUE).name = Saver(mem.end, TRUE).st.end
        /\ Saver(mem.end, TRUE).child
    BY <1>6 DEF Saver, Shape
  <2>4. HasState' => mem'.end > 0
    BY <1>6, CreatedState DEF Rotate, Exit, NewPeriod, HasState, TypeOK, Confs
  <2>5. pc' # "loaded"
    BY <1>6 DEF Rotate, Exit, NewPeriod
  <2>6. QED
    BY <2>1, <2>2, <2>3, <2>4, <2>5 DEF Shape, Kept
<1>7. CASE StartupRotate
  BY <1>6, <1>7 DEF StartupRotate, HasState
<1>8. CASE StartupKeep
  BY <1>8, ShapeKept DEF StartupKeep, HasState, Shape
<1>9. CASE init_dnstap_input
  BY <1>9, ShapeKept DEF init_dnstap_input, HasState, Shape
<1>10. CASE BindFails
  BY <1>10, ShapeKept DEF BindFails, Exit, HasState, Shape
<1>11. CASE recheck_handler
  BY <1>6, <1>11 DEF recheck_handler, HasState
<1>12. CASE RegisterLookup
  <2>1. mem'.end = mem.end /\ pc' # "loaded"
    BY <1>12 DEF RegisterLookup, TypeOK, States
  <2>2. QED
    BY <1>12, <2>1, ShapeKept DEF RegisterLookup, HasState, Shape
<1>13. CASE shutdown_handler
  BY <1>13, ShapeKept DEF shutdown_handler, HasState, Shape
<1>14. CASE close_state
  <2>1. savers' = savers \cup {Saver(ActiveName, FALSE)} /\ entries' = entries
    BY <1>14 DEF close_state
  <2>2. \A s \in savers : s.child
    BY <1>14 DEF Shape, close_state
  <2>3. /\ Saver(ActiveName, FALSE).st.end > 0
        /\ Saver(ActiveName, FALSE).name = ActiveName
        /\ ~Saver(ActiveName, FALSE).child
    BY <1>14 DEF Saver, Shape, close_state, HasState
  <2>4. pc' = "closing"
    BY <1>14 DEF close_state
  <2>5. QED
    BY <2>1, <2>2, <2>3, <2>4 DEF Shape, Kept, HasState
<1>15. ASSUME NEW s \in savers, SaverEnds(s), entries' = entries
       PROVE  Shape'
  BY <1>15, ShapeKept DEF SaverEnds, Exit, HasState, Shape
<1>16. ASSUME NEW s \in savers, PersistWrite(s)
       PROVE  Shape'
  <2> DEFINE w == [s EXCEPT !.written = @ + 1]
  <2>1. w.st = s.st /\ w.name = s.name /\ w.child = s.child
    BY DEF TypeOK, Savers
  <2>2. savers' = (savers \ {s}) \cup {w} /\ UNCHANGED <<pc, cfg, mem, entries>>
    BY <1>16 DEF PersistWrite
  <2> HIDE DEF w
  <2>3. QED
    BY <2>1, <2>2 DEF Shape, Kept, HasState
<1>17. ASSUME NEW s \in savers, PersistLink(s)
       PROVE  Shape'
  <2>1. /\ Entry(s).st = s.st /\ Entry(s).name = s.name
        /\ Entry(s).dir = s.dir /\ Entry(s).size = Chunks
    BY <1>17 DEF Entry, PersistLink, FullyWritten
  <2>2. savers' = savers \ {s} /\ entries' = entries \cup {Entry(s)}
    BY <1>17 DEF PersistLink, SaverEnds
  <2>3. \A f \in entries : ~(f.dir = s.dir /\ f.name = s.name)
    BY <1>17 DEF PersistLink, Exists
  <2>4. /\ HasState' => HasState /\ mem' = mem
        /\ pc' = "loaded" => s.child /\ pc = "loaded" /\ cfg' = cfg
        /\ s.child => pc' = pc
    BY <1>17 DEF PersistLink, SaverEnds, Exit, HasState
  <2>5. s.child => s.name # ActiveName
    BY DEF Shape, Kept, ActiveName
  <2>6. \A t \in savers' : ~t.child => pc' = "closing"
    <3> SUFFICES ASSUME NEW t \in savers', ~t.child
                 PROVE  pc' = "closing"
      OBVIOUS
    <3>1. t \in savers /\ t # s /\ pc = "closing"
      BY <2>2 DEF Shape
    <3>2. QED
      BY <3>1, <1>17 DEF Shape, PersistLink, SaverEnds
  <2>7. \A x \in Kept' : x.st.end > 0
    BY <2>1, <2>2 DEF Shape, Kept
  <2>8. \A f \in entries' : f.name \in {ActiveName, f.st.end} /\ f.size = Chunks
    BY <2>1, <2>2 DEF Shape
  <2>9. \A f, g \in entries' : f.dir = g.dir /\ f.name = g.name => f = g
    BY <2>1, <2>2, <2>3 DEF Shape
  <2>10. pc' = "loaded" =>
           \A f \in entries' : f.dir = cfg'.dir /\ f.name = ActiveName => f.st = mem'
    BY <2>1, <2>2, <2>4, <2>5 DEF Shape, HasState
  <2>11. QED
    BY <2>2, <2>4, <2>6, <2>7, <2>8, <2>9, <2>10 DEF Shape
<1>18. ASSUME NEW s \in savers, Persist(s)
       PROVE  Shape'
  BY <1>15, <1>16, <1>17, <1>18 DEF Persist, PersistExists
<1>19. ASSUME NEW s \in savers, SaveFails(s)
       PROVE  Shape'
  BY <1>15, <1>19 DEF SaveFails
<1>20. CASE Tick
  BY <1>20, ShapeKept DEF Tick, HasState, Shape
<1>21. CASE Kill
  BY <1>21, ShapeKept DEF Kill, Exit, HasState, Shape
<1>22. CASE PowerFail
  BY <1>22, ShapeKept DEF PowerFail, Exit, HasState, Shape
<1>23. CASE RegisterDies \/ DryRunDies
  BY <1>23, ShapeKept DEF RegisterDies, DryRunDies, Exit, HasState, Shape
<1>24. CASE UNCHANGED vars
  BY <1>24, ShapeKept DEF vars, HasState, Shape
<1>25. QED
  BY <1>1, <1>2, <1>3, <1>4, <1>5, <1>7, <1>8, <1>9, <1>10, <1>11, <1>12, <1>13,
     <1>14, <1>18, <1>19, <1>20, <1>21, <1>22, <1>23, <1>24 DEF Next, Startup


----------------------------------------------------------------------------
(***************************************************************************)
(* The time line of one directory.                                         *)
(***************************************************************************)

\* Numbers and sets of numbers inside what is kept.
LEMMA KeptTypes ==
  ASSUME TypeOK
  PROVE  /\ \A x \in Kept : x.st \in States /\ x.name \in Nat
         /\ \A a \in States : a.end \in Nat /\ a.lookups \subseteq Nat
BY DEF TypeOK, Kept, Savers, Entries, States

\* Steps that only let time pass, remove what is kept, or leave the loop.
LEMMA TimelineKept ==
  ASSUME TypeOK, Timeline,
         savers' \subseteq savers,
         entries' \subseteq entries,
         clock' \in Nat, clock' >= clock, next' = next,
         HasState' => HasState /\ mem' = mem,
         pc' \in {"checking", "binding", "running"} =>
           \A x \in Kept' : x.name # ActiveName,
         pc' = "closing" => \A f \in entries' : f.name # ActiveName
  PROVE  Timeline'
<1>1. Kept' \subseteq Kept
  BY DEF Kept
<1>2. \A x \in Kept' : x.name # ActiveName => x.st.end <= clock'
  BY <1>1, KeptTypes DEF Timeline, TypeOK, ActiveName
<1>3. QED
  BY <1>1, <1>2 DEF Timeline

\* A new period, created while everything kept is finished, is after it all.
LEMMA TimelineCreate ==
  ASSUME TypeOK, Timeline,
         NEW l \in Lengths, mem' = create_state(l, clock),
         \A x \in Kept : x.name # ActiveName,
         UNCHANGED <<clock, next, savers, entries>>
  PROVE  Timeline'
<1>1. mem'.end > clock /\ mem'.lookups = {} /\ mem'.end \in Nat
  BY CreatedState, KeptTypes DEF TypeOK
<1>2. \A x \in Kept : x.st.end < mem'.end
  BY <1>1, KeptTypes DEF Timeline, TypeOK
<1>3. Kept' = Kept
  BY DEF Kept
<1>4. QED
  BY <1>1, <1>2, <1>3 DEF Timeline, Before, Kept

\* finalize_state(): the finished state joins those it comes after, and the
\* period created next comes after it.
LEMMA TimelineRotate ==
  ASSUME TypeOK, Shape, Timeline, HasState, NEW after, Rotate(after),
         after \in {"binding", "running"}, \A x \in Kept : x.name # ActiveName
  PROVE  Timeline'
<1> DEFINE n == Saver(mem.end, TRUE)
<1>1. n.st = mem /\ n.name = mem.end /\ n.name # ActiveName
  BY DEF Saver, Shape, ActiveName
<1>2. Kept' = Kept \cup {n} /\ clock' = clock /\ next' = next
  BY DEF Rotate, finalize_state, Kept
<1>3. mem.end <= clock /\ mem \in States
  BY DEF Rotate, Expired, TypeOK
<1> HIDE DEF n
<1>4. \A x \in Kept' : \A i \in x.st.lookups : i < next'
  BY <1>1, <1>2 DEF Timeline
<1>5. \A x \in Kept' : x.name # ActiveName /\ x.st.end <= clock'
  BY <1>1, <1>2, <1>3 DEF Timeline
<1>6. \A x, y \in Kept' : x # y => Apart(x.st, y.st)
  BY <1>1, <1>2 DEF Timeline, Apart
<1>7. HasState' =>
        /\ mem'.lookups = {}
        /\ \A x \in Kept' : x.st.end < mem'.end
  <2> SUFFICES ASSUME HasState'
               PROVE  mem'.lookups = {} /\ \A x \in Kept' : x.st.end < mem'.end
    OBVIOUS
  <2>1. PICK c \in Confs : mem' = create_state(c.len, clock)
    BY DEF Rotate, Exit, NewPeriod, HasState
  <2>2. mem' \in States /\ mem'.end > clock /\ mem'.lookups = {}
    BY <2>1, CreatedState DEF TypeOK, Confs
  <2>3. \A x \in Kept' : x.st \in States
    BY <1>1, <1>2, <1>3, KeptTypes
  <2>4. QED
    BY <1>2, <1>5, <2>2, <2>3, KeptTypes DEF TypeOK
<1>8. HasState' => \A x \in Kept' : Before(x.st, mem')
  BY <1>7 DEF Before
<1>9. pc' # "closing"
  BY DEF Rotate, Exit, NewPeriod
<1>10. QED
  BY <1>4, <1>5, <1>6, <1>7, <1>8, <1>9 DEF Timeline

\* Every step that is not a failed unlink preserves the time line.
LEMMA TimelineStep ==
  ASSUME OneDir, TypeOK, Shape, Timeline, "unlink" \notin faults', [Next]_vars
  PROVE  Timeline'
<1> USE StoredTypes
<1>1. CASE Start
  BY <1>1, TimelineKept DEF Start, HasState, TypeOK
<1>2. CASE CreateAtStart
  <2>1. \A f \in entries : f.name # ActiveName
    BY <1>2 DEF CreateAtStart, Exists, OneDir, TypeOK, Confs, Entries
  <2>2. \A s \in savers : s.child /\ s.name # ActiveName
    BY <1>2 DEF CreateAtStart, Shape, Kept, ActiveName
  <2>3. QED
    BY <1>2, <2>1, <2>2, TimelineCreate DEF CreateAtStart, Kept, TypeOK, Confs
<1>3. CASE LoadActiveState
  <2>1. PICK f \in ActiveFiles :
          /\ f.dir = cfg.dir
          /\ IF f.size = Chunks
             THEN mem' = f.st /\ pc' = "loaded" /\ UNCHANGED <<cfg, stop>>
             ELSE Exit
    BY <1>3 DEF LoadActiveState
  <2>2. f \in Kept /\ f.name = ActiveName /\ f.size = Chunks
    BY <2>1 DEF ActiveFiles, Kept, Shape
  <2>3. Kept' = Kept /\ clock' = clock /\ next' = next
    BY <1>3 DEF LoadActiveState, Kept
  <2>4. QED
    BY <2>1, <2>2, <2>3 DEF Timeline
<1>4. CASE UnlinkActiveState
  <2>1. entries' = {f \in entries : f.dir # cfg.dir \/ f.name # ActiveName}
    BY <1>4 DEF UnlinkActiveState
  <2>2. \A f \in entries' : f.name # ActiveName
    BY <1>4, <2>1 DEF UnlinkActiveState, OneDir, TypeOK, Confs, Entries
  <2>3. \A s \in savers : s.name # ActiveName
    BY <1>4 DEF UnlinkActiveState, Shape, Kept, ActiveName
  <2>4. QED
    BY <1>4, <2>1, <2>2, <2>3, TimelineKept
       DEF UnlinkActiveState, HasState, Kept, TypeOK
<1>5. CASE UnlinkFails
  BY <1>5 DEF UnlinkFails, Fault
<1>6. CASE StartupRotate
  BY <1>6, TimelineRotate DEF StartupRotate, HasState, Timeline
<1>7. CASE StartupKeep
  BY <1>7, TimelineKept DEF StartupKeep, HasState, Timeline, Kept, TypeOK
<1>8. CASE init_dnstap_input
  BY <1>8, TimelineKept DEF init_dnstap_input, HasState, Timeline, Kept, TypeOK
<1>9. CASE BindFails
  BY <1>9, TimelineKept DEF BindFails, Exit, HasState, TypeOK
<1>10. CASE recheck_handler
  BY <1>10, TimelineRotate DEF recheck_handler, HasState, Timeline
<1>11. CASE RegisterLookup
  <2>1. /\ mem'.end = mem.end
        /\ mem'.lookups = mem.lookups \cup {next}
        /\ next' = next + 1 /\ next \in Nat
        /\ Kept' = Kept /\ clock' = clock /\ pc' = pc
    BY <1>11 DEF RegisterLookup, TypeOK, States, Kept
  <2>2. \A x \in Kept : \A i \in x.st.lookups : i \in Nat /\ i < next
    BY KeptTypes DEF Timeline
  <2>3. \A i \in mem.lookups : i \in Nat /\ i < next
    BY <1>11, KeptTypes DEF Timeline, TypeOK, RegisterLookup, HasState
  <2>4. \A x \in Kept : \A i \in x.st.lookups : i < next'
    BY <2>1, <2>2
  <2>5. \A i \in mem'.lookups : i < next'
    BY <2>1, <2>3
  <2>6. \A x \in Kept : x.name # ActiveName => Before(x.st, mem')
    BY <1>11, <2>1, <2>2 DEF Timeline, Before, RegisterLookup, HasState
  <2>7. QED
    BY <1>11, <2>1, <2>4, <2>5, <2>6 DEF Timeline, RegisterLookup
<1>12. CASE shutdown_handler
  BY <1>12, TimelineKept DEF shutdown_handler, HasState, Timeline, Kept, TypeOK
<1>13. CASE close_state
  <2> DEFINE n == Saver(ActiveName, FALSE)
  <2>1. n.st = mem /\ n.name = ActiveName
    BY DEF Saver
  <2>2. /\ Kept' = Kept \cup {n} /\ entries' = entries
        /\ clock' = clock /\ next' = next
        /\ pc' = "closing" /\ HasState /\ pc = "running"
    BY <1>13 DEF close_state, Kept, HasState
  <2> HIDE DEF n
  <2>3. \A x \in Kept : x.name # ActiveName
    BY <2>2 DEF Timeline
  <2>4. QED
    BY <2>1, <2>2, <2>3 DEF Timeline, HasState, Kept
<1>14. ASSUME NEW s \in savers, SaverEnds(s), entries' = entries,
              UNCHANGED <<clock, next>>
       PROVE  Timeline'
  BY <1>14, TimelineKept DEF SaverEnds, Exit, HasState, Timeline, Kept, TypeOK
<1>15. ASSUME NEW s \in savers, PersistWrite(s)
       PROVE  Timeline'
  <2> DEFINE w == [s EXCEPT !.written = @ + 1]
  <2>1. w.st = s.st /\ w.name = s.name
    BY DEF TypeOK, Savers
  <2>2. savers' = (savers \ {s}) \cup {w} /\ UNCHANGED <<clock, pc, mem, entries, next>>
    BY <1>15 DEF PersistWrite
  <2>3. w \notin entries /\ s \notin entries
    BY DEF TypeOK, Savers, Entries
  <2> HIDE DEF w
  <2>4. Kept' = (Kept \ {s}) \cup {w} /\ s \in Kept
    BY <2>2, <2>3 DEF Kept
  <2>5. QED
    BY <2>1, <2>2, <2>4 DEF Timeline, HasState, Apart
<1>16. ASSUME NEW s \in savers, PersistLink(s)
       PROVE  Timeline'
  <2>1. Entry(s).st = s.st /\ Entry(s).name = s.name
    BY DEF Entry
  <2>2. /\ savers' = savers \ {s} /\ entries' = entries \cup {Entry(s)}
        /\ UNCHANGED <<clock, next>>
    BY <1>16 DEF PersistLink, SaverEnds
  <2>3. s \notin entries
    BY DEF TypeOK, Savers, Entries
  <2>4. Kept' = (Kept \ {s}) \cup {Entry(s)} /\ s \in Kept
    BY <2>2, <2>3 DEF Kept
  <2>5. IF s.child THEN pc' = pc /\ mem' = mem ELSE pc' = "down"
    BY <1>16 DEF PersistLink, SaverEnds, Exit
  <2>6. s.child => s.name # ActiveName
    BY DEF Shape, Kept, ActiveName
  <2>7. QED
    BY <2>1, <2>2, <2>4, <2>5, <2>6 DEF Timeline, HasState, Apart
<1>17. ASSUME NEW s \in savers, Persist(s)
       PROVE  Timeline'
  BY <1>14, <1>15, <1>16, <1>17 DEF Persist, PersistExists
<1>18. ASSUME NEW s \in savers, SaveFails(s)
       PROVE  Timeline'
  BY <1>14, <1>18 DEF SaveFails
<1>19. CASE Tick
  BY <1>19, TimelineKept DEF Tick, HasState, Timeline, Kept, TypeOK
<1>20. CASE Kill
  BY <1>20, TimelineKept DEF Kill, Exit, HasState, TypeOK
<1>21. CASE PowerFail
  BY <1>21, TimelineKept DEF PowerFail, Exit, HasState, TypeOK
<1>22. CASE RegisterDies \/ DryRunDies
  BY <1>22, TimelineKept DEF RegisterDies, DryRunDies, Exit, HasState, TypeOK
<1>23. CASE UNCHANGED vars
  BY <1>23, TimelineKept DEF vars, HasState, Timeline, Kept, TypeOK
<1>24. QED
  BY <1>1, <1>2, <1>3, <1>4, <1>5, <1>6, <1>7, <1>8, <1>9, <1>10, <1>11, <1>12,
     <1>13, <1>17, <1>18, <1>19, <1>20, <1>21, <1>22, <1>23 DEF Next, Startup


----------------------------------------------------------------------------
\* Faults are remembered.
LEMMA FaultsGrow ==
  ASSUME [Next]_vars
  PROVE  faults \subseteq faults'
BY DEF Next, vars, Startup, Start, CreateAtStart, LoadActiveState,
       UnlinkActiveState, UnlinkFails, StartupRotate, Rotate, StartupKeep,
       init_dnstap_input, BindFails, RegisterDies, DryRunDies, recheck_handler, RegisterLookup,
       shutdown_handler, close_state, Persist, PersistWrite, PersistLink,
       PersistExists, SaveFails, Tick, Kill, PowerFail, Fault

\* The inductive invariant.
THEOREM InductiveInvariant == Spec => []IInv
<1>1. Init => IInv
  <2> SUFFICES ASSUME Init PROVE IInv
    OBVIOUS
  <2>1. Kept = {} /\ ~HasState /\ pc = "down" /\ savers = {} /\ entries = {}
    BY DEF Init, Kept, HasState
  <2>2. Shape /\ Timeline
    BY <2>1 DEF Shape, Timeline
  <2>3. QED
    BY <2>2, TypeInit DEF IInv
<1>2. IInv /\ [Next]_vars => IInv'
  <2> SUFFICES ASSUME IInv, [Next]_vars PROVE IInv'
    OBVIOUS
  <2>1. faults \subseteq faults'
    BY FaultsGrow
  <2>2. TypeOK' /\ Shape'
    BY TypeStep, ShapeStep DEF IInv
  <2>3. OneDir' <=> OneDir
    BY DEF OneDir
  <2>4. OneDir /\ "unlink" \notin faults' => Timeline'
    BY <2>1, TimelineStep DEF IInv
  <2>5. QED
    BY <2>2, <2>3, <2>4 DEF IInv
<1>3. QED
  BY <1>1, <1>2, PTL DEF Spec

\* Published files sort by name as their lookups happened in time, and the
\* state being filled comes after them.
THEOREM OrderedInTimeHolds == Spec => []OrderedInTime
<1>1. IInv => OrderedInTime
  <2> SUFFICES ASSUME OneDir, "unlink" \notin faults, TypeOK, Shape, Timeline
               PROVE  OrderedInTime
    BY DEF IInv, OrderedInTime
  <2>1. \A a, b \in Finished : a = b \/ Before(a, b) \/ Before(b, a)
    BY DEF Finished, Timeline, Apart
  <2>2. \A a \in Finished, b \in Unfinished : Before(a, b)
    BY DEF Finished, Unfinished, Timeline
  <2>3. \A x \in Kept : x.name = ActiveName /\ HasState => x.st = mem
    <3> SUFFICES ASSUME NEW x \in Kept, x.name = ActiveName, HasState
                 PROVE  x.st = mem
      OBVIOUS
    <3>1. pc = "loaded"
      BY DEF Timeline, HasState
    <3>2. x \in entries
      BY <3>1 DEF Shape, Kept, ActiveName
    <3>3. x.dir = cfg.dir
      BY <3>1, <3>2 DEF OneDir, TypeOK, Confs, Entries
    <3>4. QED
      BY <3>1, <3>2, <3>3 DEF Shape
  <2>4. \A a, b \in Unfinished : a = b
    BY <2>3 DEF Unfinished, Timeline
  <2>5. QED
    BY <2>1, <2>2, <2>4 DEF OrderedInTime
<1>2. QED
  BY <1>1, InductiveInvariant, PTL

\* No save finds its name taken.
THEOREM NameFreeHolds == Spec => []NameFree
<1>1. IInv => NameFree
  <2> SUFFICES ASSUME OneDir, "unlink" \notin faults, TypeOK, Shape, Timeline
               PROVE  NameFree
    BY DEF IInv, NameFree
  <2>1. \A x, y \in Kept : x.name = y.name => x = y
    <3> SUFFICES ASSUME NEW x \in Kept, NEW y \in Kept, x.name = y.name
                 PROVE  x = y
      OBVIOUS
    <3>1. CASE x.name = ActiveName
      BY <3>1 DEF Timeline
    <3>2. CASE x.name # ActiveName
      <4>1. x.st.end = x.name /\ y.st.end = y.name
        BY <3>2 DEF Kept, Shape
      <4>2. ~Apart(x.st, y.st)
        BY <4>1, KeptTypes DEF Apart, Before
      <4>3. QED
        BY <3>2, <4>2 DEF Timeline
    <3>3. QED
      BY <3>1, <3>2
  <2>2. \A s \in savers : s \notin entries
    BY DEF TypeOK, Savers, Entries
  <2>3. \A s \in savers : ~Exists(s.dir, s.name)
    BY <2>1, <2>2 DEF Exists, Kept
  <2>4. \A s, t \in savers : s.name = t.name => s = t
    BY <2>1 DEF Kept
  <2>5. pc \in {"checking", "binding", "running", "closing"} => ActiveFiles = {}
    BY DEF Timeline, ActiveFiles, Kept
  <2>6. QED
    BY <2>3, <2>4, <2>5 DEF NameFree
<1>2. QED
  BY <1>1, InductiveInvariant, PTL

\* Every file under a name is complete, whatever fails.
THEOREM EntriesCompleteHolds == Spec => []EntriesComplete
<1>1. IInv => EntriesComplete
  BY DEF IInv, Shape, EntriesComplete
<1>2. QED
  BY <1>1, InductiveInvariant, PTL

\* The only file the process ever removes is the one whose content it holds.
THEOREM OnlyLoadedIsRemovedHolds == Spec => OnlyLoadedIsRemoved
<1>1. IInv /\ [Next]_vars =>
        [\A f \in entries \ entries' : f.name = ActiveName /\ HasState /\ mem = f.st]_vars
  <2> SUFFICES ASSUME IInv, [Next]_vars, NEW f \in entries, f \notin entries'
               PROVE  f.name = ActiveName /\ HasState /\ mem = f.st
    OBVIOUS
  <2>1. UnlinkActiveState
    BY DEF Next, vars, Startup, Start, CreateAtStart, LoadActiveState,
           UnlinkFails, StartupRotate, Rotate, StartupKeep,
           init_dnstap_input, BindFails, RegisterDies, DryRunDies, recheck_handler, RegisterLookup,
           shutdown_handler, close_state, Persist, PersistWrite, PersistLink,
           PersistExists, SaveFails, Tick, Kill, PowerFail
  <2>2. QED
    BY <2>1 DEF UnlinkActiveState, IInv, Shape, HasState
<1>2. QED
  BY <1>1, InductiveInvariant, PTL DEF Spec, OnlyLoadedIsRemoved


----------------------------------------------------------------------------
\* No step without a fault drops a lookup that is held.
LEMMA HeldStep ==
  ASSUME OneDir, IInv, NameFree, [Next]_vars, faults' = {}, NEW i, Held(i)
  PROVE  Held(i)'
<1>1. CASE Start
  BY <1>1 DEF Start, Held, Kept, HasState
<1>2. CASE CreateAtStart
  BY <1>2 DEF CreateAtStart, Held, Kept, HasState
<1>3. CASE LoadActiveState
  BY <1>3 DEF LoadActiveState, Held, Kept, HasState
<1>4. CASE UnlinkActiveState
  <2>1. \A f \in entries : f \in entries' \/ f.st = mem
    BY <1>4 DEF UnlinkActiveState, IInv, Shape
  <2>2. QED
    BY <1>4, <2>1 DEF UnlinkActiveState, Held, Kept, HasState
<1>5. CASE UnlinkFails
  BY <1>5 DEF UnlinkFails, Fault
<1>6. ASSUME NEW after \in {"binding", "running"}, Rotate(after)
      PROVE  Held(i)'
  <2>1. Saver(mem.end, TRUE) \in Kept' /\ Kept \subseteq Kept'
    BY <1>6 DEF Rotate, finalize_state, Kept
  <2>2. Saver(mem.end, TRUE).st = mem
    BY DEF Saver
  <2>3. QED
    BY <2>1, <2>2 DEF Held
<1>7. CASE StartupRotate
  BY <1>6, <1>7 DEF StartupRotate
<1>8. CASE StartupKeep
  BY <1>8 DEF StartupKeep, Held, Kept, HasState
<1>9. CASE init_dnstap_input
  BY <1>9 DEF init_dnstap_input, Held, Kept, HasState
<1>10. CASE BindFails
  BY <1>10 DEF BindFails, Fault
<1>11. CASE recheck_handler
  BY <1>6, <1>11 DEF recheck_handler
<1>12. CASE RegisterLookup
  <2>1. mem'.lookups = mem.lookups \cup {next}
    BY <1>12 DEF RegisterLookup, IInv, TypeOK, States
  <2>2. QED
    BY <1>12, <2>1 DEF RegisterLookup, Held, Kept, HasState
<1>13. CASE shutdown_handler
  BY <1>13 DEF shutdown_handler, Held, Kept, HasState
<1>14. CASE close_state
  <2>1. Saver(ActiveName, FALSE) \in Kept' /\ Kept \subseteq Kept'
    BY <1>14 DEF close_state, Kept
  <2>2. Saver(ActiveName, FALSE).st = mem
    BY DEF Saver
  <2>3. QED
    BY <2>1, <2>2 DEF Held
<1>15. ASSUME NEW s \in savers, Persist(s)
       PROVE  Held(i)'
  <2>1. CASE PersistWrite(s)
    <3> DEFINE w == [s EXCEPT !.written = @ + 1]
    <3>1. w.st = s.st
      BY DEF IInv, TypeOK, Savers
    <3>2. savers' = (savers \ {s}) \cup {w} /\ UNCHANGED <<pc, mem, entries>>
      BY <2>1 DEF PersistWrite
    <3> HIDE DEF w
    <3>3. QED
      BY <3>1, <3>2 DEF Held, Kept, HasState
  <2>2. CASE PersistLink(s)
    <3>1. savers' = savers \ {s} /\ entries' = entries \cup {Entry(s)}
      BY <2>2 DEF PersistLink, SaverEnds
    <3>2. Entry(s).st = s.st
      BY DEF Entry
    <3>3. HasState => HasState' /\ mem' = mem
      BY <2>2 DEF PersistLink, SaverEnds, IInv, Shape, HasState
    <3>4. QED
      BY <3>1, <3>2, <3>3 DEF Held, Kept
  <2>3. CASE PersistExists(s)
    <3>1. "unlink" \notin faults
      BY <2>3 DEF PersistExists
    <3>2. QED
      BY <2>3, <3>1 DEF PersistExists, NameFree
  <2>4. QED
    BY <1>15, <2>1, <2>2, <2>3 DEF Persist
<1>16. ASSUME NEW s \in savers, SaveFails(s)
       PROVE  Held(i)'
  BY <1>16 DEF SaveFails, Fault
<1>17. CASE Tick
  BY <1>17 DEF Tick, Held, Kept, HasState
<1>18. CASE Kill
  BY <1>18 DEF Kill, Fault
<1>19. CASE PowerFail
  BY <1>19 DEF PowerFail, Fault
<1>20. CASE RegisterDies \/ DryRunDies
  BY <1>20 DEF RegisterDies, DryRunDies, Fault
<1>21. CASE UNCHANGED vars
  BY <1>21 DEF vars, Held, Kept, HasState
<1>22. QED
  BY <1>1, <1>2, <1>3, <1>4, <1>5, <1>7, <1>8, <1>9, <1>10, <1>11, <1>12, <1>13,
     <1>14, <1>15, <1>16, <1>17, <1>18, <1>19, <1>20, <1>21 DEF Next, Startup

\* Only RegisterLookup hands out a lookup, and stores it.
LEMMA RegisteredStep ==
  ASSUME TypeOK, [Next]_vars, NEW i \in Registered', i \notin Registered
  PROVE  Held(i)'
<1>1. RegisterLookup
  BY DEF Next, vars, Startup, Start, CreateAtStart, LoadActiveState,
         UnlinkActiveState, UnlinkFails, StartupRotate, Rotate, StartupKeep,
         init_dnstap_input, BindFails, RegisterDies, DryRunDies, recheck_handler, Registered,
         shutdown_handler, close_state, Persist, PersistWrite, PersistLink,
         PersistExists, SaveFails, Tick, Kill, PowerFail
<1>2. i = next
  BY <1>1 DEF RegisterLookup, Registered, TypeOK
<1>3. mem'.lookups = mem.lookups \cup {next}
  BY <1>1 DEF RegisterLookup, TypeOK, States
<1>4. QED
  BY <1>1, <1>2, <1>3 DEF RegisterLookup, Held, HasState

\* In one state directory nothing registered is lost as long as no fault strikes
\* and the program does not end itself in the event loop.
THEOREM NoLossHolds == Spec => []NoLoss
<1>1. Init => NoLoss
  BY DEF Init, NoLoss, Registered
<1>2. IInv /\ NameFree /\ NoLoss /\ [Next]_vars => NoLoss'
  <2> SUFFICES ASSUME IInv, NameFree, NoLoss, [Next]_vars, OneDir, faults' = {},
                      NEW i \in Registered'
               PROVE  Held(i)'
    BY DEF NoLoss, OneDir
  <2>1. faults = {}
    BY FaultsGrow
  <2>2. CASE i \in Registered
    BY <2>1, <2>2, HeldStep DEF NoLoss
  <2>3. CASE i \notin Registered
    BY <2>3, RegisteredStep DEF IInv
  <2>4. QED
    BY <2>2, <2>3
<1>3. QED
  BY <1>1, <1>2, InductiveInvariant, NameFreeHolds, PTL DEF Spec


----------------------------------------------------------------------------
(***************************************************************************)
(* The refinement of PeriodLog, in one directory and when the removal of a *)
(* loaded active_state does not fail: every step of honas-gather is a step *)
(* of the period log or leaves it as it is.                                *)
(***************************************************************************)

ChildSavers == {x \in savers : x.child}
OwnSavers   == {x \in savers : ~x.child}
Sealed      == {Period(s.st) : s \in ChildSavers}
Published   == {Period(f.st) : f \in PeriodFiles}

\* Only faults the environment may inject happen.
LEMMA FaultsAllowed == Spec => [](faults \subseteq Faults)
<1>1. Init => faults \subseteq Faults
  BY DEF Init
<1>2. faults \subseteq Faults /\ [Next]_vars => (faults \subseteq Faults)'
  <2>1. ASSUME NEW k, Fault(k)
        PROVE  faults' = faults \cup {k} /\ k \in Faults
    BY <2>1 DEF Fault
  <2>2. ASSUME [Next]_vars
        PROVE  faults' = faults \/ \E k \in FaultKinds : Fault(k)
    BY <2>2 DEF Next, vars, Startup, Start, CreateAtStart, LoadActiveState,
         UnlinkActiveState, UnlinkFails, StartupRotate, Rotate, StartupKeep,
         init_dnstap_input, BindFails, RegisterDies, DryRunDies, recheck_handler, RegisterLookup,
         shutdown_handler, close_state, Persist, PersistWrite, PersistLink,
         PersistExists, SaveFails, Tick, Kill, PowerFail, FaultKinds
  <2>3. QED
    BY <2>1, <2>2
<1>3. QED
  BY <1>1, <1>2, PTL DEF Spec

\* Where the open period is: in memory, with close_state() or in active_state.
LEMMA WhereOpen ==
  ASSUME TypeOK, Shape, Timeline
  PROVE  /\ HasState => OpenPeriod = {Period(mem)}
         /\ ~HasState => OpenPeriod = {Period(x.st) : x \in OwnSavers \cup ActiveFiles}
         /\ \A x \in Kept : x.name = ActiveName <=> x \in OwnSavers \cup ActiveFiles
         /\ \A x \in Kept : x.name # ActiveName <=> x \in ChildSavers \cup PeriodFiles
         /\ pc # "closing" => OwnSavers = {}
         /\ pc \in {"checking", "binding", "running", "closing"} => ActiveFiles = {}
<1>1. /\ HasState => OpenPeriod = {Period(mem)}
      /\ ~HasState => OpenPeriod = {Period(x.st) : x \in OwnSavers \cup ActiveFiles}
  BY DEF OpenPeriod, OwnSavers
<1>2. \A s \in savers : s.name = ActiveName <=> ~s.child
  BY DEF Shape, Kept, ActiveName
<1>3. savers \cap entries = {}
  BY DEF TypeOK, Savers, Entries
<1>4. /\ \A x \in Kept : x.name = ActiveName <=> x \in OwnSavers \cup ActiveFiles
      /\ \A x \in Kept : x.name # ActiveName <=> x \in ChildSavers \cup PeriodFiles
  BY <1>2, <1>3 DEF Kept, OwnSavers, ChildSavers, ActiveFiles, PeriodFiles
<1>5. pc # "closing" => OwnSavers = {}
  BY DEF Shape, OwnSavers
<1>6. pc \in {"checking", "binding", "running", "closing"} => ActiveFiles = {}
  BY DEF Timeline, ActiveFiles, Kept
<1>7. QED
  BY <1>1, <1>4, <1>5, <1>6

\* A period created while nothing unfinished is kept is fresh in the log.
LEMMA CreatedIsFresh ==
  ASSUME TypeOK, Timeline, NEW l \in Lengths,
         NEW ps, \A q \in ps : q.end \in Nat /\ q.end <= clock
  PROVE  PL!Fresh(Period(create_state(l, clock)), ps)
<1>1. clock \in Nat
  BY DEF TypeOK
<1>2. /\ create_state(l, clock).end > clock /\ create_state(l, clock).lookups = {}
      /\ create_state(l, clock).end \in Nat
  BY <1>1, CreatedState DEF States
<1>3. QED
  BY <1>1, <1>2 DEF PL!Fresh, Period

\* Everything finished, saved or being saved, ended by now.
LEMMA SealedIsOver ==
  ASSUME TypeOK, Shape, Timeline
  PROVE  \A q \in Sealed \cup Published : q.end \in Nat /\ q.end <= clock
<1>1. \A x \in ChildSavers \cup PeriodFiles : x \in Kept /\ x.name # ActiveName
  BY WhereOpen DEF Kept, ChildSavers, PeriodFiles
<1>2. \A x \in ChildSavers \cup PeriodFiles : x.st.end \in Nat /\ x.st.end <= clock
  BY <1>1, KeptTypes DEF Timeline
<1>3. QED
  BY <1>2 DEF Sealed, Published, Period

\* finalize_state() and what follows it seal the open period.
LEMMA RotateSeals ==
  ASSUME TypeOK, Shape, Timeline,
         pc \in {"checking", "running"}, NEW after \in {"binding", "running"}, Rotate(after)
  PROVE  PL!Seal
<1> DEFINE n == Saver(mem.end, TRUE)
<1>1. savers' = savers \cup {n} /\ UNCHANGED <<entries, next, faults>>
  BY DEF Rotate, finalize_state
<1>2. n.child /\ n.st = mem
  BY DEF Saver
<1>3. HasState /\ OpenPeriod = {Period(mem)} /\ OwnSavers = {} /\ ActiveFiles = {}
  BY WhereOpen DEF HasState
<1> HIDE DEF n
<1>4. Sealed' = Sealed \cup OpenPeriod
  BY <1>1, <1>2, <1>3 DEF Sealed, ChildSavers
<1>5. Published' = Published
  BY <1>1 DEF Published, PeriodFiles
<1>6. CASE Exit
  <2>1. ~HasState' /\ OpenPeriod' = {}
    BY <1>1, <1>2, <1>3, <1>6 DEF Exit, HasState, OpenPeriod, OwnSavers, ActiveFiles
  <2>2. QED
    BY <1>1, <1>3, <1>4, <1>5, <2>1
       DEF PL!Seal, Sealed, Published, ChildSavers, Harmed
<1>7. CASE NewPeriod(after)
  <2>1. PICK c \in Confs : mem' = create_state(c.len, clock)
    BY <1>7 DEF NewPeriod
  <2>2. HasState' /\ OpenPeriod' = {Period(mem')}
    BY <1>7 DEF NewPeriod, HasState, OpenPeriod
  <2>3. c.len \in Lengths
    BY DEF Confs
  <2>4. Period(mem).end \in Nat /\ Period(mem).end <= clock
    BY DEF Rotate, Expired, TypeOK, States, Period
  <2>5. \A q \in Sealed \cup Published \cup OpenPeriod : q.end \in Nat /\ q.end <= clock
    BY <1>3, <2>4, SealedIsOver
  <2>6. PL!Fresh(Period(mem'), Sealed \cup Published \cup OpenPeriod)
    BY <2>1, <2>3, <2>5, CreatedIsFresh
  <2>7. QED
    BY <1>1, <1>3, <1>4, <1>5, <2>2, <2>6
       DEF PL!Seal, Sealed, Published, ChildSavers, Harmed
<1>8. QED
  BY <1>6, <1>7 DEF Rotate

\* What the end of a saver does to the open and to the sealed periods: those of
\* different savers are different.
LEMMA SaverEndsMaps ==
  ASSUME TypeOK, Shape, Timeline, NEW s \in savers, SaverEnds(s)
  PROVE  /\ Sealed' = IF s.child THEN Sealed \ {Period(s.st)} ELSE Sealed
         /\ OwnSavers' = OwnSavers \ {s}
         /\ s.child => Period(s.st) \in Sealed /\ HasState' = HasState /\ mem' = mem
         /\ ~s.child => ~HasState' /\ ~HasState /\ OwnSavers = {s} /\ ActiveFiles = {}
<1>1. savers' = savers \ {s}
  BY DEF SaverEnds
<1>2. ASSUME NEW t \in savers, t.child, s.child, t # s
      PROVE  Period(t.st) # Period(s.st)
  <2>1. t \in Kept /\ s \in Kept /\ t.name # ActiveName /\ s.name # ActiveName
    BY <1>2 DEF Kept, Shape, ActiveName
  <2>2. Apart(t.st, s.st) /\ t.st.end \in Nat /\ s.st.end \in Nat
    BY <1>2, <2>1, KeptTypes DEF Timeline
  <2>3. t.st.end # s.st.end
    BY <2>2 DEF Apart, Before
  <2>4. Period(t.st).end = t.st.end /\ Period(s.st).end = s.st.end
    BY DEF Period
  <2>5. QED
    BY <2>3, <2>4
<1>3. Sealed' = IF s.child THEN Sealed \ {Period(s.st)} ELSE Sealed
  <2>1. CASE s.child
    <3>1. Sealed' = {Period(x.st) : x \in ChildSavers \ {s}}
      BY <1>1 DEF Sealed, ChildSavers
    <3>2. \A x \in ChildSavers \ {s} : Period(x.st) # Period(s.st)
      BY <1>2, <2>1 DEF ChildSavers
    <3>3. QED
      BY <2>1, <3>1, <3>2 DEF Sealed
  <2>2. CASE ~s.child
    <3>1. ChildSavers' = ChildSavers
      BY <1>1, <2>2 DEF ChildSavers
    <3>2. QED
      BY <2>2, <3>1 DEF Sealed
  <2>3. QED
    BY <2>1, <2>2
<1>4. OwnSavers' = OwnSavers \ {s}
  BY <1>1 DEF OwnSavers
<1>5. s.child => Period(s.st) \in Sealed /\ HasState' = HasState /\ mem' = mem
  BY DEF Sealed, ChildSavers, SaverEnds, HasState
<1>6. ~s.child => ~HasState' /\ ~HasState /\ OwnSavers = {s} /\ ActiveFiles = {}
  BY WhereOpen DEF SaverEnds, Exit, HasState, Shape, OwnSavers
<1>7. QED
  BY <1>3, <1>4, <1>5, <1>6

\* A step that leaves the open, sealed and published periods as they are.
LEMMA LogStutters ==
  ASSUME OpenPeriod' = OpenPeriod, Sealed' = Sealed, Published' = Published,
         next' = next, faults' = faults
  PROVE  UNCHANGED PL!vars
BY DEF PL!vars, Sealed, Published, ChildSavers, Harmed

\* A step without a fault harms nothing.
LEMMA HarmlessStep ==
  ASSUME faults' = faults
  PROVE  Harmed' = Harmed
BY DEF Harmed

\* Faults are remembered by their harm, and any fault may harm the open period.
LEMMA FaultHarms ==
  ASSUME NEW k, Fault(k)
  PROVE  /\ Harmed \subseteq Harmed'
         /\ "open" \in Harmed'
         /\ k \in SaveFaults => "sealed" \in Harmed'
<1>1. faults' = faults \cup {k}
  BY DEF Fault
<1>2. QED
  BY <1>1 DEF Harmed

\* A fault destroys at most what is not published; finished periods are not
\* published only if it can hit their saves.
LEMMA LogLoses ==
  ASSUME NEW k, Fault(k),
         OpenPeriod' = {} \/ OpenPeriod' = OpenPeriod,
         Sealed' = Sealed \/ (Sealed' \subseteq Sealed /\ k \in SaveFaults),
         Published' = Published, next' = next
  PROVE  PL!Lose
BY FaultHarms DEF PL!Lose, Sealed, Published, ChildSavers

\* Every step is one of the period log, or leaves it unchanged.
LEMMA LogStep ==
  ASSUME OneDir, "unlink" \notin Faults, faults \subseteq Faults, IInv, NameFree, [Next]_vars
  PROVE  [PL!Next]_(PL!vars)
<1>0. TypeOK /\ Shape /\ Timeline
  BY DEF IInv
<1>1. CASE UNCHANGED vars
  BY <1>1, LogStutters DEF vars, OpenPeriod, HasState, ActiveFiles, Sealed, ChildSavers,
     Published, PeriodFiles
<1>2. ASSUME UNCHANGED <<savers, entries, next, mem, faults>>, HasState' = HasState
      PROVE  UNCHANGED PL!vars
  BY <1>2, LogStutters DEF OpenPeriod, ActiveFiles, Sealed, ChildSavers,
     Published, PeriodFiles
<1>3. CASE Start
  BY <1>2, <1>3 DEF Start, HasState
<1>4. CASE CreateAtStart
  <2>1. ~HasState /\ OwnSavers = {} /\ ActiveFiles = {}
    <3>1. ~HasState /\ OwnSavers = {}
      BY <1>0, <1>4, WhereOpen DEF CreateAtStart, HasState
    <3>2. ASSUME NEW f \in ActiveFiles
          PROVE  f.dir = cfg.dir
      BY <1>0, <1>4 DEF OneDir, TypeOK, Entries, ActiveFiles, Confs, CreateAtStart
    <3>3. QED
      BY <1>4, <3>1, <3>2 DEF CreateAtStart, Exists, ActiveFiles
  <2>2. OpenPeriod = {}
    BY <1>0, <2>1, WhereOpen
  <2>3. cfg.len \in Lengths /\ mem' = create_state(cfg.len, clock) /\ HasState'
    BY <1>0, <1>4 DEF CreateAtStart, TypeOK, Confs, HasState
  <2>4. OpenPeriod' = {Period(mem')}
    BY <2>3 DEF OpenPeriod
  <2>5. PL!Fresh(Period(mem'), Sealed \cup Published)
    BY <1>0, <2>3, SealedIsOver, CreatedIsFresh
  <2>6. Sealed' = Sealed /\ Published' = Published /\ next' = next
    BY <1>4 DEF CreateAtStart, Sealed, ChildSavers, Published, PeriodFiles
  <2>7. PL!Open
    BY <1>4, <2>2, <2>4, <2>5, <2>6, HarmlessStep DEF CreateAtStart, PL!Open, Sealed, Published, ChildSavers
  <2>8. QED
    BY <2>7 DEF PL!Next
<1>5. CASE LoadActiveState
  <2>1. PICK f \in ActiveFiles :
          /\ f.dir = cfg.dir
          /\ IF f.size = Chunks
             THEN mem' = f.st /\ pc' = "loaded" /\ UNCHANGED <<cfg, stop>>
             ELSE Exit
    BY <1>5 DEF LoadActiveState
  <2>2. mem' = f.st /\ pc' = "loaded"
    BY <1>0, <2>1 DEF Shape, ActiveFiles
  <2>3. UNCHANGED <<savers, entries, next, faults>> /\ ~HasState /\ HasState'
    BY <1>5, <2>2 DEF LoadActiveState, HasState
  <2>4. OwnSavers = {} /\ ActiveFiles = {f}
    <3>1. OwnSavers = {}
      BY <1>0, <1>5, WhereOpen DEF LoadActiveState
    <3>2. \A g \in ActiveFiles : g = f
      BY <1>0 DEF Timeline, ActiveFiles, Kept
    <3>3. QED
      BY <2>1, <3>1, <3>2
  <2>5. OpenPeriod = {Period(f.st)}
    BY <1>0, <2>3, <2>4, WhereOpen
  <2>6. OpenPeriod' = {Period(f.st)}
    BY <2>2, <2>3 DEF OpenPeriod
  <2>7. QED
    BY <2>3, <2>5, <2>6, LogStutters DEF Sealed, ChildSavers, Published, PeriodFiles
<1>6. CASE UnlinkActiveState
  <2>1. UNCHANGED <<savers, next, mem, faults>> /\ HasState /\ HasState'
    BY <1>6 DEF UnlinkActiveState, HasState
  <2>2. PeriodFiles' = PeriodFiles
    BY <1>6 DEF UnlinkActiveState, PeriodFiles
  <2>3. OpenPeriod' = OpenPeriod
    BY <2>1 DEF OpenPeriod
  <2>4. QED
    BY <2>1, <2>2, <2>3, LogStutters DEF Sealed, ChildSavers, Published
<1>7. CASE UnlinkFails
  BY <1>7 DEF UnlinkFails, Fault
<1>8. CASE StartupRotate
  BY <1>0, <1>8, RotateSeals DEF StartupRotate, PL!Next
<1>9. CASE recheck_handler
  BY <1>0, <1>9, RotateSeals DEF recheck_handler, PL!Next
<1>10. CASE StartupKeep
  BY <1>2, <1>10 DEF StartupKeep, HasState
<1>11. CASE init_dnstap_input
  BY <1>2, <1>11 DEF init_dnstap_input, HasState
<1>12. CASE BindFails
  <2>1. ~HasState' /\ OwnSavers = {} /\ ActiveFiles = {}
    BY <1>0, <1>12, WhereOpen DEF BindFails, Exit, HasState
  <2>2. UNCHANGED <<savers, entries, next>> /\ Fault("bind")
    BY <1>12 DEF BindFails
  <2>3. OpenPeriod' = {}
    BY <2>1, <2>2 DEF OpenPeriod, OwnSavers, ActiveFiles
  <2>4. PL!Lose
    BY <2>2, <2>3, LogLoses DEF Sealed, ChildSavers, Published, PeriodFiles
  <2>5. QED
    BY <2>4 DEF PL!Next
<1>13. CASE RegisterLookup
  <2>1. UNCHANGED <<savers, entries, faults>> /\ HasState /\ HasState' /\ next' = next + 1
    BY <1>13 DEF RegisterLookup, HasState
  <2>2. mem'.end = mem.end /\ mem'.lookups = mem.lookups \cup {next}
    BY <1>0, <1>13 DEF RegisterLookup, TypeOK, States
  <2>3. Period(mem') = [Period(mem) EXCEPT !.lookups = @ \cup {next}]
    BY <2>2 DEF Period
  <2>4. OpenPeriod = {Period(mem)} /\ OpenPeriod' = {Period(mem')}
    BY <2>1 DEF OpenPeriod
  <2>5. Sealed' = Sealed /\ Published' = Published
    BY <2>1 DEF Sealed, ChildSavers, Published, PeriodFiles
  <2>6. PL!Register
    BY <2>1, <2>3, <2>4, <2>5, HarmlessStep DEF PL!Register, Sealed, Published, ChildSavers
  <2>7. QED
    BY <2>6 DEF PL!Next
<1>14. CASE shutdown_handler
  BY <1>2, <1>14 DEF shutdown_handler, HasState
<1>15. CASE close_state
  <2> DEFINE n == Saver(ActiveName, FALSE)
  <2>1. /\ savers' = savers \cup {n} /\ UNCHANGED <<entries, next, faults>>
        /\ HasState /\ ~HasState' /\ ~n.child /\ n.st = mem
    BY <1>15 DEF close_state, HasState, Saver
  <2>2. OwnSavers = {} /\ ActiveFiles = {}
    BY <1>0, <1>15, WhereOpen DEF close_state
  <2> HIDE DEF n
  <2>3. OwnSavers' = {n} /\ ActiveFiles' = {} /\ ChildSavers' = ChildSavers
    BY <2>1, <2>2 DEF OwnSavers, ActiveFiles, ChildSavers
  <2>4. OpenPeriod = {Period(mem)} /\ OpenPeriod' = {Period(mem)}
    BY <2>1, <2>3 DEF OpenPeriod, OwnSavers
  <2>5. QED
    BY <2>1, <2>3, <2>4, LogStutters DEF Sealed, Published, PeriodFiles
<1>16. ASSUME NEW s \in savers, PersistWrite(s)
       PROVE  UNCHANGED PL!vars
  <2> DEFINE w == [s EXCEPT !.written = @ + 1]
  <2>1. w.st = s.st /\ w.child = s.child
    BY <1>0 DEF TypeOK, Savers
  <2>2. /\ savers' = (savers \ {s}) \cup {w}
        /\ UNCHANGED <<pc, mem, entries, next, faults>>
    BY <1>16 DEF PersistWrite
  <2> HIDE DEF w
  <2>3. {Period(x.st) : x \in OwnSavers'} = {Period(x.st) : x \in OwnSavers}
    BY <2>1, <2>2 DEF OwnSavers
  <2>4. Sealed' = Sealed
    BY <2>1, <2>2 DEF Sealed, ChildSavers
  <2>5. OpenPeriod' = OpenPeriod
    BY <2>2, <2>3 DEF OpenPeriod, OwnSavers, HasState, ActiveFiles
  <2>6. QED
    BY <2>2, <2>4, <2>5, LogStutters DEF Published, PeriodFiles
<1>17. ASSUME NEW s \in savers, PersistLink(s)
       PROVE  [PL!Next]_(PL!vars)
  <2>1. /\ SaverEnds(s) /\ entries' = entries \cup {Entry(s)}
        /\ UNCHANGED <<next, faults>>
        /\ Entry(s).st = s.st /\ Entry(s).name = s.name
    BY <1>17 DEF PersistLink, Entry
  <2>2. s.name # ActiveName <=> s.child
    BY <1>0 DEF Shape, Kept, ActiveName
  <2>3. CASE s.child
    <3>1. /\ Sealed' = Sealed \ {Period(s.st)} /\ Period(s.st) \in Sealed
          /\ OwnSavers' = OwnSavers /\ HasState' = HasState /\ mem' = mem
      BY <1>0, <2>1, <2>3, SaverEndsMaps DEF OwnSavers
    <3>2. PeriodFiles' = PeriodFiles \cup {Entry(s)} /\ ActiveFiles' = ActiveFiles
      BY <2>1, <2>2, <2>3 DEF PeriodFiles, ActiveFiles
    <3>3. Published' = Published \cup {Period(s.st)}
      BY <2>1, <3>2 DEF Published
    <3>4. OpenPeriod' = OpenPeriod
      BY <3>1, <3>2 DEF OpenPeriod, OwnSavers
    <3>5. PL!Publish
      BY <2>1, <3>1, <3>3, <3>4, HarmlessStep DEF PL!Publish, Sealed, Published, ChildSavers
    <3>6. QED
      BY <3>5 DEF PL!Next
  <2>4. CASE ~s.child
    <3>1. /\ Sealed' = Sealed /\ OwnSavers = {s} /\ OwnSavers' = {}
          /\ ~HasState' /\ ~HasState /\ ActiveFiles = {}
      BY <1>0, <2>1, <2>4, SaverEndsMaps
    <3>2. PeriodFiles' = PeriodFiles /\ ActiveFiles' = {Entry(s)}
      BY <2>1, <2>2, <2>4, <3>1 DEF PeriodFiles, ActiveFiles
    <3>3. OpenPeriod = {Period(s.st)} /\ OpenPeriod' = {Period(s.st)}
      BY <2>1, <3>1, <3>2 DEF OpenPeriod, OwnSavers
    <3>4. QED
      BY <2>1, <3>1, <3>2, <3>3, LogStutters DEF Published
  <2>5. QED
    BY <2>3, <2>4
<1>18. ASSUME NEW s \in savers, Persist(s)
       PROVE  [PL!Next]_(PL!vars)
  <2>1. ~PersistExists(s)
    BY <1>0 DEF PersistExists, NameFree
  <2>2. QED
    BY <1>16, <1>17, <1>18, <2>1 DEF Persist
<1>19. ASSUME NEW s \in savers, SaveFails(s)
       PROVE  [PL!Next]_(PL!vars)
  <2>1. SaverEnds(s) /\ entries' = entries /\ next' = next
    BY <1>19 DEF SaveFails
  <2>6. Fault("save") /\ "save" \in SaveFaults
    BY <1>19 DEF SaveFails, SaveFaults
  <2>2. Sealed' \subseteq Sealed
    BY <1>0, <2>1, SaverEndsMaps
  <2>3. CASE s.child
    <3>1. OwnSavers' = OwnSavers /\ HasState' = HasState /\ mem' = mem
      BY <1>0, <2>1, <2>3, SaverEndsMaps DEF OwnSavers
    <3>2. OpenPeriod' = OpenPeriod
      BY <2>1, <3>1 DEF OpenPeriod, OwnSavers, ActiveFiles
    <3>3. QED
      BY <2>1, <2>2, <2>6, <3>2, LogLoses DEF PL!Next, Published, PeriodFiles
  <2>4. CASE ~s.child
    <3>1. OwnSavers' = {} /\ ~HasState' /\ ActiveFiles = {}
      BY <1>0, <2>1, <2>4, SaverEndsMaps
    <3>2. OpenPeriod' = {}
      BY <2>1, <3>1 DEF OpenPeriod, OwnSavers, ActiveFiles
    <3>3. QED
      BY <2>1, <2>2, <2>6, <3>2, LogLoses DEF PL!Next, Published, PeriodFiles
  <2>5. QED
    BY <2>3, <2>4
<1>20. CASE Tick
  BY <1>2, <1>20 DEF Tick, HasState
<1>21. ASSUME NEW k, Fault(k), Exit, UNCHANGED <<entries, next>>,
              savers' \subseteq savers, \A x \in savers' : x.child,
              ChildSavers' = ChildSavers \/ k \in SaveFaults
       PROVE  [PL!Next]_(PL!vars)
  <2>1. ~HasState' /\ OwnSavers' = {} /\ ActiveFiles' = ActiveFiles
    BY <1>21 DEF Exit, HasState, OwnSavers, ActiveFiles
  <2>2. OpenPeriod' = {Period(f.st) : f \in ActiveFiles}
    BY <2>1 DEF OpenPeriod, OwnSavers
  <2>3. /\ Sealed' = Sealed \/ (Sealed' \subseteq Sealed /\ k \in SaveFaults)
        /\ Published' = Published
    BY <1>21 DEF Sealed, ChildSavers, Published, PeriodFiles
  <2>4. OpenPeriod' = {} \/ OpenPeriod' = OpenPeriod
    <3>1. CASE ActiveFiles = {}
      BY <2>2, <3>1
    <3>2. CASE ActiveFiles # {} /\ ~HasState
      <4>1. OwnSavers = {}
        BY <1>0, <3>2, WhereOpen
      <4>2. QED
        BY <1>0, <2>2, <3>2, <4>1, WhereOpen
    <3>3. CASE ActiveFiles # {} /\ HasState
      <4>1. pc = "loaded"
        BY <1>0, <3>3, WhereOpen DEF HasState
      <4>2. \A f \in ActiveFiles : f.st = mem
        BY <1>0, <4>1 DEF Shape, ActiveFiles, OneDir, TypeOK, Confs, Entries
      <4>3. OpenPeriod' = {Period(mem)}
        BY <2>2, <3>3, <4>2
      <4>4. QED
        BY <3>3, <4>3 DEF OpenPeriod
    <3>4. QED
      BY <3>1, <3>2, <3>3
  <2>5. QED
    BY <1>21, <2>3, <2>4, LogLoses DEF PL!Next
<1>22. CASE Kill
  <2>1. /\ Fault("kill") /\ Exit /\ UNCHANGED <<entries, next>>
        /\ savers' = ChildSavers /\ ChildSavers' = ChildSavers
    BY <1>22 DEF Kill, ChildSavers
  <2>2. QED
    BY <1>21, <2>1 DEF ChildSavers
<1>23. CASE PowerFail
  <2>1. /\ Fault("power") /\ "power" \in SaveFaults /\ Exit /\ savers' = {}
        /\ UNCHANGED <<entries, next>>
    BY <1>23 DEF PowerFail, SaveFaults
  <2>2. QED
    BY <1>21, <2>1
<1>24. CASE RegisterDies \/ DryRunDies
  <2>1. PICK k : Fault(k)
    BY <1>24 DEF RegisterDies, DryRunDies
  <2>2. Exit /\ UNCHANGED <<savers, entries, next>> /\ pc = "running"
    BY <1>24 DEF RegisterDies, DryRunDies
  <2>3. \A x \in savers' : x.child
    BY <1>0, <2>2 DEF Shape
  <2>4. QED
    BY <1>21, <2>1, <2>2, <2>3 DEF ChildSavers
<1>25. QED
  BY <1>1, <1>3, <1>4, <1>5, <1>6, <1>7, <1>8, <1>9, <1>10, <1>11, <1>12, <1>13,
     <1>14, <1>15, <1>18, <1>19, <1>20, <1>22, <1>23, <1>24 DEF Next, Startup

\* honas-gather with one state directory, whose loaded active_state can be
\* removed, implements the abstract period log: no start, stop, reload, save or
\* fault splits, merges, duplicates or reorders periods, none is dropped until a
\* fault strikes, and no kill of the process, failing start or end by its own
\* doing drops more than the open one.
THEOREM ImplementsPeriodLogSafely ==
  ASSUME OneDir, "unlink" \notin Faults
  PROVE  Spec => PL!Spec
<1>1. Init => PL!Init
  BY DEF Init, PL!Init, Harmed, OpenPeriod, HasState, ActiveFiles, PeriodFiles
<1>2. faults \subseteq Faults /\ IInv /\ NameFree /\ [Next]_vars
        => [PL!Next]_(PL!vars)
  BY LogStep
<1>3. QED
  BY <1>1, <1>2, InductiveInvariant, NameFreeHolds, FaultsAllowed, PTL DEF Spec, PL!Spec

\* With one state directory and no fault a clean shutdown leaves the state in
\* active_state: close_state() finds the name free.
THEOREM ShutdownKeepsStateInOneDir ==
  ASSUME OneDir, Faults = {}
  PROVE  Spec => ShutdownKeepsState
<1>1. faults \subseteq Faults /\ IInv /\ NameFree /\ [Next]_vars =>
        [\A s \in savers \ savers' :
           ~s.child /\ FullyWritten(s) /\ faults = {} => Entry(s) \in entries']_vars
  <2> SUFFICES ASSUME IInv, NameFree, Next, NEW s \in savers, s \notin savers',
                      FullyWritten(s), faults = {}
               PROVE  Entry(s) \in entries'
    BY DEF vars
  <2>1. \A k : ~Fault(k)
    BY DEF Fault
  <2>2. PICK t \in savers : Persist(t)
    BY <2>1 DEF Next, Startup, Start, CreateAtStart, LoadActiveState,
           UnlinkActiveState, UnlinkFails, StartupRotate, Rotate, finalize_state,
           StartupKeep, init_dnstap_input, BindFails, RegisterDies, DryRunDies, recheck_handler,
           RegisterLookup, shutdown_handler, close_state, SaveFails, Tick, Kill, PowerFail
  <2>3. t = s
    BY <2>2 DEF Persist, PersistWrite, PersistLink, PersistExists, SaverEnds
  <2>4. PersistLink(s)
    BY <2>2, <2>3 DEF Persist, PersistWrite, PersistExists, NameFree
  <2>5. QED
    BY <2>4 DEF PersistLink
<1>2. QED
  BY <1>1, InductiveInvariant, NameFreeHolds, FaultsAllowed, PTL DEF Spec, ShutdownKeepsState

=============================================================================
