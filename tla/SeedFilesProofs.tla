---------------------------- MODULE SeedFilesProofs ----------------------------
(***************************************************************************)
(* Proofs about SeedFiles, for any variants, revisions and contents.       *)
(*                                                                         *)
(* The inductive invariant says what the files of the seed at hand are at  *)
(* each line of _create_variant, in terms of what they were when the run   *)
(* started; those of other seeds do not change.                            *)
(***************************************************************************)
EXTENDS SeedFiles, TLAPS

\* The files of a seed while its replacement, which holds c, is there too.
Replaced(t, c) ==
  Held(files, t) =
    {f \in Held(began, t) : f.stamp # clock} \cup {File(t, clock, c)}

Replacing == pc \in {"replace", "compare", "remove"}

StageOK ==
  /\ pc = "list" => Held(files, task) = Held(began, task)
  /\ pc = "create" =>
       Held(began, task) = {} /\ Held(files, task) = {File(task, clock, Torn)}
  /\ pc = "replace" => Replaced(task, Torn)
  /\ pc \in {"compare", "remove"} => Replaced(task, content(task))
  /\ Replacing => recreate /\ \E f \in Held(began, task) : out = Name(f)

\* At most one file, and none that is torn.
Orderly(F, t) ==
  /\ \A f \in Held(F, t) : f.content # Torn
  /\ \A f, g \in Held(F, t) : f = g

OrderlyUnlessCut ==
  ~ cut =>
    /\ pc = "idle" => task = None
    /\ \A t \in Tasks : Orderly(began, t)
    /\ \A t \in Tasks \ {task} : Orderly(files, t)

IInv ==
  /\ TypeOK
  /\ StageOK
  /\ OrderlyUnlessCut
  /\ RecreateAligns
  /\ RestUntouched
  /\ NeverWithoutSeed

-----------------------------------------------------------------------------
(* The directory.                                                          *)

LEMMA HeldIs ==
  ASSUME NEW F, F \subseteq Files, NEW t \in Tasks
  PROVE  Held(F, t) = {f \in F : f.dir = t.dir /\ f.variant = t.variant}
<1>1. ASSUME NEW f \in F
      PROVE  [dir |-> f.dir, variant |-> f.variant] = t
               <=> f.dir = t.dir /\ f.variant = t.variant
  BY DEF Tasks, Files
<1> QED
  BY <1>1 DEF Held

LEMMA FileType ==
  ASSUME NEW t \in Tasks, NEW s \in 0..MaxMinutes, NEW c \in Contents \cup {Torn}
  PROVE  /\ File(t, s, c) \in Files
         /\ File(t, s, c).dir = t.dir /\ File(t, s, c).variant = t.variant
         /\ File(t, s, c).stamp = s /\ File(t, s, c).content = c
BY DEF File, Files, Tasks

\* Two files have the same name if their three parts agree.
LEMMA SameName ==
  ASSUME NEW f \in Files, NEW g \in Files
  PROVE  Name(f) = Name(g) <=>
           f.dir = g.dir /\ f.variant = g.variant /\ f.stamp = g.stamp
BY DEF Name

\* Writing a file changes the files of its seed only.
LEMMA WriteHeld ==
  ASSUME NEW F, F \subseteq Files, NEW t \in Tasks, NEW s \in 0..MaxMinutes,
         NEW c \in Contents \cup {Torn}
  PROVE  /\ Write(F, t, s, c) \subseteq Files
         /\ Held(Write(F, t, s, c), t) =
              {f \in Held(F, t) : f.stamp # s} \cup {File(t, s, c)}
         /\ \A u \in Tasks \ {t} : Held(Write(F, t, s, c), u) = Held(F, u)
<1> DEFINE n == File(t, s, c)
<1> DEFINE W == Write(F, t, s, c)
<1>1. n \in Files /\ n.dir = t.dir /\ n.variant = t.variant /\ n.stamp = s
  BY FileType
<1>2. W = {f \in F : Name(f) # Name(n)} \cup {n}
  BY DEF Write
<1> HIDE DEF n, W
<1>3. W \subseteq Files
  BY <1>1, <1>2
<1>4. \A f \in F : Name(f) = Name(n) <=>
        f.dir = t.dir /\ f.variant = t.variant /\ f.stamp = s
  BY <1>1, SameName
<1>5. /\ Held(W, t) = {f \in W : f.dir = t.dir /\ f.variant = t.variant}
      /\ Held(F, t) = {f \in F : f.dir = t.dir /\ f.variant = t.variant}
  BY <1>3, HeldIs
<1>6. Held(W, t) = {f \in Held(F, t) : f.stamp # s} \cup {n}
  BY <1>1, <1>2, <1>4, <1>5
<1>7. ASSUME NEW u \in Tasks \ {t}
      PROVE  Held(W, u) = Held(F, u)
  <2>1. ~ (u.dir = t.dir /\ u.variant = t.variant)
    BY DEF Tasks
  <2>2. /\ Held(W, u) = {f \in W : f.dir = u.dir /\ f.variant = u.variant}
        /\ Held(F, u) = {f \in F : f.dir = u.dir /\ f.variant = u.variant}
    BY <1>3, HeldIs
  <2> QED
    BY <1>1, <1>2, <1>4, <2>1, <2>2
<1> QED
  BY <1>3, <1>6, <1>7 DEF n, W

\* Removing one does too.
LEMMA RemoveHeld ==
  ASSUME NEW F, F \subseteq Files, NEW t \in Tasks, NEW g \in Files,
         g.dir = t.dir, g.variant = t.variant
  PROVE  /\ Held({f \in F : Name(f) # Name(g)}, t) =
              {f \in Held(F, t) : f.stamp # g.stamp}
         /\ \A u \in Tasks \ {t} :
              Held({f \in F : Name(f) # Name(g)}, u) = Held(F, u)
<1> DEFINE R == {f \in F : Name(f) # Name(g)}
<1>1. \A f \in F : Name(f) = Name(g) <=>
        f.dir = t.dir /\ f.variant = t.variant /\ f.stamp = g.stamp
  BY SameName
<1>2. R \subseteq Files
  OBVIOUS
<1>3. R = {f \in F : ~ (f.dir = t.dir /\ f.variant = t.variant /\ f.stamp = g.stamp)}
  BY <1>1
<1> HIDE DEF R
<1>4. /\ Held(R, t) = {f \in R : f.dir = t.dir /\ f.variant = t.variant}
      /\ Held(F, t) = {f \in F : f.dir = t.dir /\ f.variant = t.variant}
  BY <1>2, HeldIs
<1>5. Held(R, t) = {f \in Held(F, t) : f.stamp # g.stamp}
  BY <1>3, <1>4
<1>6. ASSUME NEW u \in Tasks \ {t}
      PROVE  Held(R, u) = Held(F, u)
  <2>1. ~ (u.dir = t.dir /\ u.variant = t.variant)
    BY DEF Tasks
  <2>2. /\ Held(R, u) = {f \in R : f.dir = u.dir /\ f.variant = u.variant}
        /\ Held(F, u) = {f \in F : f.dir = u.dir /\ f.variant = u.variant}
    BY <1>2, HeldIs
  <2> QED
    BY <1>3, <2>1, <2>2
<1> QED
  BY <1>5, <1>6 DEF R

\* What a seed should hold is content.
LEMMA ContentType ==
  ASSUME TypeOK, NEW t \in Seeds(defined)
  PROVE  t \in Tasks /\ content(t) \in Contents /\ content(t) # Torn
<1>1. t \in Tasks /\ defined[t.variant] \in Revisions
  BY DEF Seeds, TypeOK, Tasks
<1>2. t.dir = "proto" => serializeProto[defined[t.variant]] # None
  BY DEF Seeds
<1>3. t.dir \in {"bytearray", "proto"}
  BY <1>1 DEF Tasks, Directories
<1> QED
  BY <1>1, <1>2, <1>3, SerializeAssumption DEF content

\* While the generator is at a seed there is one, and it is no longer to do.
LEMMA TaskType ==
  ASSUME TypeOK, pc \in {"list", "create", "replace", "compare", "remove"}
  PROVE  /\ task \in Seeds(defined) /\ task \in Tasks /\ task \notin todo
         /\ task # None
         /\ content(task) \in Contents /\ content(task) # Torn
         /\ clock \in 0..MaxMinutes
         /\ Existing(task) = Held(files, task)
<1>1. task \in Seeds(defined) /\ task \notin todo /\ clock \in 0..MaxMinutes
  BY DEF TypeOK
<1>2. task \in Tasks /\ content(task) \in Contents /\ content(task) # Torn
  BY <1>1, ContentType
<1>3. files \subseteq Files
  BY DEF TypeOK
<1>4. Existing(task) = Held(files, task)
  BY <1>2, <1>3, HeldIs DEF Existing
<1>5. task # None
  BY <1>2, SerializeAssumption
<1> QED
  BY <1>1, <1>2, <1>4, <1>5

-----------------------------------------------------------------------------
(* What every step inside a run has in common.                             *)

AtTask == pc \in {"list", "create", "replace", "compare", "remove"}

\* The files of other seeds, and what the run was started with, stay.
OthersStay ==
  /\ \A t \in Tasks \ {task} : Held(files', t) = Held(files, t)
  /\ files' \subseteq Files
  /\ ~ recreate => began \subseteq files'
  /\ UNCHANGED <<todo, run>>

\* The seed at hand has an intact file if it had one of an earlier minute.
TaskIsKept ==
  (\E f \in Held(began, task) : f.content # Torn) /\ ~ SameMinute(task)
    => \E f \in Held(files', task) : f.content # Torn

\* The files of the seed at hand are what the run is to leave.
TaskIsDone ==
  /\ recreate /\ WasOrdinary(task) =>
       \E s \in 0..MaxMinutes : Held(files', task) = {File(task, s, content(task))}
  /\ ~ cut => Orderly(files', task)

Promises == OrderlyUnlessCut /\ RecreateAligns /\ RestUntouched /\ NeverWithoutSeed

LEMMA KeptForAll ==
  ASSUME IInv, AtTask, OthersStay, TaskIsKept
  PROVE  NeverWithoutSeed'
<1>1. SUFFICES ASSUME NEW t \in Tasks,
                      (\E f \in Held(began, t) : f.content # Torn) /\ ~ SameMinute(t)
               PROVE  \E f \in Held(files', t) : f.content # Torn
  BY DEF NeverWithoutSeed, Held, SameMinute, OthersStay, run
<1>2. CASE t = task
  BY <1>1, <1>2 DEF TaskIsKept
<1>3. CASE t # task
  <2>1. Held(files', t) = Held(files, t)
    BY <1>3 DEF OthersStay
  <2> QED
    BY <1>1, <2>1 DEF IInv, NeverWithoutSeed
<1> QED
  BY <1>2, <1>3

\* The generator is still at the seed, or the run ends there.
LEMMA StepAtTask ==
  ASSUME IInv, AtTask, OthersStay, TaskIsKept, task' = task,
         cut => cut', pc' = "idle" => cut'
  PROVE  Promises'
<1>1. NeverWithoutSeed'
  BY KeptForAll
<1>2. task # None /\ todo' = todo /\ began' = began /\ recreate' = recreate
        /\ defined' = defined /\ clock' = clock
  BY TaskType DEF IInv, AtTask, OthersStay, run
<1>3. Handled' = Handled
  BY <1>2 DEF Handled
<1>4. \A t \in Handled : t \in Tasks \ {task}
  BY DEF Handled, Seeds
<1>5. RecreateAligns'
  <2>1. SUFFICES ASSUME recreate, NEW t \in Handled, WasOrdinary(t)
                 PROVE  \E s \in 0..MaxMinutes :
                          Held(files', t) = {File(t, s, content(t))}
    BY <1>2, <1>3 DEF RecreateAligns, WasOrdinary, SameMinute, Held, File, content
  <2>2. Held(files', t) = Held(files, t)
    BY <1>4 DEF OthersStay
  <2> QED
    BY <2>1, <2>2 DEF IInv, RecreateAligns
<1>6. RestUntouched'
  <2>1. SUFFICES ASSUME NEW t \in Tasks \ (Handled \cup {task})
                 PROVE  Held(files', t) = Held(began, t)
    BY <1>2, <1>3 DEF RestUntouched, Held, OthersStay
  <2> QED
    BY <2>1 DEF IInv, RestUntouched, OthersStay
<1>7. OrderlyUnlessCut'
  <2>1. SUFFICES ASSUME ~ cut
                 PROVE  /\ \A t \in Tasks : Orderly(began, t)
                        /\ \A t \in Tasks \ {task} : Orderly(files', t)
    BY <1>2 DEF OrderlyUnlessCut, Orderly, Held
  <2>2. \A t \in Tasks : Orderly(began, t)
    BY <2>1 DEF IInv, OrderlyUnlessCut
  <2>3. ASSUME NEW t \in Tasks \ {task}
        PROVE  Orderly(files', t)
    BY <2>1 DEF IInv, OrderlyUnlessCut, OthersStay, Orderly
  <2> QED
    BY <2>2, <2>3
<1> QED
  BY <1>1, <1>5, <1>6, <1>7 DEF Promises

\* The generator is through with the seed.
LEMMA StepReturns ==
  ASSUME IInv, AtTask, OthersStay, TaskIsKept, TaskIsDone, Return, cut' = cut
  PROVE  Promises'
<1>1. NeverWithoutSeed'
  BY KeptForAll
<1>2. task # None /\ todo' = todo /\ began' = began /\ recreate' = recreate
        /\ defined' = defined /\ clock' = clock
  BY TaskType DEF IInv, AtTask, OthersStay, run
<1>3. /\ task' = None /\ pc' = "next" /\ None \notin Tasks
      /\ task \in Tasks /\ task \in Seeds(defined) /\ task \notin todo
  BY TaskType, SerializeAssumption DEF Return, IInv, AtTask
<1>4. Handled' = Handled \cup {task}
  BY <1>2, <1>3 DEF Handled, Seeds
<1>5. \A t \in Handled : t \in Tasks \ {task}
  BY DEF Handled, Seeds
<1>6. RecreateAligns'
  <2>1. SUFFICES ASSUME recreate, NEW t \in Handled \cup {task}, WasOrdinary(t)
                 PROVE  \E s \in 0..MaxMinutes :
                          Held(files', t) = {File(t, s, content(t))}
    BY <1>2, <1>4 DEF RecreateAligns, WasOrdinary, SameMinute, Held, File, content
  <2>2. CASE t = task
    BY <2>1, <2>2 DEF TaskIsDone
  <2>3. CASE t \in Handled
    <3>1. Held(files', t) = Held(files, t)
      BY <1>5, <2>3 DEF OthersStay
    <3> QED
      BY <2>1, <2>3, <3>1 DEF IInv, RecreateAligns
  <2> QED
    BY <2>2, <2>3
<1>7. RestUntouched'
  <2>1. SUFFICES ASSUME NEW t \in Tasks \ (Handled \cup {task})
                 PROVE  Held(files', t) = Held(began, t)
    BY <1>2, <1>3, <1>4 DEF RestUntouched, Held, OthersStay
  <2> QED
    BY <2>1 DEF IInv, RestUntouched, OthersStay
<1>8. OrderlyUnlessCut'
  <2>1. SUFFICES ASSUME ~ cut
                 PROVE  /\ \A t \in Tasks : Orderly(began, t)
                        /\ \A t \in Tasks : Orderly(files', t)
    BY <1>2, <1>3 DEF OrderlyUnlessCut, Orderly, Held
  <2>2. \A t \in Tasks : Orderly(began, t)
    BY <2>1 DEF IInv, OrderlyUnlessCut
  <2>3. ASSUME NEW t \in Tasks
        PROVE  Orderly(files', t)
    <3>1. CASE t = task
      BY <2>1, <3>1 DEF TaskIsDone
    <3>2. CASE t # task
      BY <2>1, <3>2 DEF IInv, OrderlyUnlessCut, OthersStay, Orderly
    <3> QED
      BY <3>1, <3>2
  <2> QED
    BY <2>2, <2>3
<1> QED
  BY <1>1, <1>6, <1>7, <1>8 DEF Promises

-----------------------------------------------------------------------------
(* The steps.                                                              *)

\* The generator's files are not touched by a step that leaves them alone.
LEMMA NothingWritten ==
  ASSUME IInv, AtTask, UNCHANGED <<files, todo, run>>
  PROVE  OthersStay /\ TaskIsKept
<1>1. OthersStay
  BY DEF OthersStay, IInv, TypeOK, RestUntouched, Held, run
<1>2. TaskIsKept
  <2>1. task \in Tasks
    BY TaskType DEF IInv, AtTask
  <2> QED
    BY <2>1 DEF TaskIsKept, IInv, NeverWithoutSeed, Held
<1> QED
  BY <1>1, <1>2

\* One that writes a file of the seed at hand changes that file only.
LEMMA TaskWritten ==
  ASSUME IInv, AtTask, UNCHANGED <<todo, run>>, NEW c \in Contents \cup {Torn},
         files' = Write(files, task, clock, c),
         ~ recreate => Held(began, task) = {}
  PROVE  /\ OthersStay
         /\ Held(files', task) =
              {f \in Held(files, task) : f.stamp # clock} \cup {File(task, clock, c)}
<1>1. /\ task \in Tasks /\ clock \in 0..MaxMinutes /\ files \subseteq Files
      /\ began \subseteq Files
  BY TaskType DEF IInv, AtTask, TypeOK
<1>2. /\ files' \subseteq Files
      /\ Held(files', task) =
           {f \in Held(files, task) : f.stamp # clock} \cup {File(task, clock, c)}
      /\ \A u \in Tasks \ {task} : Held(files', u) = Held(files, u)
  BY <1>1, WriteHeld
<1>3. ~ recreate => began \subseteq files'
  <2>1. SUFFICES ASSUME ~ recreate, NEW f \in began
                 PROVE  f \in files'
    OBVIOUS
  <2>2. f \in files /\ f \in Files
    BY <1>1, <2>1 DEF IInv, RestUntouched
  <2>3. ~ (f.dir = task.dir /\ f.variant = task.variant)
    <3>1. Held(began, task) = {g \in began : g.dir = task.dir /\ g.variant = task.variant}
      BY <1>1, HeldIs
    <3> QED
      BY <2>1, <3>1
  <2>4. Name(f) # Name(File(task, clock, c))
    BY <1>1, <2>2, <2>3, FileType, SameName
  <2> QED
    BY <2>2, <2>4 DEF Write
<1> QED
  BY <1>2, <1>3 DEF OthersStay

LEMMA StartStep ==
  ASSUME IInv, Start
  PROVE  IInv'
<1>1. /\ pc' = "next" /\ task' = None /\ out' = None /\ began' = files
      /\ files' = files /\ cut' = cut /\ todo' = Seeds(defined')
      /\ defined' \in Definitions /\ clock' \in 0..MaxMinutes /\ recreate' \in BOOLEAN
  BY SerializeAssumption DEF Start, IInv, TypeOK
<1>2. Seeds(defined') = Seeds(defined)' /\ Handled' = {}
  BY <1>1 DEF Seeds, Handled
<1>3. TypeOK'
  BY <1>1, <1>2, SerializeAssumption DEF TypeOK, IInv
<1>4. StageOK'
  BY <1>1 DEF StageOK, Replacing
<1>5. OrderlyUnlessCut'
  <2>1. SUFFICES ASSUME ~ cut, NEW t \in Tasks
                 PROVE  Orderly(files, t)
    BY <1>1 DEF OrderlyUnlessCut, Orderly, Held
  <2>2. t # task
    BY <2>1, SerializeAssumption DEF IInv, OrderlyUnlessCut, Start
  <2> QED
    BY <2>1, <2>2 DEF IInv, OrderlyUnlessCut
<1>6. RecreateAligns' /\ RestUntouched' /\ NeverWithoutSeed'
  BY <1>1, <1>2 DEF RecreateAligns, RestUntouched, NeverWithoutSeed, Held
<1> QED
  BY <1>3, <1>4, <1>5, <1>6 DEF IInv

LEMMA NextSeedStep ==
  ASSUME IInv, NextSeed
  PROVE  IInv'
<1>1. PICK t \in todo : task' = t /\ todo' = todo \ {t}
  BY DEF NextSeed
<1>2. /\ pc = "next" /\ task = None /\ pc' = "list"
      /\ UNCHANGED <<files, out, cut, clock, defined, recreate, began>>
  BY DEF NextSeed, run, IInv, TypeOK
<1>3. t \in Tasks /\ t \in Seeds(defined) /\ None \notin Tasks /\ t # None
  BY SerializeAssumption DEF IInv, TypeOK, Seeds
<1>4. Seeds(defined)' = Seeds(defined) /\ Handled' = Handled /\ t \notin Handled
  BY <1>1, <1>2, <1>3 DEF Seeds, Handled
<1>5. TypeOK'
  BY <1>1, <1>2, <1>3, <1>4 DEF TypeOK, IInv
<1>6. Held(files, t) = Held(began, t)
  BY <1>3, <1>4, <1>2 DEF IInv, RestUntouched
<1>7. StageOK'
  BY <1>1, <1>2, <1>6 DEF StageOK, Replacing, Held
<1>8. OrderlyUnlessCut'
  <2>1. SUFFICES ASSUME ~ cut, NEW u \in Tasks
                 PROVE  Orderly(began, u) /\ Orderly(files, u)
    BY <1>2 DEF OrderlyUnlessCut, Orderly, Held
  <2>2. u # task
    BY <1>2, <1>3
  <2> QED
    BY <2>1, <2>2 DEF IInv, OrderlyUnlessCut
<1>9. RecreateAligns'
  BY <1>2, <1>4
     DEF IInv, RecreateAligns, WasOrdinary, SameMinute, Held, File, content
<1>10. RestUntouched'
  BY <1>1, <1>2, <1>3, <1>4 DEF IInv, RestUntouched, Held
<1>11. NeverWithoutSeed'
  BY <1>2 DEF IInv, NeverWithoutSeed, Held, SameMinute
<1> QED
  BY <1>5, <1>7, <1>8, <1>9, <1>10, <1>11 DEF IInv

\* A step that only moves pc to "idle": the run ends, or is cut.
LEMMA IdleStep ==
  ASSUME IInv, pc' = "idle", UNCHANGED <<files, todo, task, out, run>>,
         cut => cut', cut' \in BOOLEAN, task = None \/ cut'
  PROVE  IInv'
<1>1. UNCHANGED <<files, todo, task, out, clock, defined, recreate, began>>
  BY DEF run
<1>2. Seeds(defined)' = Seeds(defined) /\ Handled' = Handled
  BY <1>1 DEF Seeds, Handled
<1>3. TypeOK'
  BY <1>1, <1>2 DEF IInv, TypeOK
<1>4. StageOK'
  BY DEF StageOK, Replacing
<1>5. OrderlyUnlessCut'
  <2>1. SUFFICES ASSUME ~ cut'
                 PROVE  /\ task' = None
                        /\ \A t \in Tasks : Orderly(began, t)'
                        /\ \A t \in Tasks \ {task} : Orderly(files, t)'
    BY <1>1 DEF OrderlyUnlessCut
  <2> QED
    BY <1>1, <2>1 DEF IInv, OrderlyUnlessCut, Orderly, Held
<1>6. RecreateAligns'
  BY <1>1, <1>2
     DEF IInv, RecreateAligns, WasOrdinary, SameMinute, Held, File, content
<1>7. RestUntouched'
  BY <1>1, <1>2 DEF IInv, RestUntouched, Held
<1>8. NeverWithoutSeed'
  BY <1>1 DEF IInv, NeverWithoutSeed, Held, SameMinute
<1> QED
  BY <1>3, <1>4, <1>5, <1>6, <1>7, <1>8 DEF IInv

LEMMA CreateFileStep ==
  ASSUME IInv, CreateFile
  PROVE  IInv'
<1>1. /\ pc = "list" /\ pc' = "create" /\ AtTask
      /\ Held(files, task) = {} /\ Held(began, task) = {}
      /\ UNCHANGED <<todo, task, out, cut, run>>
  BY TaskType DEF CreateFile, AtTask, IInv, StageOK
<1>2. /\ OthersStay
      /\ Held(files', task) = {File(task, clock, Torn)}
  BY <1>1, TaskWritten DEF CreateFile
<1>3. Promises'
  BY <1>1, <1>2, StepAtTask DEF TaskIsKept
<1>4. TypeOK'
  BY <1>1, <1>2 DEF IInv, TypeOK, OthersStay, run, Seeds
<1>5. StageOK'
  BY <1>1, <1>2 DEF StageOK, Replacing, Held, File, run
<1> QED
  BY <1>3, <1>4, <1>5 DEF IInv, Promises

LEMMA FillFileStep ==
  ASSUME IInv, FillFile
  PROVE  IInv'
<1>1. /\ pc = "create" /\ AtTask /\ Return /\ UNCHANGED <<todo, cut, run>>
      /\ Held(began, task) = {} /\ Held(files, task) = {File(task, clock, Torn)}
  BY DEF FillFile, AtTask, IInv, StageOK
<1>2. /\ task \in Tasks /\ content(task) \in Contents /\ content(task) # Torn
      /\ clock \in 0..MaxMinutes
  BY <1>1, TaskType DEF IInv
<1>3. /\ OthersStay
      /\ Held(files', task) =
           {f \in Held(files, task) : f.stamp # clock} \cup {File(task, clock, content(task))}
  BY <1>1, <1>2, TaskWritten DEF FillFile
<1>4. Held(files', task) = {File(task, clock, content(task))}
  BY <1>1, <1>2, <1>3, FileType
<1>5. TaskIsDone
  BY <1>2, <1>4, FileType DEF TaskIsDone, Orderly
<1>6. Promises'
  BY <1>1, <1>3, <1>5, StepReturns DEF TaskIsKept
<1>7. TypeOK' /\ StageOK'
  BY <1>1, <1>3 DEF IInv, TypeOK, StageOK, Replacing, Return, OthersStay, run, Seeds
<1> QED
  BY <1>6, <1>7 DEF IInv, Promises

LEMMA KeepFileStep ==
  ASSUME IInv, KeepFile
  PROVE  IInv'
<1>1. /\ pc = "list" /\ AtTask /\ Return /\ UNCHANGED <<files, todo, cut, run>>
      /\ Held(files, task) = Held(began, task)
      /\ task \in Tasks /\ Existing(task) = Held(files, task)
      /\ content(task) \in Contents /\ files \subseteq Files
  BY TaskType DEF KeepFile, AtTask, IInv, StageOK, TypeOK
<1>2. OthersStay /\ TaskIsKept
  BY <1>1, NothingWritten
<1>3. TaskIsDone
  <2>1. ASSUME recreate, WasOrdinary(task)
        PROVE  \E s \in 0..MaxMinutes : Held(files, task) = {File(task, s, content(task))}
    <3>1. PICK f \in Held(files, task) : f.content = content(task)
      BY <1>1, <2>1 DEF KeepFile
    <3>2. Held(files, task) = {f}
      BY <1>1, <2>1 DEF WasOrdinary
    <3>3. /\ f \in Files /\ f.dir = task.dir /\ f.variant = task.variant
          /\ f.stamp \in 0..MaxMinutes
      BY <1>1, HeldIs DEF Files
    <3>4. f = File(task, f.stamp, content(task))
      BY <1>1, <3>1, <3>3 DEF Files, File
    <3> QED
      BY <3>2, <3>3, <3>4
  <2>2. ASSUME ~ cut
        PROVE  Orderly(files, task)
    BY <1>1, <2>2 DEF IInv, OrderlyUnlessCut, Orderly
  <2> QED
    BY <1>1, <2>1, <2>2 DEF TaskIsDone
<1>4. Promises'
  BY <1>1, <1>2, <1>3, StepReturns
<1>5. TypeOK' /\ StageOK'
  BY <1>1 DEF IInv, TypeOK, StageOK, Replacing, Return, run, Seeds
<1> QED
  BY <1>4, <1>5 DEF IInv, Promises

\* While the seed is being replaced its old files of earlier minutes are there.
LEMMA OldIsKept ==
  ASSUME IInv, AtTask, NEW n,
         Held(files', task) = {f \in Held(began, task) : f.stamp # clock} \cup {n}
  PROVE  TaskIsKept
BY DEF TaskIsKept, SameMinute

LEMMA ReplaceFileStep ==
  ASSUME IInv, ReplaceFile
  PROVE  IInv'
<1>1. /\ pc = "list" /\ pc' = "replace" /\ AtTask /\ recreate
      /\ Held(files, task) = Held(began, task)
      /\ Existing(task) = Held(files, task)
      /\ UNCHANGED <<todo, task, cut, run>>
      /\ task \in Tasks /\ files \subseteq Files
  BY TaskType DEF ReplaceFile, AtTask, IInv, StageOK, TypeOK
<1>2. PICK f \in Held(began, task) : out' = Name(f)
  BY <1>1 DEF ReplaceFile
<1>3. /\ OthersStay
      /\ Held(files', task) =
           {g \in Held(began, task) : g.stamp # clock} \cup {File(task, clock, Torn)}
  BY <1>1, TaskWritten DEF ReplaceFile
<1>4. Promises'
  BY <1>1, <1>3, OldIsKept, StepAtTask
<1>5. TypeOK'
  <2>1. f \in Files
    BY <1>1 DEF Held
  <2>2. out' \in Names
    BY <1>2, <2>1, SerializeAssumption DEF Name, Names, Files
  <2> QED
    BY <1>1, <1>3, <2>2 DEF IInv, TypeOK, OthersStay, run, Seeds
<1>6. StageOK'
  BY <1>1, <1>2, <1>3 DEF StageOK, Replacing, Replaced, Held, File, run
<1> QED
  BY <1>4, <1>5, <1>6 DEF IInv, Promises

LEMMA FillReplacementStep ==
  ASSUME IInv, FillReplacement
  PROVE  IInv'
<1>1. /\ pc = "replace" /\ AtTask /\ pc' \in {"compare", "remove"} /\ recreate
      /\ Replaced(task, Torn)
      /\ UNCHANGED <<todo, task, out, cut, run>>
      /\ \E f \in Held(began, task) : out = Name(f)
  BY DEF FillReplacement, AtTask, IInv, StageOK, Replacing
<1>2. /\ task \in Tasks /\ content(task) \in Contents /\ clock \in 0..MaxMinutes
  BY <1>1, TaskType DEF IInv
<1>3. /\ OthersStay
      /\ Held(files', task) =
           {g \in Held(files, task) : g.stamp # clock} \cup {File(task, clock, content(task))}
  BY <1>1, <1>2, TaskWritten DEF FillReplacement
<1>4. Held(files', task) =
        {g \in Held(began, task) : g.stamp # clock} \cup {File(task, clock, content(task))}
  BY <1>1, <1>2, <1>3, FileType DEF Replaced
<1>5. Promises'
  BY <1>1, <1>3, <1>4, OldIsKept, StepAtTask
<1>6. TypeOK'
  BY <1>1, <1>3 DEF IInv, TypeOK, OthersStay, run, Seeds
<1>7. StageOK'
  BY <1>1, <1>4 DEF StageOK, Replacing, Replaced, Held, File, run, content
<1> QED
  BY <1>5, <1>6, <1>7 DEF IInv, Promises

LEMMA CompareRequestsStep ==
  ASSUME IInv, CompareRequests
  PROVE  IInv'
<1>1. /\ pc = "compare" /\ AtTask /\ pc' = "remove"
      /\ UNCHANGED <<files, todo, task, out, cut, run>>
  BY DEF CompareRequests, AtTask
<1>2. Promises'
  BY <1>1, NothingWritten, StepAtTask
<1>3. TypeOK'
  BY <1>1 DEF IInv, TypeOK, run, Seeds
<1>4. StageOK'
  BY <1>1 DEF IInv, StageOK, Replacing, Replaced, Held, File, run, content
<1> QED
  BY <1>2, <1>3, <1>4 DEF IInv, Promises

LEMMA RemoveOldStep ==
  ASSUME IInv, RemoveOld
  PROVE  IInv'
<1>1. /\ pc = "remove" /\ AtTask /\ Return /\ recreate
      /\ UNCHANGED <<todo, cut, run>>
      /\ Replaced(task, content(task))
      /\ files' = {f \in files : Name(f) # out}
      /\ files \subseteq Files /\ began \subseteq Files
  BY DEF RemoveOld, AtTask, IInv, StageOK, Replacing, TypeOK
<1>2. PICK old \in Held(began, task) : out = Name(old)
  BY <1>1 DEF IInv, StageOK, Replacing
<1>3. /\ task \in Tasks /\ content(task) \in Contents /\ content(task) # Torn
      /\ clock \in 0..MaxMinutes
  BY <1>1, TaskType DEF IInv
<1> DEFINE new == File(task, clock, content(task))
<1>4. new.stamp = clock /\ new.content = content(task)
  BY <1>3, FileType
<1>5. old \in Files /\ old.dir = task.dir /\ old.variant = task.variant
  BY <1>1, <1>3, HeldIs
<1>6. /\ Held(files', task) = {f \in Held(files, task) : f.stamp # old.stamp}
      /\ \A u \in Tasks \ {task} : Held(files', u) = Held(files, u)
  <2>1. files' = {f \in files : Name(f) # Name(old)}
    BY <1>1, <1>2
  <2> QED
    BY <1>1, <1>3, <1>5, <2>1, RemoveHeld
<1>7. Held(files, task) = {f \in Held(began, task) : f.stamp # clock} \cup {new}
  BY <1>1 DEF Replaced
<1> HIDE DEF new
<1>8. OthersStay
  BY <1>1, <1>6 DEF OthersStay
<1>9. ~ SameMinute(task) => new \in Held(files', task)
  BY <1>4, <1>6, <1>7 DEF SameMinute
<1>10. TaskIsKept
  BY <1>3, <1>4, <1>9 DEF TaskIsKept
<1>11. ASSUME WasOrdinary(task)
       PROVE  Held(files', task) = {new}
  <2>1. Held(began, task) = {old} /\ old.stamp # clock
    BY <1>11 DEF WasOrdinary, SameMinute
  <2> QED
    BY <1>4, <1>6, <1>7, <2>1
<1>12. TaskIsDone
  <2>1. ASSUME ~ cut
        PROVE  Orderly(files', task)
    <3>1. Held(began, task) = {old}
      BY <1>3, <2>1 DEF IInv, OrderlyUnlessCut, Orderly
    <3>2. \A f \in Held(files', task) : f = new
      BY <1>6, <1>7, <3>1
    <3> QED
      BY <1>3, <1>4, <3>2 DEF Orderly
  <2> QED
    BY <1>3, <1>11, <2>1 DEF TaskIsDone, new
<1>13. Promises'
  BY <1>1, <1>8, <1>10, <1>12, StepReturns
<1>14. TypeOK' /\ StageOK'
  BY <1>1 DEF IInv, TypeOK, StageOK, Replacing, Return, run, Seeds
<1> QED
  BY <1>13, <1>14 DEF IInv, Promises

-----------------------------------------------------------------------------
(* The theorems.                                                           *)

\* The inductive invariant, for the run of _generate_seeds (main.py:777-921).
THEOREM Invariance == Spec => []IInv
<1>1. Init => IInv
  <2>1. SUFFICES ASSUME Init
                 PROVE  IInv
    OBVIOUS
  <2>2. Seeds(defined) = {} /\ Handled = {}
    BY <2>1 DEF Init, Seeds, Handled, Tasks
  <2>3. TypeOK
    <3>1. defined \in [Variants -> Revisions \cup {None}]
      BY <2>1 DEF Init
    <3>2. clock \in 0..MaxMinutes
      BY <2>1, SerializeAssumption DEF Init
    <3>3. recreate \in BOOLEAN /\ cut \in BOOLEAN
      BY <2>1 DEF Init
    <3> QED
      BY <2>1, <3>1, <3>2, <3>3 DEF Init, TypeOK
  <2>4. \A t \in Tasks : Held(files, t) = {} /\ Held(began, t) = {}
    BY <2>1 DEF Init, Held
  <2>5. StageOK /\ OrderlyUnlessCut
    BY <2>1, <2>4 DEF Init, StageOK, Replacing, OrderlyUnlessCut, Orderly
  <2>6. RecreateAligns /\ RestUntouched /\ NeverWithoutSeed
    BY <2>1, <2>2, <2>4 DEF Init, RecreateAligns, RestUntouched, NeverWithoutSeed
  <2> QED
    BY <2>3, <2>5, <2>6 DEF IInv
<1>2. IInv /\ [Next]_vars => IInv'
  <2>1. SUFFICES ASSUME IInv, [Next]_vars
                 PROVE  IInv'
    OBVIOUS
  <2>2. CASE Start
    BY <2>1, <2>2, StartStep
  <2>3. CASE NextSeed
    BY <2>1, <2>3, NextSeedStep
  <2>4. CASE Finish
    <3>1. task = None /\ cut' = cut /\ cut' \in BOOLEAN
      BY <2>1, <2>4 DEF IInv, TypeOK, Finish
    <3> QED
      BY <2>1, <2>4, <3>1, IdleStep DEF Finish
  <2>5. CASE CreateFile
    BY <2>1, <2>5, CreateFileStep
  <2>6. CASE FillFile
    BY <2>1, <2>6, FillFileStep
  <2>7. CASE KeepFile
    BY <2>1, <2>7, KeepFileStep
  <2>8. CASE ReplaceFile
    BY <2>1, <2>8, ReplaceFileStep
  <2>9. CASE FillReplacement
    BY <2>1, <2>9, FillReplacementStep
  <2>10. CASE CompareRequests
    BY <2>1, <2>10, CompareRequestsStep
  <2>11. CASE CompareRaises
    BY <2>1, <2>11, IdleStep DEF CompareRaises
  <2>12. CASE RemoveOld
    BY <2>1, <2>12, RemoveOldStep
  <2>13. CASE Kill
    BY <2>1, <2>13, IdleStep DEF Kill
  <2>14. CASE UNCHANGED vars
    <3>1. Seeds(defined)' = Seeds(defined) /\ Handled' = Handled
      BY <2>14 DEF vars, Seeds, Handled
    <3>2. TypeOK' /\ StageOK' /\ OrderlyUnlessCut'
      BY <2>1, <2>14, <3>1 DEF vars, IInv, TypeOK, StageOK, Replacing, Replaced,
         OrderlyUnlessCut, Orderly, Held, File, content
    <3>3. RecreateAligns' /\ RestUntouched' /\ NeverWithoutSeed'
      BY <2>1, <2>14, <3>1 DEF vars, IInv, RecreateAligns, RestUntouched,
         NeverWithoutSeed, WasOrdinary, SameMinute, Held, File, content
    <3> QED
      BY <3>2, <3>3 DEF IInv
  <2> QED
    BY <2>1, <2>2, <2>3, <2>4, <2>5, <2>6, <2>7, <2>8, <2>9, <2>10, <2>11,
       <2>12, <2>13, <2>14 DEF Next, Generate
<1> QED
  BY <1>1, <1>2, PTL DEF Spec

\* The variables have their types; a run between two seeds is at none.
THEOREM TypeCorrectness == Spec => []TypeOK
<1>1. IInv => TypeOK
  BY DEF IInv
<1> QED
  BY <1>1, Invariance, PTL

\* With -recreate every seed that had at most one file, of an earlier minute, has
\* exactly the file its definition asks for once the run is through with it
\* (main.py:795-847).
THEOREM Alignment == Spec => []RecreateAligns
<1>1. IInv => RecreateAligns
  BY DEF IInv
<1> QED
  BY <1>1, Invariance, PTL

\* A run leaves the seeds it has not reached, and those nothing asks for, alone
\* (main.py:857-887).
THEOREM Confinement == Spec => []RestUntouched
<1>1. IInv => RestUntouched
  BY DEF IInv
<1> QED
  BY <1>1, Invariance, PTL

\* No seed is lost while its file is replaced, wherever the run ends
\* (main.py:803-842).
THEOREM Continuity == Spec => []NeverWithoutSeed
<1>1. IInv => NeverWithoutSeed
  BY DEF IInv
<1> QED
  BY <1>1, Invariance, PTL

\* As long as no run has ended early, the listing that _create_variant begins with
\* finds one intact file or none (main.py:795-798).
THEOREM Uniqueness == Spec => []OneFileEach
<1>1. IInv => OneFileEach
  <2>1. SUFFICES ASSUME IInv, pc = "idle", ~ cut
                 PROVE  /\ \A f \in files : f.content # Torn
                        /\ \A t \in Tasks : \A f, g \in Held(files, t) : f = g
    BY DEF OneFileEach
  <2>2. \A t \in Tasks : Orderly(files, t)
    BY <2>1, SerializeAssumption DEF IInv, OrderlyUnlessCut
  <2>3. ASSUME NEW f \in files
        PROVE  f.content # Torn
    <3> DEFINE t == [dir |-> f.dir, variant |-> f.variant]
    <3>1. t \in Tasks /\ f \in Held(files, t)
      BY <2>1 DEF IInv, TypeOK, Files, Tasks, Held
    <3> QED
      BY <2>2, <3>1 DEF Orderly
  <2> QED
    BY <2>2, <2>3 DEF Orderly
<1> QED
  BY <1>1, Invariance, PTL
===============================================================================
