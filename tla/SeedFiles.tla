------------------------------ MODULE SeedFiles ------------------------------
(***************************************************************************)
(* What a run of the seed generator (src/tools/seed-generation/main.py)    *)
(* does to the seed directory: _generate_seeds, _run_commands and          *)
(* _create_variant, with the script that -recreate compares byte seeds     *)
(* with (src/scripts/test-seed.sh).                                        *)
(*                                                                         *)
(* The directory outlives the runs. Between two runs the developer changes *)
(* the seed definitions or the serialization; a run may raise half way,    *)
(* and may be killed anywhere. A file is named after its variant and the   *)
(* minute its run started in, and the generator knows a variant's file     *)
(* only by listing the directory.                                          *)
(*                                                                         *)
(* A seed is a task: a variant ("<command>-variant<i>") in one of the two  *)
(* subdirectories. Variants are numbered; one number may be a prefix of    *)
(* another, as in TPMClear-variant1 and TPMClear-variant10.                *)
(***************************************************************************)
EXTENDS Naturals, FiniteSets

CONSTANTS
  Variants,
  Revisions,       \* command sequences
  Definitions,     \* what TEST_CASES defines each variant as, in turn
  Contents,        \* what a seed file may hold
  serialize,       \* _serialize_sequence, per revision
  serializeProto,  \* _serialize_proto_sequence, per revision
  None,            \* no definition, no protobuf form, no task
  Torn,            \* what an interrupted write leaves
  MaxMinutes       \* bound: minutes that pass between the first and last run

Directories == {"bytearray", "proto"}

Tasks == [dir : Directories, variant : Variants]

ASSUME SerializeAssumption ==
  /\ Variants \subseteq Nat
  /\ Definitions \subseteq [Variants -> Revisions \cup {None}]
  /\ serialize \in [Revisions -> Contents]
  /\ serializeProto \in [Revisions -> Contents \cup {None}]
  /\ None \notin Contents \cup Revisions \cup Tasks
  /\ Torn \notin Contents
  /\ MaxMinutes \in Nat

VARIABLES
  files,     \* the seed directory: [dir, variant, stamp, content] each
  clock,     \* the minute
  defined,   \* TEST_CASES: the revision of each variant, or None
  recreate,  \* -recreate
  pc,        \* where the run is; "idle" between runs
  todo,      \* the seeds the run has yet to look at
  task,      \* the one it is at, or was cut at
  out,       \* the name of the file it found for it
  began,     \* history: the directory when the run started
  cut        \* history: whether some run ended early

vars == <<files, clock, defined, recreate, pc, todo, task, out, began, cut>>

Init ==
  /\ files = {}
  /\ clock = 0
  /\ defined = [v \in Variants |-> None]
  /\ recreate = FALSE
  /\ pc = "idle"
  /\ todo = {}
  /\ task = None
  /\ out = None
  /\ began = {}
  /\ cut = FALSE

-----------------------------------------------------------------------------
(* The directory.                                                          *)

Names == [dir : Directories, variant : Variants, stamp : Nat]

Name(f) == [dir |-> f.dir, variant |-> f.variant, stamp |-> f.stamp]

\* Variant: the name is matched without the dash behind the variant, so that
\* variant1 finds the files of variant10.
ExistingByPrefix(t) ==
  {f \in files : f.dir = t.dir /\ (f.variant = t.variant \/ f.variant \div 10 = t.variant)}

\* existing_items: what listing the directory finds for a seed.
Existing(t) == {f \in files : f.dir = t.dir /\ f.variant = t.variant}

File(t, stamp, c) ==
  [dir |-> t.dir, variant |-> t.variant, stamp |-> stamp, content |-> c]

\* open(..., "wb") and write: a file of that name is written over.
Write(F, t, stamp, c) ==
  {f \in F : Name(f) # Name(File(t, stamp, c))} \cup {File(t, stamp, c)}

-----------------------------------------------------------------------------
(* The seeds of a run.                                                     *)

\* Variant: a protobuf seed is written whether or not there is one.
SeedsAlways(d) == {t \in Tasks : d[t.variant] # None}

\* The seeds a definition asks for: bytes always, protobuf text if every
\* command of the sequence has a protobuf form.
Seeds(d) ==
  {t \in Tasks : /\ d[t.variant] # None
                 /\ t.dir = "proto" => serializeProto[d[t.variant]] # None}

content(t) ==
  IF t.dir = "bytearray" THEN serialize[defined[t.variant]]
                         ELSE serializeProto[defined[t.variant]]

\* The protobuf seed of a variant is looked at right after its byte seed; in
\* which order the variants come is left open.
IsNext(t) ==
  LET bytes(u) == [u EXCEPT !.dir = "bytearray"] IN
  IF t.dir = "proto"
    THEN bytes(t) \notin todo
    ELSE \A u \in todo : bytes(u) \in todo

\* main: a minute may have passed since the last run, and the definitions may
\* have changed.
Start ==
  /\ pc = "idle"
  /\ clock' \in {clock, clock + 1}
  /\ clock' <= MaxMinutes
  /\ defined' \in Definitions
  /\ recreate' \in BOOLEAN
  /\ todo' = Seeds(defined')
  /\ began' = files
  /\ task' = None
  /\ out' = None
  /\ pc' = "next"
  /\ UNCHANGED <<files, cut>>

run == <<clock, defined, recreate, began>>

\* _run_commands turns to its next seed.
NextSeed ==
  /\ pc = "next"
  /\ \E t \in todo :
       /\ IsNext(t)
       /\ task' = t
       /\ todo' = todo \ {t}
  /\ pc' = "list"
  /\ UNCHANGED <<files, out, cut, run>>

Finish ==
  /\ pc = "next"
  /\ todo = {}
  /\ pc' = "idle"
  /\ UNCHANGED <<files, todo, task, out, cut, run>>

Return == pc' = "next" /\ task' = None /\ out' = None

-----------------------------------------------------------------------------
(* _create_variant.                                                        *)

\* No file yet: the seed's first one is opened, then written.
CreateFile ==
  /\ pc = "list"
  /\ Existing(task) = {}
  /\ files' = Write(files, task, clock, Torn)
  /\ pc' = "create"
  /\ UNCHANGED <<todo, task, out, cut, run>>

FillFile ==
  /\ pc = "create"
  /\ files' = Write(files, task, clock, content(task))
  /\ Return
  /\ UNCHANGED <<todo, cut, run>>

\* Variant: a file is kept without a look at what it holds.
KeepAny ==
  /\ pc = "list"
  /\ Existing(task) # {}
  /\ Return
  /\ UNCHANGED <<files, todo, cut, run>>

\* The first file listed, which may be any, is kept: it is up to date, or the
\* run does not recreate.
KeepFile ==
  /\ pc = "list"
  /\ \E f \in Existing(task) : f.content = content(task) \/ ~ recreate
  /\ Return
  /\ UNCHANGED <<files, todo, cut, run>>

\* Variant: the old file is removed before the new one is written.
ReplaceInPlace ==
  /\ pc = "list"
  /\ recreate
  /\ \E f \in Existing(task) :
       /\ f.content # content(task)
       /\ out' = Name(f)
       /\ files' = Write(files \ {f}, task, clock, Torn)
  /\ pc' = "replace"
  /\ UNCHANGED <<todo, task, cut, run>>

\* It differs from what its definition asks for: a replacement is opened under
\* the run's stamp,
ReplaceFile ==
  /\ pc = "list"
  /\ recreate
  /\ \E f \in Existing(task) : f.content # content(task) /\ out' = Name(f)
  /\ files' = Write(files, task, clock, Torn)
  /\ pc' = "replace"
  /\ UNCHANGED <<todo, task, cut, run>>

\* Variant: the directory is listed once more to check the replacement.
FillAndListAgain ==
  /\ pc = "replace"
  /\ files' = Write(files, task, clock, content(task))
  /\ pc' = "list"
  /\ UNCHANGED <<todo, task, out, cut, run>>

\* and written. Byte seeds are then run through the test script, twice, to show
\* what changed; the difference of protobuf seeds needs no script.
FillReplacement ==
  /\ pc = "replace"
  /\ files' = Write(files, task, clock, content(task))
  /\ pc' = IF task.dir = "bytearray" THEN "compare" ELSE "remove"
  /\ UNCHANGED <<todo, task, out, cut, run>>

CompareRequests ==
  /\ pc = "compare"
  /\ pc' = "remove"
  /\ UNCHANGED <<files, todo, task, out, cut, run>>

\* There is no such script (the default of --test-script, scripts/test_seed.sh,
\* is not there), or its output has no REQUEST section: the exception ends the run.
CompareRaises ==
  /\ pc = "compare"
  /\ pc' = "idle"
  /\ cut' = TRUE
  /\ UNCHANGED <<files, todo, task, out, run>>

\* Variant: the old file stays.
ForgetRemove ==
  /\ pc = "remove"
  /\ Return
  /\ UNCHANGED <<files, todo, cut, run>>

\* os.remove(out).
RemoveOld ==
  /\ pc = "remove"
  /\ files' = {f \in files : Name(f) # out}
  /\ Return
  /\ UNCHANGED <<todo, cut, run>>

\* The run is killed.
Kill ==
  /\ pc # "idle"
  /\ pc' = "idle"
  /\ cut' = TRUE
  /\ UNCHANGED <<files, todo, task, out, run>>

-----------------------------------------------------------------------------

Generate ==
  \/ NextSeed \/ Finish \/ CreateFile \/ FillFile \/ KeepFile \/ ReplaceFile
  \/ FillReplacement \/ CompareRequests \/ CompareRaises \/ RemoveOld

Next == Start \/ Generate \/ Kill

\* A run that is not killed goes on.
Spec == Init /\ [][Next]_vars /\ WF_vars(Generate)

-----------------------------------------------------------------------------
(* Properties.                                                             *)

Files == [dir : Directories, variant : Variants,
          stamp : 0..MaxMinutes, content : Contents \cup {Torn}]

TypeOK ==
  /\ files \subseteq Files
  /\ began \subseteq Files
  /\ clock \in 0..MaxMinutes
  /\ defined \in [Variants -> Revisions \cup {None}]
  /\ recreate \in BOOLEAN
  /\ cut \in BOOLEAN
  /\ pc \in {"idle", "next", "list", "create", "replace", "compare", "remove"}
  /\ todo \subseteq Seeds(defined)
  /\ task \in (Seeds(defined) \ todo) \cup {None}
  /\ out \in Names \cup {None}
  /\ pc \in {"list", "create", "replace", "compare", "remove"} => task # None
  /\ pc = "next" => task = None

\* The files of a seed.
Held(F, t) == {f \in F : [dir |-> f.dir, variant |-> f.variant] = t}

\* A file of the seed is from the very minute the run started in.
SameMinute(t) == \E f \in Held(began, t) : f.stamp = clock

\* The seeds the run is through with.
Handled == Seeds(defined) \ (todo \cup {task})

\* When the run started, the seed had at most one file, of an earlier minute.
WasOrdinary(t) ==
  /\ \A f, g \in Held(began, t) : f = g
  /\ ~ SameMinute(t)

\* With -recreate, every seed the run is through with has exactly one file, and
\* it holds what the current definition asks for (seed-generation/README.md:54),
\* provided the seed had at most one file before and it is not from the same
\* minute (main.py:795-847).
RecreateAligns ==
  recreate =>
    \A t \in Handled : WasOrdinary(t) =>
      \E s \in 0..MaxMinutes : Held(files, t) = {File(t, s, content(t))}

\* A run changes no other file: seeds it has not reached, and those no definition
\* asks for any more, are as they were, so that a run that ends half way has done
\* the first seeds completely and the others not at all; and without -recreate no
\* file is changed or removed (main.py:795-801, :857-887,
\* seed-generation/README.md:54).
RestUntouched ==
  /\ \A t \in Tasks \ (Handled \cup {task}) : Held(files, t) = Held(began, t)
  /\ ~ recreate => began \subseteq files

\* A variant that had an intact seed keeps an intact one at every instant of a
\* run, wherever the run raises or is killed, unless its file is from the very
\* minute the run started in (main.py:803-842).
NeverWithoutSeed ==
  \A t \in Tasks :
    (\E f \in Held(began, t) : f.content # Torn) /\ ~ SameMinute(t)
      => \E f \in Held(files, t) : f.content # Torn

\* Between runs every seed has at most one file, and no file is torn, as long as
\* no run has ended early (main.py:795-798 relies on the first).
OneFileEach ==
  pc = "idle" /\ ~ cut =>
    /\ \A f \in files : f.content # Torn
    /\ \A t \in Tasks : \A f, g \in Held(files, t) : f = g

\* A run ends: each seed is looked at once (main.py:857-887).
RunEnds == pc # "idle" ~> pc = "idle"
==============================================================================
