------------------------------- MODULE Campaign -------------------------------
(***************************************************************************)
(* The scripts that run a fuzz campaign: scripts/run-fuzzer.sh on the      *)
(* host, scripts/docker/start-fuzzer.sh in a container of                  *)
(* docker-compose.yml or, with -local, next to it, scripts/track-coverage, *)
(* and scripts/docker/combine-coverage.sh. scripts/test-seed.sh and        *)
(* scripts/generate-seeds.sh touch the same directories.                   *)
(*                                                                         *)
(* Any stage may fail. start-fuzzer.sh ends at the first failure (set -e); *)
(* run-fuzzer.sh goes on with its next step.                               *)
(*                                                                         *)
(* libFuzzer, the llvm tools and the Docker daemon are external, modelled  *)
(* as the scripts use them. One script runs at a time.                     *)
(***************************************************************************)
EXTENDS Naturals

CONSTANTS
  Entries,   \* inputs that cover something new
  Runs,      \* bound: how often run-fuzzer.sh is called
  None

ASSUME RunsAssumption ==
  /\ Runs \in Nat
  /\ None \notin Nat /\ None \notin BOOLEAN

Tops == {"corpus", "coverage", "artifacts"}
Fuzzers == {"bytearray", "proto"}       \* their subdirectories
Places == Fuzzers \cup {"local"}        \* and the directories of -local

VARIABLES
  owner,    \* who owns the host's directories: itself, and per fuzzer
  corpus,   \* the corpora
  running,  \* RUN_CORPUS_DIR, of the container and of -local
  saved,    \* whether a crashing input was written under artifacts
  prof,     \* the run whose data fuzzer.profdata holds
  report,   \* and report.txt; 0 if it is empty
  row,      \* the last row of the coverage history
  overall,  \* the last combined report
  pc,
  opts,     \* the options of the run
  n,        \* runs so far
  campaign, \* how start-fuzzer.sh went in this run
  lost,     \* entries this run found that went with its container
  others    \* whether a seed script touched the directories

dirs == <<owner, others>>
data == <<corpus, running, saved, prof, report, row, overall, lost>>
vars == <<dirs, data, pc, opts, n, campaign>>

Options == [local : BOOLEAN, bin : Fuzzers, track : BOOLEAN, combine : BOOLEAN,
            runs : BOOLEAN, time : {"none", "zero", "positive"}]

NoOptions == [local |-> FALSE, bin |-> "bytearray", track |-> FALSE,
              combine |-> FALSE, runs |-> FALSE, time |-> "none"]

Init ==
  /\ owner = [x \in Tops |-> [d \in {"top"} \cup Fuzzers |-> "none"]]
  /\ others = FALSE
  /\ corpus = [p \in Places |-> {}]
  /\ running = [w \in {"container", "local"} |-> {}]
  /\ saved = None
  /\ prof = [p \in Places |-> None]
  /\ report = [p \in Places |-> None]
  /\ row = None
  /\ overall = None
  /\ pc = "idle"
  /\ opts = NoOptions
  /\ n = 0
  /\ campaign = "none"
  /\ lost = {}

-----------------------------------------------------------------------------
(* Directories.                                                            *)

\* mkdir -p x/d, for the directories D of x: nothing under a directory of root.
Make(own, D) ==
  IF own["top"] = "root" THEN own
  ELSE [d \in DOMAIN own |->
          IF d \in D \cup {"top"} /\ own[d] = "none" THEN "user" ELSE own[d]]

\* The daemon creates, as root, what a container mounts and does not exist
\* (docker-compose.yml).
Mount(own, D) ==
  [d \in DOMAIN own |->
     IF d \in D \cup {"top"} /\ own[d] = "none" THEN "root" ELSE own[d]]

\* Variant: && binds tighter than ||.
EnsureBothOrNone(own) ==
  IF own["top"] = "none" THEN Make(own, Fuzzers) ELSE own

\* [ -d x ] || mkdir -p x/bytearray && mkdir -p x/proto: the second mkdir
\* runs whether or not x exists.
Ensure(own) ==
  Make(IF own["top"] = "none" THEN Make(own, {"bytearray"}) ELSE own, {"proto"})

\* test-seed.sh creates the two directories bare, and the container it runs
\* mounts those of the byte fuzzer.
TestSeed ==
  /\ pc = "idle"
  /\ \E local \in BOOLEAN :
       LET bare == [owner EXCEPT !["corpus"] = Make(@, {}),
                                 !["coverage"] = Make(@, {})]
           refused == bare["corpus"]["top"] = "root" /\ bare["coverage"]["top"] = "root"
       IN owner' = IF local \/ refused THEN bare
                   ELSE [x \in Tops |-> Mount(bare[x], {"bytearray"})]
  /\ others' = TRUE
  /\ UNCHANGED <<data, pc, opts, n, campaign>>

\* generate-seeds.sh runs the generator in a container of the byte fuzzer.
GenerateSeeds ==
  /\ pc = "idle"
  /\ owner' = [x \in Tops |-> Mount(owner[x], {"bytearray"})]
  /\ others' = TRUE
  /\ UNCHANGED <<data, pc, opts, n, campaign>>

-----------------------------------------------------------------------------
(* run-fuzzer.sh, up to the campaign.                                      *)

\* Variant: the default number of runs is always dropped.
MaxRunsDropped(o) ==
  IF o.runs THEN "given" ELSE ""

\* FUZZER_MAX_RUNS: what -maxRuns says; the default of docker-compose.yml, which
\* -maxTime alone turns off; nothing with -local.
FuzzerMaxRuns(o) ==
  IF o.runs THEN "given"
  ELSE IF o.local \/ o.time # "none" THEN "" ELSE "default"

\* libFuzzer stops by itself; -max_total_time=0 is no limit.
Limited(o) == FuzzerMaxRuns(o) # "" \/ o.time = "positive"

RunFuzzer ==
  /\ pc = "idle"
  /\ n < Runs
  /\ n' = n + 1
  /\ opts' \in Options
  /\ campaign' = "none"
  /\ lost' = {}
  /\ pc' = "prepare"
  /\ UNCHANGED <<dirs, corpus, running, saved, prof, report, row, overall>>

\* -combine without -bin skips the campaign.
RunCombine ==
  /\ pc = "idle"
  /\ n < Runs
  /\ n' = n + 1
  /\ opts' = [NoOptions EXCEPT !.combine = TRUE]
  /\ campaign' = "none"
  /\ lost' = {}
  /\ pc' = "combine"
  /\ UNCHANGED <<dirs, corpus, running, saved, prof, report, row, overall>>

\* ensure_directories, and the container with its mounts.
EnsureDirectories ==
  /\ pc = "prepare"
  /\ LET ensured == [x \in Tops |-> Ensure(owner[x])] IN
     IF \A x \in Tops : ensured[x]["top"] = "user"
       THEN /\ owner' = IF opts.local THEN ensured
                        ELSE [x \in Tops |-> Mount(ensured[x], {opts.bin})]
            /\ pc' = "fuzz"
       ELSE owner' = ensured /\ pc' = "idle"
  /\ UNCHANGED <<data, others, opts, n, campaign>>

-----------------------------------------------------------------------------
(* start-fuzzer.sh. In the container it runs as a user other than root.    *)

place == IF opts.local THEN "local" ELSE opts.bin
host == IF opts.local THEN "local" ELSE "container"

Writable(x) == opts.local \/ owner[x][opts.bin] = "user"

\* The next step of run-fuzzer.sh after s.
After(s) ==
  IF s = "campaign" /\ opts.track THEN "track"
  ELSE IF s \in {"campaign", "track"} /\ opts.combine THEN "combine" ELSE "idle"

\* The script returns; a container goes (--rm), and what it holds with it.
Leave(status) ==
  /\ campaign' = status
  /\ pc' = After("campaign")
  /\ running' = [running EXCEPT !["container"] = {}]
  /\ lost' = running["container"] \ corpus[place]

\* libFuzzer reads all the corpora, and writes what it finds into the first.
FindEntry ==
  /\ pc = "fuzz"
  /\ \E e \in Entries \ (corpus[place] \cup running[host]) :
       running' = [running EXCEPT ![host] = @ \cup {e}]
  /\ UNCHANGED <<dirs, corpus, saved, prof, report, row, overall, pc, opts, n, campaign, lost>>

FuzzEnds ==
  /\ pc = "fuzz"
  /\ Limited(opts)
  /\ pc' = "merge"
  /\ UNCHANGED <<dirs, data, opts, n, campaign>>

\* An input crashes the TPM: it is written under -artifact_prefix, and set -e
\* ends the script.
FindCrash ==
  /\ pc = "fuzz"
  /\ saved' = Writable("artifacts")
  /\ Leave("failed")
  /\ UNCHANGED <<dirs, corpus, prof, report, row, overall, opts, n>>

\* Variant: the two directories of the merge are swapped.
MergeIntoRunning ==
  /\ pc = "merge"
  /\ IF opts.local
       THEN Leave("done") /\ UNCHANGED corpus
       ELSE /\ running' = [running EXCEPT ![host] = @ \cup corpus[place]]
            /\ pc' = "profdata"
            /\ UNCHANGED <<corpus, campaign, lost>>
  /\ UNCHANGED <<dirs, saved, prof, report, row, overall, opts, n>>

\* -merge=1 adds to the corpus what covers something it does not cover yet;
\* an entry that cannot be written is skipped. Only the services of
\* docker-compose.yml set GEN_COVERAGE.
Merge ==
  /\ pc = "merge"
  /\ corpus' = IF Writable("corpus")
                 THEN [corpus EXCEPT ![place] = @ \cup running[host]]
                 ELSE corpus
  /\ IF opts.local
       THEN Leave("done")
       ELSE pc' = "profdata" /\ UNCHANGED <<running, campaign, lost>>
  /\ UNCHANGED <<dirs, saved, prof, report, row, overall, opts, n>>

\* llvm-profdata, on what the fuzzer wrote when it ended, if it could.
Profdata ==
  /\ pc = "profdata"
  /\ IF Writable("coverage")
       THEN /\ prof' = [prof EXCEPT ![place] = n]
            /\ pc' = "show"
            /\ UNCHANGED <<running, campaign, lost>>
       ELSE Leave("failed") /\ UNCHANGED prof
  /\ UNCHANGED <<dirs, corpus, saved, report, row, overall, opts, n>>

\* llvm-cov show, then llvm-cov report.
Show ==
  /\ pc = "show"
  /\ pc' = "report"
  /\ UNCHANGED <<dirs, data, opts, n, campaign>>

\* The HTML of the harness's own sources comes last, and may fail.
Report ==
  /\ pc = "report"
  /\ report' = [report EXCEPT ![place] = prof[place]]
  /\ \E status \in {"done", "failed"} : Leave(status)
  /\ UNCHANGED <<dirs, corpus, saved, prof, row, overall, opts, n>>

\* A stage fails: the shell has already emptied report.txt when llvm-cov does.
StageFails ==
  /\ pc \in {"merge", "profdata", "show", "report"}
  /\ report' = IF pc = "report" THEN [report EXCEPT ![place] = 0] ELSE report
  /\ Leave("failed")
  /\ UNCHANGED <<dirs, corpus, saved, prof, row, overall, opts, n>>

-----------------------------------------------------------------------------
(* run-fuzzer.sh, after the campaign, however that ended.                  *)

\* What the row and the combined report are of; good if they should describe
\* this run.
Of(d) == [run |-> n, bin |-> opts.bin, good |-> campaign = "done" /\ ~ opts.local, data |-> d]

\* Variant: the name of the fuzzer is compared with its capital letter.
ReportOfProto(bin) == report["proto"]

\* The report that track-coverage reads.
ReportOf(bin) == report[bin]

\* Variant: a row is appended from any report there is.
TrackAny ==
  /\ pc = "track"
  /\ row' = IF ReportOf(opts.bin) = None THEN row ELSE Of(ReportOf(opts.bin))
  /\ pc' = After("track")
  /\ UNCHANGED <<dirs, corpus, running, saved, prof, report, overall, opts, n, campaign, lost>>

\* No row without a report, or from one without totals.
Track ==
  /\ pc = "track"
  /\ row' = IF ReportOf(opts.bin) \in {None, 0} THEN row ELSE Of(ReportOf(opts.bin))
  /\ pc' = After("track")
  /\ UNCHANGED <<dirs, corpus, running, saved, prof, report, overall, opts, n, campaign, lost>>

\* What the container of combine_coverage mounts: the directories of the byte
\* fuzzer's service, and both of coverage.
MountCombined ==
  owner' = [x \in Tops |->
              Mount(owner[x], IF x = "coverage" THEN Fuzzers ELSE {"bytearray"})]

\* Nothing is combined without data of either fuzzer.
CombineCoverage ==
  /\ pc = "combine"
  /\ IF \A f \in Fuzzers : prof[f] = None
       THEN UNCHANGED <<owner, overall>>
       ELSE MountCombined /\ overall' = Of([f \in Fuzzers |-> prof[f]])
  /\ pc' = "idle"
  /\ UNCHANGED <<others, corpus, running, saved, prof, report, row, opts, n, campaign, lost>>

\* A tool fails; the old combined report stays.
CombineFails ==
  /\ pc = "combine"
  /\ \E f \in Fuzzers : prof[f] # None
  /\ MountCombined
  /\ pc' = "idle"
  /\ UNCHANGED <<others, data, opts, n, campaign>>

-----------------------------------------------------------------------------

\* The steps the scripts take by themselves.
Step ==
  \/ EnsureDirectories \/ FuzzEnds \/ Merge \/ Profdata \/ Show \/ Report
  \/ Track \/ CombineCoverage

Next ==
  \/ TestSeed \/ GenerateSeeds \/ RunFuzzer \/ RunCombine
  \/ FindEntry \/ FindCrash \/ StageFails \/ CombineFails \/ Step

Spec == Init /\ [][Next]_vars /\ WF_vars(Step)

-----------------------------------------------------------------------------
(* Properties.                                                             *)

Data == 0..Runs \cup {None}

TypeOK ==
  /\ owner \in [Tops -> [{"top"} \cup Fuzzers -> {"none", "user", "root"}]]
  /\ corpus \in [Places -> SUBSET Entries]
  /\ running \in [{"container", "local"} -> SUBSET Entries]
  /\ saved \in BOOLEAN \cup {None}
  /\ prof \in [Places -> Data \ {0}]
  /\ report \in [Places -> Data]
  /\ row # None => row.run \in 1..Runs /\ row.data \in 1..Runs
  /\ overall # None => overall.data \in [Fuzzers -> Data \ {0}]
  /\ pc \in {"idle", "prepare", "fuzz", "merge", "profdata", "show", "report",
             "track", "combine"}
  /\ opts \in Options
  /\ n \in 0..Runs
  /\ campaign \in {"none", "done", "failed"}
  /\ lost \subseteq Entries
  /\ others \in BOOLEAN

\* What a campaign finds is in the corpus when its container is gone, unless a
\* stage failed, and the container is empty between campaigns
\* (start-fuzzer.sh:138-158, docker-compose.yml:7-10).
LossOnlyOnFailure ==
  /\ lost # {} => campaign = "failed"
  /\ pc \notin {"fuzz", "merge", "profdata", "show", "report"} =>
       running["container"] = {}

\* The fuzzer can always write a crashing input down; the directories of the
\* structure-aware fuzzer are never the daemon's, and without the seed scripts
\* no directory is (run-fuzzer.sh:64-78).
HostOwnsDirectories ==
  /\ saved # FALSE
  /\ \A x \in Tops : owner[x]["proto"] # "root"
  /\ ~ others => \A x \in Tops : \A d \in DOMAIN owner[x] : owner[x][d] # "root"

\* After a campaign in a container that went well, the row that -track appends
\* describes this campaign, and the combined report contains it
\* (run-fuzzer.sh:195-202, track-coverage:44-74, combine-coverage.sh:31-66).
CoverageIsOfThisRun ==
  /\ row # None /\ row.good => row.data = row.run
  /\ overall # None /\ overall.good => overall.data[overall.bin] = overall.run

\* A run ends, whatever fails in it, if -maxRuns or -maxTime limits it, or
\* docker-compose.yml does; -maxTime 0 is no limit (run-fuzzer.sh:166-193).
RunEnds ==
  ( /\ pc # "idle"
    /\ opts.runs \/ opts.time = "positive" \/ (~ opts.local /\ opts.time = "none") )
  ~> pc = "idle"
==============================================================================
