---------------------------- MODULE CampaignProofs ----------------------------
(***************************************************************************)
(* Proofs about Campaign, for any entries and any number of runs.          *)
(*                                                                         *)
(* The inductive invariant says whose the directories may be, what the     *)
(* container holds at each stage, and what the reports are of once a       *)
(* campaign has gone well.                                                 *)
(***************************************************************************)
EXTENDS Campaign, TLAPS

Stages == {"fuzz", "merge", "profdata", "show", "report"}

\* What is made of the directories together stays together. The fuzzer has run
\* in no container before the host has made the directories of both fuzzers.
OwnersOK ==
  /\ owner["corpus"] = owner["coverage"]
  /\ \A x \in Tops : owner[x]["top"] = "none" => \A d \in DOMAIN owner[x] : owner[x][d] = "none"
  /\ \A x \in Tops : owner[x]["proto"] # "root"
  /\ owner["artifacts"]["top"] = "user" => owner["artifacts"]["bytearray"] = "user"
  /\ ~ others => \A x \in Tops :
       \A d \in DOMAIN owner[x] : owner[x][d] = owner[x]["top"] /\ owner[x][d] # "root"
  /\ pc \in Stages \/ (\E f \in Fuzzers : prof[f] # None) =>
       \A x \in Tops : owner[x]["top"] # "none" /\ owner[x]["proto"] = "user"
  /\ pc \in Stages => \A x \in Tops : owner[x]["top"] = "user"

\* The container has entries during its campaign only; merged ones are on the
\* host from then on.
CorporaOK ==
  /\ pc \notin Stages \/ opts.local => running["container"] = {}
  /\ pc \in {"profdata", "show", "report"} /\ Writable("corpus") =>
       running["container"] \subseteq corpus[place]
  /\ lost # {} => campaign = "failed"

\* What the coverage data is of.
CoverageOK ==
  /\ pc # "idle" => n >= 1
  /\ pc \in {"profdata", "show", "report"} => ~ opts.local
  /\ pc \in {"show", "report"} => Writable("coverage") /\ prof[place] = n
  /\ pc \in {"track", "combine"} /\ campaign = "done" /\ ~ opts.local =>
       report[opts.bin] = n /\ prof[opts.bin] = n

IInv ==
  /\ TypeOK
  /\ OwnersOK
  /\ CorporaOK
  /\ CoverageOK
  /\ saved # FALSE
  /\ CoverageIsOfThisRun

-----------------------------------------------------------------------------
(* Directories.                                                            *)

Dirs == {"top", "bytearray", "proto"}
Own == [Dirs -> {"none", "user", "root"}]

LEMMA OwnerType ==
  ASSUME TypeOK
  PROVE  /\ owner \in [Tops -> Own]
         /\ \A x \in Tops : DOMAIN owner[x] = Dirs /\ owner[x] \in Own
BY DEF TypeOK, Own, Dirs, Fuzzers

LEMMA MakeIs ==
  ASSUME NEW own \in Own, NEW D \in SUBSET Fuzzers
  PROVE  /\ Make(own, D) \in Own
         /\ \A d \in Dirs : Make(own, D)[d] =
              IF own["top"] # "root" /\ d \in D \cup {"top"} /\ own[d] = "none"
                THEN "user" ELSE own[d]
BY DEF Make, Own, Dirs, Fuzzers

LEMMA MountIs ==
  ASSUME NEW own \in Own, NEW D \in SUBSET Fuzzers
  PROVE  /\ Mount(own, D) \in Own
         /\ \A d \in Dirs : Mount(own, D)[d] =
              IF d \in D \cup {"top"} /\ own[d] = "none" THEN "root" ELSE own[d]
BY DEF Mount, Own, Dirs, Fuzzers

\* The host makes a directory completely or, if it is there, that of the
\* structure-aware fuzzer.
LEMMA EnsureIs ==
  ASSUME NEW own \in Own,
         own["top"] = "none" => \A d \in Dirs : own[d] = "none"
  PROVE  /\ Ensure(own) \in Own
         /\ Ensure(own)["top"] = IF own["top"] = "none" THEN "user" ELSE own["top"]
         /\ Ensure(own)["bytearray"] =
              IF own["top"] = "none" THEN "user" ELSE own["bytearray"]
         /\ Ensure(own)["proto"] =
              IF own["top"] # "root" /\ own["proto"] = "none" THEN "user" ELSE own["proto"]
<1> DEFINE made == IF own["top"] = "none" THEN Make(own, {"bytearray"}) ELSE own
<1>1. /\ made \in Own
      /\ \A d \in Dirs : made[d] =
           IF own["top"] = "none" /\ d \in {"top", "bytearray"} THEN "user" ELSE own[d]
  BY MakeIs DEF Fuzzers, Dirs
<1>2. Ensure(own) = Make(made, {"proto"})
  BY DEF Ensure
<1> HIDE DEF made
<1>3. /\ Make(made, {"proto"}) \in Own
      /\ \A d \in Dirs : Make(made, {"proto"})[d] =
           IF made["top"] # "root" /\ d \in {"proto"} \cup {"top"} /\ made[d] = "none"
             THEN "user" ELSE made[d]
  BY <1>1, MakeIs DEF Fuzzers
<1> QED
  BY <1>1, <1>2, <1>3 DEF Dirs

\* A step that leaves the directories alone.
LEMMA OwnersKept ==
  ASSUME IInv, UNCHANGED dirs, pc' \in Stages => pc \in Stages,
         (\E f \in Fuzzers : prof'[f] # None)
           => pc \in Stages \/ \E f \in Fuzzers : prof[f] # None
  PROVE  OwnersOK'
BY DEF IInv, OwnersOK, dirs

\* A step that touches nothing else.
LEMMA OnlyOwners ==
  ASSUME IInv, UNCHANGED <<data, opts, n, campaign>>,
         pc' \in {pc, "idle"} \/ (pc = "prepare" /\ pc' = "fuzz"),
         owner' \in [Tops -> Own], others' \in BOOLEAN, OwnersOK', pc \notin Stages
  PROVE  IInv'
<1>1. UNCHANGED <<corpus, running, saved, prof, report, row, overall, lost, opts, n, campaign>>
  BY DEF data
<1>2. owner' \in [Tops -> [{"top"} \cup Fuzzers -> {"none", "user", "root"}]]
  BY DEF Own, Dirs, Fuzzers
<1>3. TypeOK'
  BY <1>1, <1>2 DEF IInv, TypeOK
<1>4. CorporaOK'
  BY <1>1 DEF IInv, CorporaOK, Stages
<1>5. CoverageOK'
  BY <1>1 DEF IInv, CoverageOK, Stages
<1>6. saved' # FALSE /\ CoverageIsOfThisRun'
  BY <1>1 DEF IInv, CoverageIsOfThisRun
<1> QED
  BY <1>3, <1>4, <1>5, <1>6 DEF IInv

LEMMA GenerateSeedsStep ==
  ASSUME IInv, GenerateSeeds
  PROVE  IInv'
<1>1. /\ owner' = [x \in Tops |-> Mount(owner[x], {"bytearray"})] /\ others' = TRUE
      /\ pc = "idle" /\ pc' = pc /\ prof' = prof
      /\ UNCHANGED <<data, opts, n, campaign>>
  BY DEF GenerateSeeds, data
<1>2. \A x \in Tops : owner[x] \in Own /\ DOMAIN owner[x] = Dirs
  BY OwnerType DEF IInv
<1>3. \A x \in Tops :
        /\ owner'[x] \in Own /\ DOMAIN owner'[x] = Dirs
        /\ owner'[x]["top"] = IF owner[x]["top"] = "none" THEN "root" ELSE owner[x]["top"]
        /\ owner'[x]["bytearray"] =
             IF owner[x]["bytearray"] = "none" THEN "root" ELSE owner[x]["bytearray"]
        /\ owner'[x]["proto"] = owner[x]["proto"]
  <2>1. SUFFICES ASSUME NEW x \in Tops
                 PROVE  /\ Mount(owner[x], {"bytearray"}) \in Own
                        /\ \A d \in Dirs : Mount(owner[x], {"bytearray"})[d] =
                             IF d \in {"bytearray"} \cup {"top"} /\ owner[x][d] = "none"
                               THEN "root" ELSE owner[x][d]
    BY <1>1 DEF Dirs, Own
  <2> QED
    BY <1>2, MountIs DEF Fuzzers
<1>4. owner' \in [Tops -> Own]
  BY <1>1, <1>3
<1>5. OwnersOK'
  <2>1. owner'["corpus"] = owner'["coverage"]
    BY <1>1 DEF IInv, OwnersOK, Tops
  <2> QED
    BY <1>1, <1>2, <1>3, <2>1 DEF IInv, OwnersOK, Stages, Tops, Dirs
<1> QED
  BY <1>1, <1>4, <1>5, OnlyOwners DEF Stages

LEMMA TestSeedStep ==
  ASSUME IInv, TestSeed
  PROVE  IInv'
<1> DEFINE bare == [owner EXCEPT !["corpus"] = Make(@, {}),
                                 !["coverage"] = Make(@, {})]
<1>1. /\ others' = TRUE /\ pc = "idle" /\ pc' = pc /\ prof' = prof
      /\ UNCHANGED <<data, opts, n, campaign>>
      /\ \/ owner' = bare
         \/ /\ ~ (bare["corpus"]["top"] = "root" /\ bare["coverage"]["top"] = "root")
            /\ owner' = [x \in Tops |-> Mount(bare[x], {"bytearray"})]
  BY DEF TestSeed, data
<1>2. owner \in [Tops -> Own] /\ \A x \in Tops : owner[x] \in Own
  BY OwnerType DEF IInv
<1>3. /\ bare["corpus"] = Make(owner["corpus"], {})
      /\ bare["coverage"] = Make(owner["coverage"], {})
      /\ bare["artifacts"] = owner["artifacts"]
      /\ DOMAIN bare = Tops
  BY <1>2 DEF Tops
<1>4. \A x \in {"corpus", "coverage"} :
        /\ Make(owner[x], {}) \in Own
        /\ \A d \in Dirs : Make(owner[x], {})[d] =
             IF owner[x]["top"] # "root" /\ d \in {} \cup {"top"} /\ owner[x][d] = "none"
               THEN "user" ELSE owner[x][d]
  BY <1>2, MakeIs DEF Tops
<1>5. /\ bare \in [Tops -> Own] /\ \A x \in Tops : bare[x] \in Own
      /\ bare["corpus"] = bare["coverage"]
      /\ \A x \in Tops :
           /\ bare[x]["proto"] = owner[x]["proto"]
           /\ bare[x]["bytearray"] = owner[x]["bytearray"]
           /\ bare[x]["top"] = "none" => owner[x]["top"] = "none" /\ x = "artifacts"
           /\ owner[x]["top"] # "none" => bare[x]["top"] = owner[x]["top"]
  <2>1. bare \in [Tops -> Own] /\ \A x \in Tops : bare[x] \in Own
    BY <1>2, <1>3, <1>4 DEF Tops
  <2>2. bare["corpus"] = bare["coverage"]
    BY <1>3 DEF IInv, OwnersOK
  <2>3. ASSUME NEW x \in Tops
        PROVE  /\ bare[x]["proto"] = owner[x]["proto"]
               /\ bare[x]["bytearray"] = owner[x]["bytearray"]
               /\ bare[x]["top"] = "none" => owner[x]["top"] = "none" /\ x = "artifacts"
               /\ owner[x]["top"] # "none" => bare[x]["top"] = owner[x]["top"]
    <3>1. CASE x = "artifacts"
      BY <1>3, <3>1
    <3>2. CASE x \in {"corpus", "coverage"}
      <4>1. bare[x] = Make(owner[x], {})
        BY <1>3, <3>2
      <4> QED
        BY <1>4, <3>2, <4>1 DEF Dirs
    <3> QED
      BY <3>1, <3>2 DEF Tops
  <2> QED
    BY <2>1, <2>2, <2>3
<1> HIDE DEF bare
<1>6. /\ owner' \in [Tops -> Own]
      /\ owner'["corpus"] = owner'["coverage"]
      /\ \A x \in Tops :
           /\ owner'[x]["proto"] = owner[x]["proto"]
           /\ owner[x]["top"] # "none" => owner'[x]["top"] = owner[x]["top"]
           /\ owner'[x]["top"] = "none" => owner[x]["top"] = "none"
                                             /\ owner'[x]["bytearray"] = owner[x]["bytearray"]
      /\ owner'["artifacts"]["top"] = "user" =>
           /\ owner["artifacts"]["top"] = "user"
           /\ owner["artifacts"]["bytearray"] = "user" =>
                owner'["artifacts"]["bytearray"] = "user"
  <2>1. CASE owner' = bare
    BY <1>3, <1>5, <2>1 DEF Tops
  <2>2. CASE owner' = [x \in Tops |-> Mount(bare[x], {"bytearray"})]
    <3>1. \A x \in Tops :
            /\ Mount(bare[x], {"bytearray"}) \in Own
            /\ \A d \in Dirs : Mount(bare[x], {"bytearray"})[d] =
                 IF d \in {"bytearray"} \cup {"top"} /\ bare[x][d] = "none"
                   THEN "root" ELSE bare[x][d]
      BY <1>5, MountIs DEF Fuzzers
    <3>2. \A x \in Tops :
            /\ owner'[x]["proto"] = bare[x]["proto"]
            /\ owner'[x]["top"] = IF bare[x]["top"] = "none" THEN "root" ELSE bare[x]["top"]
            /\ owner'[x]["bytearray"] =
                 IF bare[x]["bytearray"] = "none" THEN "root" ELSE bare[x]["bytearray"]
      BY <2>2, <3>1 DEF Dirs
    <3>3. owner' \in [Tops -> Own]
      BY <2>2, <3>1
    <3>4. owner'["corpus"] = owner'["coverage"]
      BY <1>5, <2>2 DEF Tops
    <3>5. bare["artifacts"] = owner["artifacts"]
      BY <1>3
    <3> QED
      BY <1>5, <3>2, <3>3, <3>4, <3>5 DEF Tops
  <2> QED
    BY <1>1, <2>1, <2>2
<1>7. \A x \in Tops : owner'[x] \in Own /\ DOMAIN owner'[x] = Dirs /\ DOMAIN owner[x] = Dirs
  BY <1>2, <1>6 DEF Own
<1>8. OwnersOK'
  BY <1>1, <1>6, <1>7 DEF IInv, OwnersOK, Stages, Tops, Dirs
<1> QED
  BY <1>1, <1>6, <1>8, OnlyOwners DEF Stages

LEMMA EnsureDirectoriesStep ==
  ASSUME IInv, EnsureDirectories
  PROVE  IInv'
<1> DEFINE ensured == [x \in Tops |-> Ensure(owner[x])]
<1>1. /\ pc = "prepare" /\ prof' = prof /\ others' = others
      /\ UNCHANGED <<data, opts, n, campaign>>
      /\ \/ /\ \A x \in Tops : ensured[x]["top"] = "user"
            /\ \/ owner' = ensured
               \/ owner' = [x \in Tops |-> Mount(ensured[x], {opts.bin})]
            /\ pc' = "fuzz"
         \/ owner' = ensured /\ pc' = "idle"
  BY DEF EnsureDirectories, data
<1>2. \A x \in Tops : owner[x] \in Own /\ DOMAIN owner[x] = Dirs
  BY OwnerType DEF IInv
<1>3. opts.bin \in Fuzzers
  BY DEF IInv, TypeOK, Options
<1>4. \A x \in Tops :
        /\ Ensure(owner[x]) \in Own
        /\ Ensure(owner[x])["top"] =
             IF owner[x]["top"] = "none" THEN "user" ELSE owner[x]["top"]
        /\ Ensure(owner[x])["bytearray"] =
             IF owner[x]["top"] = "none" THEN "user" ELSE owner[x]["bytearray"]
        /\ Ensure(owner[x])["proto"] =
             IF owner[x]["top"] # "root" /\ owner[x]["proto"] = "none"
               THEN "user" ELSE owner[x]["proto"]
  BY <1>2, EnsureIs DEF IInv, OwnersOK
<1>5. /\ ensured \in [Tops -> Own] /\ \A x \in Tops : ensured[x] \in Own
      /\ ensured["corpus"] = ensured["coverage"]
      /\ \A x \in Tops : ensured[x] = Ensure(owner[x])
  BY <1>4 DEF IInv, OwnersOK, Tops
<1> HIDE DEF ensured
<1>6. \A x \in Tops :
        /\ ensured[x]["top"] = IF owner[x]["top"] = "none" THEN "user" ELSE owner[x]["top"]
        /\ ensured[x]["bytearray"] =
             IF owner[x]["top"] = "none" THEN "user" ELSE owner[x]["bytearray"]
        /\ ensured[x]["proto"] =
             IF owner[x]["top"] # "root" /\ owner[x]["proto"] = "none"
               THEN "user" ELSE owner[x]["proto"]
  BY <1>4, <1>5
<1>7. ASSUME \A x \in Tops : ensured[x]["top"] = "user"
      PROVE  \A x \in Tops : ensured[x]["proto"] = "user"
  BY <1>2, <1>6, <1>7 DEF IInv, OwnersOK, Own, Dirs
<1>8. CASE owner' = ensured
  <2>1. \A x \in Tops : DOMAIN owner'[x] = Dirs
    BY <1>5, <1>8 DEF Own
  <2>2. OwnersOK'
    BY <1>1, <1>2, <1>5, <1>6, <1>7, <1>8, <2>1 DEF IInv, OwnersOK, Stages, Tops, Dirs
  <2> QED
    BY <1>1, <1>5, <1>8, <2>2, OnlyOwners DEF Stages, IInv, TypeOK
<1>9. CASE /\ \A x \in Tops : ensured[x]["top"] = "user"
           /\ owner' = [x \in Tops |-> Mount(ensured[x], {opts.bin})]
           /\ pc' = "fuzz"
  <2>1. \A x \in Tops :
          /\ Mount(ensured[x], {opts.bin}) \in Own
          /\ \A d \in Dirs : Mount(ensured[x], {opts.bin})[d] =
               IF d \in {opts.bin} \cup {"top"} /\ ensured[x][d] = "none"
                 THEN "root" ELSE ensured[x][d]
    BY <1>3, <1>5, MountIs
  <2>2. /\ owner' \in [Tops -> Own] /\ owner'["corpus"] = owner'["coverage"]
        /\ \A x \in Tops : owner'[x] \in Own /\ DOMAIN owner'[x] = Dirs
    BY <1>5, <1>9, <2>1 DEF Tops, Own
  <2>3. \A x \in Tops :
          /\ owner'[x]["top"] = "user" /\ owner'[x]["proto"] = "user"
          /\ ensured[x]["bytearray"] # "none" => owner'[x]["bytearray"] = ensured[x]["bytearray"]
    BY <1>7, <1>9, <2>1 DEF Dirs
  <2>4. ensured["artifacts"]["bytearray"] = "user"
    BY <1>6, <1>9 DEF IInv, OwnersOK, Tops
  <2>5. ~ others => \A x \in Tops : ensured[x]["bytearray"] = "user"
    BY <1>2, <1>6, <1>9 DEF IInv, OwnersOK, Dirs
  <2>6. OwnersOK'
    BY <1>1, <2>2, <2>3, <2>4, <2>5 DEF IInv, OwnersOK, Stages, Tops, Dirs
  <2> QED
    BY <1>1, <1>9, <2>2, <2>6, OnlyOwners DEF Stages, IInv, TypeOK
<1> QED
  BY <1>1, <1>8, <1>9

\* When there is something to combine the directories of both fuzzers are made.
LEMMA MountCombinedIs ==
  ASSUME IInv, MountCombined, pc = "combine", \E f \in Fuzzers : prof[f] # None,
         pc' = "idle", UNCHANGED <<others, prof>>
  PROVE  owner' \in [Tops -> Own] /\ OwnersOK'
<1>1. \A x \in Tops : owner[x] \in Own /\ DOMAIN owner[x] = Dirs
  BY OwnerType DEF IInv
<1> DEFINE D(x) == IF x = "coverage" THEN Fuzzers ELSE {"bytearray"}
<1>2. owner' = [x \in Tops |-> Mount(owner[x], D(x))]
  BY DEF MountCombined
<1>3. \A x \in Tops :
        /\ Mount(owner[x], D(x)) \in Own
        /\ \A d \in Dirs : Mount(owner[x], D(x))[d] =
             IF d \in D(x) \cup {"top"} /\ owner[x][d] = "none" THEN "root" ELSE owner[x][d]
  <2>1. \A x \in Tops : D(x) \in SUBSET Fuzzers
    BY DEF Fuzzers
  <2> HIDE DEF D
  <2> QED
    BY <1>1, <2>1, MountIs
<1>4. \A x \in Tops : owner[x]["top"] # "none" /\ owner[x]["proto"] = "user"
  BY DEF IInv, OwnersOK
<1>5. /\ owner' \in [Tops -> Own]
      /\ \A x \in Tops :
           /\ owner'[x] \in Own /\ DOMAIN owner'[x] = Dirs
           /\ owner'[x]["top"] = owner[x]["top"] /\ owner'[x]["proto"] = "user"
           /\ owner'[x]["bytearray"] =
                IF owner[x]["bytearray"] = "none" THEN "root" ELSE owner[x]["bytearray"]
  <2>1. \A x \in Tops : owner'[x] = Mount(owner[x], D(x))
    BY <1>2
  <2>2. \A x \in Tops : "bytearray" \in D(x)
    BY DEF Fuzzers
  <2>3. owner' \in [Tops -> Own]
    BY <1>2, <1>3
  <2> HIDE DEF D
  <2>4. \A x \in Tops : owner'[x] \in Own /\ DOMAIN owner'[x] = Dirs
    BY <2>3 DEF Own
  <2> QED
    BY <1>3, <1>4, <2>1, <2>2, <2>3, <2>4 DEF Dirs
<1>6. owner'["corpus"] = owner'["coverage"]
  <2>1. \A d \in Dirs : owner'["corpus"][d] = owner'["coverage"][d]
    BY <1>5 DEF IInv, OwnersOK, Tops, Dirs
  <2>2. owner'["corpus"] \in Own /\ owner'["coverage"] \in Own
    BY <1>5 DEF Tops
  <2> QED
    BY <2>1, <2>2 DEF Own
<1> QED
  BY <1>1, <1>4, <1>5, <1>6 DEF IInv, OwnersOK, Stages, Tops, Dirs

LEMMA CombineFailsStep ==
  ASSUME IInv, CombineFails
  PROVE  IInv'
<1>1. /\ pc = "combine" /\ pc' = "idle" /\ UNCHANGED <<others, prof>>
      /\ UNCHANGED <<data, opts, n, campaign>> /\ MountCombined
      /\ \E f \in Fuzzers : prof[f] # None
  BY DEF CombineFails, data
<1>2. owner' \in [Tops -> Own] /\ OwnersOK'
  BY <1>1, MountCombinedIs
<1>3. others' \in BOOLEAN
  BY <1>1 DEF IInv, TypeOK
<1> QED
  BY <1>1, <1>2, <1>3, OnlyOwners DEF Stages

LEMMA CombineCoverageStep ==
  ASSUME IInv, CombineCoverage
  PROVE  IInv'
<1>1. /\ pc = "combine" /\ pc' = "idle"
      /\ UNCHANGED <<others, corpus, running, saved, prof, report, row, opts, n, campaign, lost>>
      /\ \/ UNCHANGED <<owner, overall>>
         \/ /\ \E f \in Fuzzers : prof[f] # None
            /\ MountCombined
            /\ overall' = Of([f \in Fuzzers |-> prof[f]])
  BY DEF CombineCoverage
<1>2. owner' \in [Tops -> Own] /\ OwnersOK'
  <2>1. CASE UNCHANGED owner
    BY <1>1, <2>1, OwnerType DEF IInv, OwnersOK, Stages
  <2>2. CASE MountCombined /\ \E f \in Fuzzers : prof[f] # None
    BY <1>1, <2>2, MountCombinedIs
  <2> QED
    BY <1>1, <2>1, <2>2
<1>3. /\ overall' # None => overall'.data \in [Fuzzers -> Data \ {0}]
      /\ overall' # None /\ overall'.good => overall'.data[overall'.bin] = overall'.run
  <2>1. CASE UNCHANGED overall
    BY <2>1 DEF IInv, TypeOK, CoverageIsOfThisRun
  <2>2. CASE overall' = Of([f \in Fuzzers |-> prof[f]])
    <3>1. prof \in [Places -> Data \ {0}] /\ opts.bin \in Fuzzers
      BY DEF IInv, TypeOK, Options
    <3>2. /\ overall'.data = [f \in Fuzzers |-> prof[f]] /\ overall'.run = n
          /\ overall'.bin = opts.bin
          /\ overall'.good <=> campaign = "done" /\ ~ opts.local
      BY <2>2 DEF Of
    <3>3. [f \in Fuzzers |-> prof[f]] \in [Fuzzers -> Data \ {0}]
      BY <3>1 DEF Places
    <3>4. overall'.good => prof[opts.bin] = n
      BY <1>1, <3>2 DEF IInv, CoverageOK
    <3> QED
      BY <3>1, <3>2, <3>3, <3>4
  <2> QED
    BY <1>1, <2>1, <2>2
<1>4. owner' \in [Tops -> [{"top"} \cup Fuzzers -> {"none", "user", "root"}]]
  BY <1>2 DEF Own, Dirs, Fuzzers
<1>5. TypeOK'
  BY <1>1, <1>3, <1>4 DEF IInv, TypeOK
<1>6. CorporaOK' /\ CoverageOK'
  BY <1>1 DEF IInv, CorporaOK, CoverageOK, Stages
<1>7. saved' # FALSE /\ CoverageIsOfThisRun'
  BY <1>1, <1>3 DEF IInv, CoverageIsOfThisRun
<1> QED
  BY <1>2, <1>5, <1>6, <1>7 DEF IInv

-----------------------------------------------------------------------------
(* The run of a campaign.                                                  *)

\* run-fuzzer.sh is called.
LEMMA CallStep ==
  ASSUME IInv, RunFuzzer \/ RunCombine
  PROVE  IInv'
<1>1. /\ pc = "idle" /\ pc' \in {"prepare", "combine"}
      /\ n < Runs /\ n' = n + 1 /\ campaign' = "none" /\ lost' = {}
      /\ UNCHANGED <<dirs, corpus, running, saved, prof, report, row, overall>>
  BY DEF RunFuzzer, RunCombine
<1>2. opts' \in Options
  BY DEF RunFuzzer, RunCombine, NoOptions, Options, Fuzzers
<1>3. n' \in 0..Runs /\ n' >= 1
  BY <1>1, RunsAssumption DEF IInv, TypeOK
<1>4. TypeOK'
  BY <1>1, <1>2, <1>3 DEF IInv, TypeOK, dirs
<1>5. OwnersOK'
  BY <1>1, OwnersKept DEF Stages
<1>6. CorporaOK' /\ CoverageOK'
  BY <1>1, <1>3 DEF IInv, CorporaOK, CoverageOK, Stages
<1> QED
  BY <1>1, <1>4, <1>5, <1>6 DEF IInv, CoverageIsOfThisRun

\* start-fuzzer.sh returns: in order only if what it found is merged and the
\* report is of this run.
LEMMA LeaveStep ==
  ASSUME IInv, pc \in Stages, NEW status \in {"done", "failed"}, Leave(status),
         UNCHANGED <<dirs, prof, row, overall, opts, n>>,
         corpus' \in [Places -> SUBSET Entries],
         saved' \in BOOLEAN \cup {None}, saved' # FALSE,
         report' \in [Places -> Data],
         status = "done" =>
           /\ running["container"] \subseteq corpus[place]
           /\ ~ opts.local => report'[opts.bin] = n /\ prof[opts.bin] = n
  PROVE  IInv'
<1>1. /\ campaign' = status /\ pc' \in {"track", "combine", "idle"}
      /\ running' = [running EXCEPT !["container"] = {}]
      /\ lost' = running["container"] \ corpus[place]
  BY DEF Leave, After
<1>2. running \in [{"container", "local"} -> SUBSET Entries]
  BY DEF IInv, TypeOK
<1>3. /\ running'["container"] = {}
      /\ running' \in [{"container", "local"} -> SUBSET Entries]
      /\ lost' \subseteq Entries
  BY <1>1, <1>2
<1>4. TypeOK'
  BY <1>1, <1>3 DEF IInv, TypeOK, dirs
<1>5. OwnersOK'
  BY <1>1, OwnersKept DEF Stages
<1>6. CorporaOK'
  BY <1>1, <1>3 DEF CorporaOK, Stages
<1>7. CoverageOK'
  BY <1>1 DEF IInv, CoverageOK, Stages
<1> QED
  BY <1>4, <1>5, <1>6, <1>7 DEF IInv, CoverageIsOfThisRun

LEMMA FindEntryStep ==
  ASSUME IInv, FindEntry
  PROVE  IInv'
<1>1. PICK e \in Entries : running' = [running EXCEPT ![host] = @ \cup {e}]
  BY DEF FindEntry
<1>2. /\ pc = "fuzz" /\ pc' = "fuzz"
      /\ UNCHANGED <<dirs, corpus, saved, prof, report, row, overall, opts, n, campaign, lost>>
  BY DEF FindEntry
<1>3. running \in [{"container", "local"} -> SUBSET Entries]
  BY DEF IInv, TypeOK
<1>4. /\ running' \in [{"container", "local"} -> SUBSET Entries]
      /\ opts.local => running'["container"] = running["container"]
  BY <1>1, <1>3 DEF host
<1>5. TypeOK'
  BY <1>2, <1>4 DEF IInv, TypeOK, dirs
<1>6. OwnersOK'
  BY <1>2, OwnersKept
<1>7. CorporaOK' /\ CoverageOK'
  BY <1>2, <1>4 DEF IInv, CorporaOK, CoverageOK, Stages
<1> QED
  BY <1>2, <1>5, <1>6, <1>7 DEF IInv, CoverageIsOfThisRun

LEMMA FuzzEndsStep ==
  ASSUME IInv, FuzzEnds
  PROVE  IInv'
<1>1. /\ pc = "fuzz" /\ pc' = "merge"
      /\ UNCHANGED <<dirs, corpus, running, saved, prof, report, row, overall, lost,
                     opts, n, campaign>>
  BY DEF FuzzEnds, data
<1>2. TypeOK'
  BY <1>1 DEF IInv, TypeOK, dirs
<1>3. OwnersOK'
  BY <1>1, OwnersKept DEF Stages
<1>4. CorporaOK' /\ CoverageOK'
  BY <1>1 DEF IInv, CorporaOK, CoverageOK, Stages
<1> QED
  BY <1>1, <1>2, <1>3, <1>4 DEF IInv, CoverageIsOfThisRun

LEMMA FindCrashStep ==
  ASSUME IInv, FindCrash
  PROVE  IInv'
<1>1. /\ pc = "fuzz" /\ saved' = Writable("artifacts") /\ Leave("failed")
      /\ UNCHANGED <<dirs, corpus, prof, report, row, overall, opts, n>>
  BY DEF FindCrash
<1>2. Writable("artifacts")
  <2>1. opts.bin \in Fuzzers
    BY DEF IInv, TypeOK, Options
  <2> QED
    BY <1>1, <2>1 DEF IInv, OwnersOK, Stages, Tops, Fuzzers, Writable
<1>3. saved' = TRUE
  BY <1>1, <1>2 DEF Writable
<1>4. corpus' \in [Places -> SUBSET Entries] /\ report' \in [Places -> Data]
  BY <1>1 DEF IInv, TypeOK
<1> QED
  BY <1>1, <1>3, <1>4, LeaveStep DEF Stages

\* Where the corpus is writable the container can write the coverage too.
LEMMA SameMounts ==
  ASSUME IInv, pc \in Stages
  PROVE  Writable("corpus") <=> Writable("coverage")
BY DEF IInv, OwnersOK, Writable

LEMMA MergeStep ==
  ASSUME IInv, Merge
  PROVE  IInv'
<1>1. /\ pc = "merge"
      /\ UNCHANGED <<dirs, saved, prof, report, row, overall, opts, n>>
      /\ corpus' = IF Writable("corpus")
                     THEN [corpus EXCEPT ![place] = @ \cup running[host]] ELSE corpus
      /\ \/ opts.local /\ Leave("done")
         \/ ~ opts.local /\ pc' = "profdata" /\ UNCHANGED <<running, campaign, lost>>
  BY DEF Merge
<1>2. place \in Places /\ host \in {"container", "local"}
  BY DEF IInv, TypeOK, Options, place, host, Places
<1>3. /\ corpus \in [Places -> SUBSET Entries]
      /\ running \in [{"container", "local"} -> SUBSET Entries]
      /\ report \in [Places -> Data] /\ saved \in BOOLEAN \cup {None}
  BY DEF IInv, TypeOK
<1>4. corpus' \in [Places -> SUBSET Entries]
  BY <1>1, <1>2, <1>3
<1>5. CASE opts.local /\ Leave("done")
  <2>1. running["container"] = {}
    BY <1>5 DEF IInv, CorporaOK
  <2> QED
    BY <1>1, <1>3, <1>4, <1>5, <2>1, LeaveStep DEF Stages, IInv
<1>6. CASE ~ opts.local /\ pc' = "profdata" /\ UNCHANGED <<running, campaign, lost>>
  <2>1. TypeOK'
    BY <1>1, <1>4, <1>6 DEF IInv, TypeOK, dirs
  <2>2. OwnersOK'
    BY <1>1, OwnersKept DEF Stages
  <2>3. Writable("corpus") => running["container"] \subseteq corpus'[place]
    BY <1>1, <1>2, <1>3, <1>6 DEF host
  <2>4. place' = place /\ Writable("corpus")' = Writable("corpus")
    BY <1>1 DEF place, Writable, dirs
  <2>5. CorporaOK'
    BY <1>1, <1>6, <2>3, <2>4 DEF IInv, CorporaOK, Stages
  <2>6. CoverageOK'
    BY <1>1, <1>6 DEF IInv, CoverageOK
  <2> QED
    BY <1>1, <2>1, <2>2, <2>5, <2>6 DEF IInv, CoverageIsOfThisRun
<1> QED
  BY <1>1, <1>5, <1>6

LEMMA ProfdataStep ==
  ASSUME IInv, Profdata
  PROVE  IInv'
<1>1. /\ pc = "profdata"
      /\ UNCHANGED <<dirs, corpus, saved, report, row, overall, opts, n>>
      /\ \/ /\ Writable("coverage")
            /\ prof' = [prof EXCEPT ![place] = n]
            /\ pc' = "show"
            /\ UNCHANGED <<running, campaign, lost>>
         \/ Leave("failed") /\ UNCHANGED prof
  BY DEF Profdata
<1>2. /\ prof \in [Places -> Data \ {0}] /\ place \in Places /\ n \in Data \ {0}
      /\ corpus \in [Places -> SUBSET Entries]
      /\ report \in [Places -> Data] /\ saved \in BOOLEAN \cup {None}
  BY <1>1, RunsAssumption
     DEF IInv, TypeOK, CoverageOK, Options, place, Places, Data
<1>3. CASE Leave("failed") /\ UNCHANGED prof
  BY <1>1, <1>2, <1>3, LeaveStep DEF Stages, IInv
<1>4. CASE /\ Writable("coverage")
           /\ prof' = [prof EXCEPT ![place] = n]
           /\ pc' = "show"
           /\ UNCHANGED <<running, campaign, lost>>
  <2>1. prof' \in [Places -> Data \ {0}] /\ prof'[place] = n
    BY <1>2, <1>4
  <2>2. TypeOK'
    BY <1>1, <1>4, <2>1 DEF IInv, TypeOK, dirs
  <2>3. OwnersOK'
    BY <1>1, <1>4, OwnersKept DEF Stages
  <2>4. place' = place /\ \A x \in Tops : Writable(x)' = Writable(x)
    BY <1>1 DEF place, Writable, dirs
  <2>5. CorporaOK'
    BY <1>1, <1>4, <2>4 DEF IInv, CorporaOK, Stages, Tops
  <2>6. CoverageOK'
    BY <1>1, <1>4, <2>1, <2>4 DEF IInv, CoverageOK, Tops
  <2> QED
    BY <1>1, <2>2, <2>3, <2>5, <2>6 DEF IInv, CoverageIsOfThisRun
<1> QED
  BY <1>1, <1>3, <1>4

LEMMA ShowStep ==
  ASSUME IInv, Show
  PROVE  IInv'
<1>1. /\ pc = "show" /\ pc' = "report"
      /\ UNCHANGED <<dirs, corpus, running, saved, prof, report, row, overall, lost,
                     opts, n, campaign>>
  BY DEF Show, data
<1>2. TypeOK'
  BY <1>1 DEF IInv, TypeOK, dirs
<1>3. OwnersOK'
  BY <1>1, OwnersKept DEF Stages
<1>4. place' = place /\ \A x \in Tops : Writable(x)' = Writable(x)
  BY <1>1 DEF place, Writable, dirs
<1>5. CorporaOK' /\ CoverageOK'
  BY <1>1, <1>4 DEF IInv, CorporaOK, CoverageOK, Stages, Tops
<1> QED
  BY <1>1, <1>2, <1>3, <1>5 DEF IInv, CoverageIsOfThisRun

LEMMA ReportStep ==
  ASSUME IInv, Report
  PROVE  IInv'
<1>1. /\ pc = "report"
      /\ report' = [report EXCEPT ![place] = prof[place]]
      /\ UNCHANGED <<dirs, corpus, saved, prof, row, overall, opts, n>>
  BY DEF Report
<1>2. PICK status \in {"done", "failed"} : Leave(status)
  BY DEF Report
<1>3. /\ report \in [Places -> Data] /\ prof \in [Places -> Data \ {0}]
      /\ place \in Places /\ opts.bin \in Fuzzers
      /\ corpus \in [Places -> SUBSET Entries] /\ saved \in BOOLEAN \cup {None}
  BY DEF IInv, TypeOK, Options, place, Places
<1>4. report' \in [Places -> Data] /\ report'[place] = prof[place]
  BY <1>1, <1>3
<1>5. prof[place] = n /\ ~ opts.local /\ place = opts.bin /\ Writable("coverage")
  BY <1>1 DEF IInv, CoverageOK, place
<1>6. running["container"] \subseteq corpus[place]
  BY <1>1, <1>5, SameMounts DEF IInv, CorporaOK, Stages
<1> QED
  BY <1>1, <1>2, <1>3, <1>4, <1>5, <1>6, LeaveStep DEF Stages, IInv

LEMMA StageFailsStep ==
  ASSUME IInv, StageFails
  PROVE  IInv'
<1>1. /\ pc \in Stages /\ Leave("failed")
      /\ report' = IF pc = "report" THEN [report EXCEPT ![place] = 0] ELSE report
      /\ UNCHANGED <<dirs, corpus, saved, prof, row, overall, opts, n>>
  BY DEF StageFails, Stages
<1>2. /\ report \in [Places -> Data] /\ place \in Places /\ 0 \in Data
      /\ corpus \in [Places -> SUBSET Entries] /\ saved \in BOOLEAN \cup {None}
  BY RunsAssumption DEF IInv, TypeOK, Options, place, Places, Data
<1>3. report' \in [Places -> Data]
  BY <1>1, <1>2
<1> QED
  BY <1>1, <1>2, <1>3, LeaveStep DEF IInv

LEMMA TrackStep ==
  ASSUME IInv, Track
  PROVE  IInv'
<1>1. /\ pc = "track" /\ pc' \in {"combine", "idle"}
      /\ UNCHANGED <<dirs, corpus, running, saved, prof, report, overall, opts, n,
                     campaign, lost>>
      /\ row' = IF report[opts.bin] \in {None, 0} THEN row ELSE Of(report[opts.bin])
  BY DEF Track, After, ReportOf
<1>2. /\ row' # None => row'.run \in 1..Runs /\ row'.data \in 1..Runs
      /\ row' # None /\ row'.good => row'.data = row'.run
  <2>1. CASE row' = row
    BY <2>1 DEF IInv, TypeOK, CoverageIsOfThisRun
  <2>2. CASE report[opts.bin] \notin {None, 0} /\ row' = Of(report[opts.bin])
    <3>1. /\ row'.run = n /\ row'.data = report[opts.bin]
          /\ row'.good <=> campaign = "done" /\ ~ opts.local
      BY <2>2 DEF Of
    <3>2. report[opts.bin] \in 1..Runs /\ n \in 1..Runs
      BY <1>1, <2>2, RunsAssumption
         DEF IInv, TypeOK, CoverageOK, Options, Places, Data
    <3>3. row'.good => row'.data = row'.run
      BY <1>1, <3>1 DEF IInv, CoverageOK
    <3> QED
      BY <3>1, <3>2, <3>3
  <2> QED
    BY <1>1, <2>1, <2>2
<1>3. TypeOK'
  BY <1>1, <1>2 DEF IInv, TypeOK, dirs
<1>4. OwnersOK'
  BY <1>1, OwnersKept DEF Stages
<1>5. CorporaOK' /\ CoverageOK'
  BY <1>1 DEF IInv, CorporaOK, CoverageOK, Stages
<1> QED
  BY <1>1, <1>2, <1>3, <1>4, <1>5 DEF IInv, CoverageIsOfThisRun

-----------------------------------------------------------------------------
(* The theorems.                                                           *)

\* The inductive invariant, for the scripts from run-fuzzer.sh to
\* combine-coverage.sh.
THEOREM Invariance == Spec => []IInv
<1>1. Init => IInv
  <2>1. SUFFICES ASSUME Init
                 PROVE  IInv
    OBVIOUS
  <2>2. /\ owner \in [Tops -> [{"top"} \cup Fuzzers -> {"none", "user", "root"}]]
        /\ \A x \in Tops : DOMAIN owner[x] = Dirs /\ \A d \in Dirs : owner[x][d] = "none"
        /\ owner["corpus"] = owner["coverage"]
    BY <2>1 DEF Init, Dirs, Fuzzers, Tops
  <2>3. /\ corpus \in [Places -> SUBSET Entries]
        /\ running \in [{"container", "local"} -> SUBSET Entries]
        /\ running["container"] = {}
    BY <2>1 DEF Init
  <2>4. /\ prof \in [Places -> Data \ {0}] /\ report \in [Places -> Data]
        /\ \A f \in Fuzzers : prof[f] = None
    BY <2>1, RunsAssumption DEF Init, Data, Places
  <2>5. /\ opts \in Options /\ n \in 0..Runs
        /\ saved # FALSE /\ saved \in BOOLEAN \cup {None}
    <3>1. opts \in Options
      BY <2>1 DEF Init, NoOptions, Options, Fuzzers
    <3>2. n \in 0..Runs
      BY <2>1, RunsAssumption DEF Init
    <3>3. saved # FALSE /\ saved \in BOOLEAN \cup {None}
      BY <2>1, RunsAssumption DEF Init
    <3> QED
      BY <3>1, <3>2, <3>3
  <2>6. TypeOK
    BY <2>1, <2>2, <2>3, <2>4, <2>5 DEF Init, TypeOK
  <2>7. OwnersOK
    BY <2>1, <2>2, <2>4 DEF Init, OwnersOK, Stages, Tops, Dirs
  <2>8. CorporaOK /\ CoverageOK /\ CoverageIsOfThisRun
    BY <2>1, <2>3 DEF Init, CorporaOK, CoverageOK, CoverageIsOfThisRun, Stages
  <2> QED
    BY <2>5, <2>6, <2>7, <2>8 DEF IInv
<1>2. IInv /\ [Next]_vars => IInv'
  <2>1. SUFFICES ASSUME IInv, [Next]_vars
                 PROVE  IInv'
    OBVIOUS
  <2>2. CASE TestSeed
    BY <2>1, <2>2, TestSeedStep
  <2>3. CASE GenerateSeeds
    BY <2>1, <2>3, GenerateSeedsStep
  <2>4. CASE RunFuzzer \/ RunCombine
    BY <2>1, <2>4, CallStep
  <2>5. CASE FindEntry
    BY <2>1, <2>5, FindEntryStep
  <2>6. CASE FindCrash
    BY <2>1, <2>6, FindCrashStep
  <2>7. CASE StageFails
    BY <2>1, <2>7, StageFailsStep
  <2>8. CASE CombineFails
    BY <2>1, <2>8, CombineFailsStep
  <2>9. CASE EnsureDirectories
    BY <2>1, <2>9, EnsureDirectoriesStep
  <2>10. CASE FuzzEnds
    BY <2>1, <2>10, FuzzEndsStep
  <2>11. CASE Merge
    BY <2>1, <2>11, MergeStep
  <2>12. CASE Profdata
    BY <2>1, <2>12, ProfdataStep
  <2>13. CASE Show
    BY <2>1, <2>13, ShowStep
  <2>14. CASE Report
    BY <2>1, <2>14, ReportStep
  <2>15. CASE Track
    BY <2>1, <2>15, TrackStep
  <2>16. CASE CombineCoverage
    BY <2>1, <2>16, CombineCoverageStep
  <2>17. CASE UNCHANGED vars
    <3>1. /\ UNCHANGED <<owner, others, corpus, running, saved, prof, report, row,
                         overall, pc, opts, n, campaign, lost>>
      BY <2>17 DEF vars, dirs, data
    <3>2. TypeOK'
      BY <2>1, <3>1 DEF IInv, TypeOK
    <3>3. OwnersOK'
      BY <2>1, <2>17, OwnersKept, <3>1 DEF vars
    <3>4. CorporaOK' /\ CoverageOK' /\ CoverageIsOfThisRun'
      BY <2>1, <3>1 DEF IInv, CorporaOK, CoverageOK, CoverageIsOfThisRun, Writable, place
    <3> QED
      BY <2>1, <3>1, <3>2, <3>3, <3>4 DEF IInv
  <2> QED
    BY <2>1, <2>2, <2>3, <2>4, <2>5, <2>6, <2>7, <2>8, <2>9, <2>10, <2>11, <2>12,
       <2>13, <2>14, <2>15, <2>16, <2>17 DEF Next, Step
<1> QED
  BY <1>1, <1>2, PTL DEF Spec

\* The variables have their types; a row is never of an empty report
\* (track-coverage:53-66).
THEOREM TypeCorrectness == Spec => []TypeOK
<1>1. IInv => TypeOK
  BY DEF IInv
<1> QED
  BY <1>1, Invariance, PTL

\* Corpus entries are lost with a container only if a stage failed
\* (start-fuzzer.sh:138-158).
THEOREM NothingLostInOrder == Spec => []LossOnlyOnFailure
<1>1. IInv => LossOnlyOnFailure
  BY DEF IInv, CorporaOK, Stages, LossOnlyOnFailure
<1> QED
  BY <1>1, Invariance, PTL

\* The container can write what it has to, however seed scripts and campaigns
\* follow each other (run-fuzzer.sh:64-78).
THEOREM DirectoriesAreWritable == Spec => []HostOwnsDirectories
<1>1. IInv => HostOwnsDirectories
  BY DEF IInv, OwnersOK, HostOwnsDirectories
<1> QED
  BY <1>1, Invariance, PTL

\* Coverage that is recorded after a campaign in order is that campaign's
\* (run-fuzzer.sh:195-202).
THEOREM CoverageIsCurrent == Spec => []CoverageIsOfThisRun
<1>1. IInv => CoverageIsOfThisRun
  BY DEF IInv
<1> QED
  BY <1>1, Invariance, PTL
===============================================================================
