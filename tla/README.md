# Verification of the TPM 2.0 fuzzer

The repository is a fuzzing harness for TPM 2.0 implementations: two libFuzzer
targets, the layer that keeps HMAC sessions valid while inputs are mutated, and
a generator of seed inputs. This directory holds TLA+ modules that model them,
TLC configurations that check small instances, and proofs that TLAPS checks for
every value of the constants. Paths below are relative to the repository's
root.

## 1. Inventory

### Components, state and operations

| component | source | state | operations |
|---|---|---|---|
| session layer | `src/harness/session_auth.cc`, `include/harness/command_attributes.h` | the global `g_session`: armed handle, hash, nonceTPM, Name table, pending StartAuthSession, last command code | `SessionAuthReset`, `SessionAuthPatchCommand`, `SessionAuthProcessResponse` |
| structure-aware target | `src/proto-fuzzer.cc` | command buffer, response buffer, the loop over the messages of an input | one iteration: power on, reset, (marshal, patch, send, process)*, shut down |
| post-processors and normalisation | `src/harness/proto_postprocessors.cc`, `proto_normalization.cc` | the message | one function per command, run by the mutator after every mutation and on every saved input |
| conversion | `src/harness/proto_conversion.cc` | the 1 MiB buffer and the write offset | marshal a command field by field; patch authorizationSize and commandSize |
| byte target | `src/fuzzer.cc`, `src/parser/byte_parser.cc` | offset, list of commands | cut the input at its size fields, send all or nothing |
| TPM wrapper | `src/harness/tpm_wrapper.c` | power, NV in memory, the file `NVChip` | manufacture if needed, start up, send, shut down, delete the NV |
| tester | `src/tester.cc` | none of its own | one file through the wrapper |
| seed commands | `tools/seed-generation/tpm2_commands.py`, `tpm2_types.py` | the bytes of the parameters | serialize, `to_proto` |
| seed files | `tools/seed-generation/main.py`, `seeds/` | two directories of variants | per variant: create, or compare, replace and remove |
| campaign scripts | `scripts/run-fuzzer.sh`, `scripts/docker/*.sh`, `scripts/track-coverage`, `scripts/test-seed.sh`, `docker-compose.yml` | the directories `corpus`, `coverage`, `artifacts` of the host and their owners, what a container holds, the coverage history | make directories, fuzz, merge, coverage, track, combine |
| TPM under test | a git submodule, not in the repository | sessions, objects, NV | execute a command |

### How they interact

Everything in a process is sequential: libFuzzer calls a target with one input
at a time. The session layer is called before a command leaves and when its
response arrives, and knows nothing else: it is not told when a session ends or
an object is flushed, so its state and the TPM's drift apart unless each
call keeps them together. The two drivers use the wrapper the same way. What
outlives an input is `g_session` (reset at the next one), the NV in memory, and
`NVChip`; what outlives a process is `NVChip`, which processes of one
working directory share. The seed generator writes each seed twice, as bytes for
one target and as messages for the other, and the second passes through the
post-processors and the conversion before a TPM sees it.

Between processes there are only files. A campaign is a chain of scripts: the
one on the host makes directories, the Docker daemon mounts them (and makes, as
root, what is missing), the script in the container fuzzes into a directory that
goes with the container and merges from it into the mounted one, and the host's
script then reads what reports it finds. Stages stop at the first failure in the
container and go on regardless outside. The seed generator knows what it did last
time only by listing its directory.

### What is hard, and the properties that make a component correct

* *Session layer.* It shadows another machine's state by watching the traffic.
  Correct: after each response the nonce is the TPM's, a recorded Name belongs
  to the object now behind the handle, a response is matched with its command,
  a patched HMAC is accepted, nothing leaks from one input into the next.
* *In-place rewrite.* Sizes from the input, memory that overlaps. Correct:
  nothing is written outside the buffer, the 64 bytes the driver reserves always
  suffice, and the result parses again with the seed's handles and parameters.
* *Byte parser.* Size fields from the input. Correct: the loop ends, what is
  sent tiles the input, and only an input with no tiling is rejected.
* *Conversion.* Schema, attribute table and dispatch are three descriptions of
  the same commands in three files. Correct: the header describes the buffer,
  the session layer finds the area and its entries where it looks for them, and
  no command disappears but for its size.
* *Wrapper.* Failed manufacture, crashes, processes that share a file. Correct:
  a command reaches a TPM that is ready, and an input starts on fresh NV.
* *Seeds.* One seed in two forms. Correct: both targets send the same commands.
* *Seed files.* A directory that outlives the runs, names that carry a minute,
  kills and exceptions between two writes. Correct: a run leaves one file per
  seed with what its definition asks for, touches nothing else, and never has a
  moment in which a seed is gone.
* *Campaign.* Every stage may fail, and two scripts disagree about what happens
  next. Correct: what was found is merged unless something failed, the container
  can write where it must, a report or history row is of the run it names, and a
  campaign with a limit ends.

`PROJECT.json` lists the hazards at their lines with the properties that watch
them.

## 2. Modules

| module | models | state and actions |
|---|---|---|
| `CommandAttributes` | the table of `command_attributes.h` | constant operators shared by the next modules |
| `TpmTraffic` | the commands, responses and classes of handles that the next three modules speak of | constant operators |
| `SessionAuth` | `session_auth.cc` | the record `g_session`; one operator per entry point |
| `Tpm` (external) | the TPM as the layer sees it | `sessions`, `objects`, `clock`, `response`; `TpmExecute` |
| `ProtoFuzzer` | `DEFINE_PROTO_FUZZER`, composing the two | `BeginIteration`, `SkipCommand`, `MarshalAndPatch`, `SendCommand`, `ProcessResponse`, `EndIteration` |
| `SessionPromise` | what the session layer promises, as a layer could keep it that looks into the TPM | the TPM, the session the layer works for, the handles it knows and whether a command made it lose track; `Begin`, `Prepare`, `Execute`, `Answer`, `End` |
| `PatchLayout` | the bytes of `SessionAuthPatchCommand` and `PatchAuthArea` | the buffer and the local offsets; one action per memory operation |
| `CommandHeaders` | the header as `parseCommands` reads it | constant operators |
| `ByteParser` | `parseCommands` and `LLVMFuzzerTestOneInput` | offset, commands, sent; `Begin`, `Cut`, `Reject`, `Accept`, `Send`, `Finish` |
| `ByteTarget` | what the byte target promises, without a loop or an offset | an input is taken and answered, with the commands of the only split of it, one after the other, or with none |
| `TpmLifecycle` | `tpm_wrapper.c` over several processes | per process place, NV, power; `file` per directory; one action per wrapper call, and `Crash` |
| `ProtoMessages` | the schema, the post-processors | constant operators |
| `Marshal` | `proto_conversion.cc` and the mutator in front of it | message, field, items still to write, offset, the values on the wire; one action per post-processor, per field kind, per write |
| `SeedCommands` | bytes and `to_proto` of every command class | constant operators |
| `SeedCorpus` | `TEST_CASES` of `main.py` | constant operators |
| `Seeds` | both files of a seed, composing `Marshal`, `SeedCorpus` and `CommandHeaders` | `RunCommands`, `ConvertCommand`, `NoProtoSeed`, `ProtoSeed`, `ReplayMessage`, `NextSeed` and the steps of `Marshal` |
| `SeedFiles` | `_create_variant`, `_run_commands`, `_generate_seeds` over many runs | `files`, `defined`, `recreate`, `pc`, `task`, `out`; one action per file operation, `CompareRaises` and `Kill` |
| `Campaign` | the scripts, from the call of `run-fuzzer.sh` to its return, and the seed scripts between the calls | owners, corpora, profiles, reports, row; one action per stage, `StageFails`, `FindCrash` |

`MC*` modules give the constants values; `*Proofs` modules hold the theorems.
Definitions marked "Variant" are plausible mistakes in the code; each
property is violated when the variant listed for it in `PROJECT.json` replaces
the definition it stands next to.

Abstractions worth knowing:

* In `SessionAuth` and `Tpm` a digest is the record of what it digests (hash
  functions are taken as injective) and a nonce is the value of a clock, so
  every nonceTPM is new. Commands keep what the layer reads: code, tag, handles,
  entries and the StartAuthSession parameters. How they lie in memory is
  `PatchLayout`'s subject, and how they get there `Marshal`'s.
* `PatchLayout` works on real bytes. The local offsets of the C++ function are
  the record `field`; `memmove` is a simultaneous assignment.
* `Marshal` keeps, for each value written, its offset, its width and what it
  means; payloads are their lengths.
* `SeedCommands` works on real bytes where the code fixes them; digests, keys
  and blobs are strings of bytes of the right length. Compared with the
  repository's `seeds/` directory, `CommandBytes` gives the committed file of
  each of the 126 byte seeds up to those payloads, and `NoProtoSeed` is taken
  for exactly the sequences without a file in `seeds/proto`.
* `SeedFiles` keeps of a file its directory, variant, minute and content, where a
  content is what one command sequence serializes to. Two different sequences
  may serialize to the same bytes. Variants are numbers, so that one may be a
  prefix of another.
* `Campaign` keeps of a file which run it is of. A container is the set of
  corpus entries it holds, gone when it is; the user in it is not root
  (`Dockerfile`), so it cannot write a directory that the daemon made.
* `TpmLifecycle` models the platform functions as the wrapper uses them:
  `_plat__NVEnable` does nothing on an open NV, `_plat__NVDisable` deletes the
  file as both callers ask.

## 3. Runs

| run | states | shows |
|---|---|---|
| `proto_fuzzer` | 1,325,665 | two inputs of up to four commands over two HMAC sessions, a policy session, two object slots and a one-entry Name table: the layer stays in step with the TPM, what it fills in is accepted, and it implements `SessionPromise` |
| `patch_layout` | 717 | nonces of 0 to 64 bytes and HMACs of 0 to 64 around the sizes the layer writes, no, short and long parameters, several entries, untracked and plain commands: what is written fits the room there is (`PatchFitsRoom`), and the result parses again |
| `byte_parser` | 406 | up to three headers with sizes below, at and past every limit, and all truncations: the target implements `ByteTarget`, and every input is answered |
| `tpm_lifecycle` | 1,296 | two processes in directories of their own, with crashes and failed manufacture |
| `marshal` | 4,815 | two hundred messages over all fifteen commands with unset, limiting and overflowing fields |
| `seeds` | 20,510 | every sequence of the seed generator through both targets |
| `seed_files` | 548,080 | any number of generator runs within two minutes of clock time, over two variants whose names share a prefix, changing and disappearing definitions, with and without `-recreate`, test scripts that fail, kills |
| `campaign` | 928,045 | two campaigns with every combination of options, the seed scripts before, between and after them, two entries to find, a failure at every stage |
| `multi_session`, `untracked_command`, `shared_directory`, `create_seed` | - | statements of the repository that the code does not keep (section 5) |

Why the bounds are enough:

* Two iterations show what leaks from one input into the next; four commands
  are a StartAuthSession, a command that desynchronises or creates, and two that
  use the result; one Name entry makes the table overflow and its handles be
  reused with two slots. The theorems of section 4 remove all of these bounds.
* The sizes of `patch_layout` are those around which the code changes: 16 and
  32, where `delta` changes its sign, and parameters shorter and longer
  than the shift, which makes `memmove` overlap. Again proved for all inputs.
* The limits of `marshal` are those of the code: the widths of the TPM2B
  buffers, 2^16 for the casts, and nine sessions of two times 65535 bytes, more
  than `kMaxBuffer`. The theorems hold for every message of the schema and every
  buffer that has room for a header.
* In `seed_files` the clock may stand still between two runs or advance, which
  is all that names distinguish; one variant changes between two sequences and
  both come and go, so a stale file, an orphan, a torn file and two files of one
  seed all occur. A run's steps on one seed do not depend on other seeds, which
  the proof shows for any number of variants and minutes.
* In `campaign` a second run is what finds reports, profiles and directories of
  an earlier one; a third would find nothing else, as each file remembers only
  the last run that wrote it.
* Each mutant named in `PROJECT.json` is found inside these bounds.

`CHECK_DEADLOCK FALSE` is set for the runs of `ProtoFuzzer` only: after
`MaxIterations` inputs its bound stops it. No other model stops.

**Fairness and liveness.** Inside a process the code has no waiting: a target or
script that is not killed takes its next step. That is weak fairness of the
steps a program takes by itself, and of nothing else:

* `ByteParser`: `WF_vars(Target)`. `EveryInputAnswered` says that the loop over
  an input's size fields ends, whatever they say. That new inputs come is not
  assumed. `LoopEnds` is the bound behind it, and proved.
* `SeedFiles`: `WF_vars(Generate)`. `RunEnds` says that a run that is not cut
  looks at each seed once and ends. Starting and killing are not fair.
* `Campaign`: `WF_vars(Step)`. `RunEnds` holds only for calls with a limit:
  `-maxRuns`, a positive `-maxTime`, or, in a container and without `-maxTime`,
  the default of `docker-compose.yml`. `-maxTime 0` turns that default off and
  limits nothing, and `-local` without options has no limit at all: such a
  campaign may fuzz forever, and no property says otherwise. A failure is never
  assumed to happen, nor the discovery of an entry.

The remaining modules state no fairness: their loops run over a finite message,
a finite list of commands or an area whose length only shrinks. A TPM that never
answers is outside the code.

## 4. Proofs

TLAPS proves, for every value of the constants:

* `ProtoFuzzerProofs`: every invariant of the run `proto_fuzzer`. The properties
  are not inductive, because between `SendCommand` and `ProcessResponse` the
  TPM is ahead of the layer. `IInv` therefore says what the pending response
  will do: `AnswerInv` relates it to the command and to the TPM's state,
  `SyncInv` compares the TPM's nonce with the nonce the layer *will* hold
  (`NonceAfter`), and `NamesInv` and `BornInv` excuse the one object that the
  pending response announces (`Unseen`). `NamesAgree` is the lemma behind
  `PatchedHmacAccepted`: the Names that the layer digests are the TPM's.

  The same module proves that `ProtoFuzzer` implements `SessionPromise`
  (`Refinement`). The mapping keeps the TPM and the buffer, takes for `known` the
  handles of the Name table, and for `lost` that one of the commands of
  `LosesNonce` has succeeded since it was armed (`desynced`). Three things need an
  argument. The layer arms for exactly the keyless
  sessions (`ArmsWhereKeyless`, from `PromiseInv`: an armed layer has a digest
  size, and a StartAuthSession that succeeded without a key had no salt). It fills
  in exactly the commands that the promise names (`PatchableAgrees`), and with the
  HMAC the TPM expects (`PatchedIsFilledIn`). And the TPM of the instance is the
  same TPM (`SameTpm`), whose operators are copies for the prover.
* `PatchLayoutProofs`: for every command, handle count table and HMAC the
  rewrite stays inside the buffer and inside the command it sends, 64 bytes
  suffice (`delta` is at most 48, the sizes written minus the least an entry can
  hold; `PatchAlwaysFits`), the padding loop is dead, and
  the result parses again. `IInv` gives the ranges; `Contents`
  describes the buffer after each memory operation as a function of the command
  that came in (parameters moved, entry written, head patched), and the last one
  implies `PatchedReparses`.
* `ByteParserProofs`: `ByteParser` implements `ByteTarget` (`Refinement`): for
  every set of inputs, what the loop with its offset sends is what the
  specification without a loop asks for. The inductive part is `CutIsForced`:
  every way to split the input has a cut at the current offset. So an input is
  rejected only if there is no way to split it, and the commands sent are those
  of the only way.
* `TpmLifecycleProofs`: for any number of processes, readiness and a clean end
  of each input need no assumption on the others; `StaleOnlyAfterCrash` assumes
  `PrivateDirectories`, and `OthersAreUntouched` is the non-interference lemma.
* `SeedFilesProofs`: every invariant of the run `seed_files`. None of them is
  inductive, for they say nothing of the middle of a replacement. `StageOK` gives
  the files of the seed at hand at each line of `_create_variant` in terms of
  those it had when the run began; `OthersStay` is the common part of every step
  (the other seeds keep their files), and `OrderlyUnlessCut` carries "one intact
  file each" from run to run. Two lemmas, `StepAtTask` and `StepReturns`, reduce
  each action to what it does to one seed.
* `CampaignProofs`: every invariant of the run `campaign`, for any number of
  campaigns. That nothing is lost in order rests on `OwnersOK`: whatever makes
  the corpus directories makes those of the coverage too (`SameMounts`), so a
  container that cannot merge cannot write its profile either, and fails. The
  combining container mounts more of `coverage` than of `corpus`, but only when a
  profile exists, and then an earlier campaign has made those directories.
* `MarshalProofs`: every invariant of the run `marshal`, for every message of the
  schema and every size of the buffer. They say nothing of a command that is half
  written, and sizes are patched into the buffer after what they measure, so none
  but `SkippedForSizeOnly` is inductive. `IInv` therefore says where the marshaller
  stands: it is at some place in the list of values of the field it writes
  (`Progress`), each value before that place is in the buffer at the sum of the
  widths before it (`Written`), and the rest is still to be written.
  `AreaLayout` chains the entries of the authorization area: each begins where the
  one before it ends, and the last ends at the offset until
  `PatchAuthorizationSize` makes the size say so. `HeaderLayout`, `PolicyLayout`
  and `StartLayout` do the same for the values that are read back later. The
  message itself is `Normal` for each post-processor that has run; that the two of
  `Load` do not undo each other (`Normalizes` of one keeps what is normal for the
  other) gives the fixpoint.
* `SeedsProofs`: for any set of sequences of commands that the classes can pack
  (`SeedAssumption`), `ByteSeedParses`, `SeedTypeOK` and, for the messages of the
  seeds, what `MarshalProofs` says of every message (`SeedsReadBack`).
  `SeedInv` says what the files hold: the bytes of the sequence, and the messages
  of its first commands. That its marshaller conjunct survives `ReplayMessage` is
  `NewMessageInv` of `MarshalProofs`, which `Mutate` uses as well. The bytes of a
  sequence are joined by `FlattenSeq`, which is a function chosen by a recursive
  equation. `FlatExists` and `FlatUnique` say that there is one and only one, and
  `Flattened` that the bytes of one more command come at the end; so the bytes of
  the first commands are where they are in the whole seed (`JoinedIsPrefix`), and
  each header says where its command ends (`CommandsCut`).

  `HmacSeedsArePatched` concludes `HmacSeedsReachPatch` from a hypothesis on
  `to_proto`: a message made of a command in the HMAC session keeps that session
  and no other, and follows a message that arms the layer (`IsHmacSeed`). The
  proof is the way from there: no post-processor replaces the session
  (`SessionsStay`, `SessionKeptStep`), and once marshalled it is the first entry
  of the area and fills it (`ReachesPatch`). The hypothesis is not a theorem: it
  is true of the corpus because of what the parsers in `to_proto` compute of its
  bytes, and the run checks the conclusion there.

Assumptions are those stated in the modules: handle classes are disjoint (the
top byte tells them apart), requests have the shape that `Marshal` gives
them (`ReadsBack` proves that shape of the marshaller's output), inputs are
strings of bytes, what a sequence serializes to is never the torn content of
an interrupted write, and the commands of a seed can be packed (`IsPackable`: a
known code, a tag, bytes for parameters, a size below 2^32, and a message with
values that the fields of the schema hold). TLC evaluates each of them on the
constants of its runs, the last one on every sequence of `main.py`.

Induction. No theorem with an operator for a parameter can be used, so the
proofs about sequences of any length go by the least counterexample:
`LeastNumber` of `MarshalProofs` follows from `WFMin` and
`NatLessThanWellFounded` of the library. That reaches what is joined command by
command. It does not reach `RECURSIVE` operators, of which there are none in
these modules.

Only model-checked:

* `OtherProtoSeedsAreByteSeeds`: that the message of a seed has the bytes of the
  seed. It is about the values that the parsers of `to_proto` cut out of one
  corpus, byte by byte (`Number`, `Spell` and the areas they skip). It is false of
  Create (run `create_seed`), and of other commands it holds for the values that
  the corpus has, so that a theorem for every sequence would need them all as
  hypotheses. The run covers the corpus.
* `IsHmacSeed` has no theorem, for the same reason: what the run checks of the
  corpus is `HmacSeedsReachPatch`, which it implies.
* The liveness properties `EveryInputAnswered` and `RunEnds` (of `SeedFiles` and
  of `Campaign`): liveness and `ENABLED` are out of TLAPS's reach. The bound that
  the first one rests on, `LoopEnds`, is proved.

## 5. Where the code and its comments disagree

| run | statement | what happens |
|---|---|---|
| `multi_session` | `session_auth.cc:507-509`: the first entry of a command with several is filled in | the check at line 530 wants it to fill the whole area |
| `untracked_command` | `command_attributes.h:12-13`: the table covers the emitted commands | PCR_Event and three others are missing; after one of them the nonce is stale |
| `shared_directory` | `tpm_wrapper.c:101`: a fresh start each run | with `-fork` the processes share `NVChip` |
| `create_seed` | `tpm2_commands.py:64`: `to_proto` represents the command | `TPMCreate.to_proto` drops the authorization area; and where a key's scheme has a hash, `_proto_public` takes it for the size of `unique` |

Others were seen on the way and are not runs of their own:

* `session_auth.cc:614` refreshes the nonce "for the next command's HMAC", but
  stores the nonce of whichever session authorized last. `SyncUnlessDesynced`
  names this command among those that cost the layer its nonce (`LosesNonce`).
* `session_auth.h:17-19` says that other sessions "pass through unmodified". The
  layer compares handles, not sessions: after the armed session has ended, a
  bound session that takes its handle over has its commands rewritten.
* `session_auth.cc:411-413` says nonce and HMAC "always grow"; a seed with a
  longer one makes `delta` negative, which the rewrite handles
  (`PatchedReparses` covers it).
* A crashed process leaves its `NVChip`, so that the next one starts on it
  (`StaleOnlyAfterCrash` says only then).
* `run-fuzzer.sh:5-6` promises that the required directories exist and are not
  root's. It looks at the three top directories only, and `[ -d corpus ] || mkdir
  A && mkdir B` makes `A` only if `corpus` is missing and `B` always. After
  `test-seed.sh -local`, which makes `corpus` and `coverage` bare, the
  directories of the byte fuzzer are made by the daemon, as root: the campaign
  cannot write its profile and what it found is lost. After `generate-seeds.sh`,
  or `test-seed.sh` in a container, on a fresh checkout a top directory is root's
  and `run-fuzzer.sh` refuses.
  `HostOwnsDirectories` and `LossOnlyOnFailure` state what does hold.
* `run-fuzzer.sh:195-198` tracks coverage however the campaign ended. The row has
  the commit of today and the numbers of the last report there is;
  `CoverageIsOfThisRun` therefore speaks of campaigns that went well. With
  `-local` no report is written at all, and a row is of the last container's.
* `main.py:42-44`: the default of `--test-script` names a file that is not in the
  repository, so `-recreate` raises at the first byte seed that differs and leaves
  two files for it. `generate-seeds.sh` passes the right one, but ends in
  `exit 0`, which hides every other failure.
* `tools/seed-generation/README.md:54` says that `-recreate` aligns the seeds.
  It does for a seed with at most one file of an earlier minute
  (`RecreateAligns`). A file of the same minute is written over and then removed:
  the seed is gone until the next run. Of several files only the one that
  `os.listdir` names first is looked at.

## 6. Not modelled

* The bytes of a response (`PopulateNameFromResponse` and the nonce scan of
  `SessionAuthProcessResponse`): their result is modelled, not their parsing.
* In `Campaign`: colours, usage texts, the archive that `track-coverage` makes,
  and a merge that is killed half way (it counts as failed without effect).
  `-bin` with a name that is neither fuzzer's makes Docker fail and nothing else.
* `tester.cc` beyond its use of the wrapper: it parses options and prints.
* `example/wrapper.cc` is an empty template; the build, container and CI files,
  generated classes and coverage history have no behaviour of their own.
* The TPM itself is external; `Tpm` has the sessions, objects and authorization
  the layer depends on and lets every command also fail.

## 7. Plan

Done, in this order: the session layer with its TPM and driver; the in-place
rewrite; the byte parser; the wrapper; schema, post-processors and conversion;
the seed commands and the corpus; the seed files; the campaign; the abstract byte
target and its refinement; the abstract session layer and its refinement, which
excludes no request, because `lost` says when a command takes the nonce past the
layer. Proofs for all of them.

What would come next:

1. *From `Marshal` to `ProtoFuzzer`*: that what `Marshal` writes, read as a
   request, satisfies the assumption `ProtoFuzzer` makes on requests.
2. *Response layout*: the bytes `SessionAuthProcessResponse` parses, with
   truncated responses and lying sizes, as `PatchLayout` does for commands.
