----------------------------- MODULE TpmLifecycle -----------------------------
(***************************************************************************)
(* What the drivers (src/proto-fuzzer.cc, src/fuzzer.cc, src/tester.cc) do *)
(* to the simulated TPM around the commands of one input, through the      *)
(* wrapper src/harness/tpm_wrapper.c: manufacture it if it has no NV,      *)
(* power it on, start it up, send the commands, shut it down and delete    *)
(* its NV. The NV outlives the process in the file NVChip of its working   *)
(* directory.                                                              *)
(*                                                                         *)
(* Several processes may run at once (-fork=N, or a tester next to a       *)
(* fuzzer); one that crashes inside the TPM is started again.              *)
(*                                                                         *)
(* The platform layer (_plat__ functions) and TPM_Manufacture are          *)
(* external, modelled as the wrapper uses them.                            *)
(***************************************************************************)

CONSTANTS
  Workers,       \* the processes
  Directories,
  Dir            \* the working directory of each process

ASSUME DirAssumption == Dir \in [Workers -> Directories]

VARIABLES
  file,    \* what NVChip holds, per directory
  pc,      \* where a process is
  nv,      \* its copy of the NV in memory
  open,    \* whether it holds NVChip open
  power,   \* whether its TPM is powered on
  avail,   \* whether its TPM may write to the NV
  outcome  \* how its last input ended

vars == <<file, pc, nv, open, power, avail, outcome>>

\* Contents of the NV: none, cleared, manufactured, and changed by commands.
Contents == {"absent", "blank", "fresh", "used"}

Init ==
  /\ file = [d \in Directories |-> "absent"]
  /\ pc = [w \in Workers |-> "idle"]
  /\ nv = [w \in Workers |-> "blank"]
  /\ open = [w \in Workers |-> FALSE]
  /\ power = [w \in Workers |-> FALSE]
  /\ avail = [w \in Workers |-> FALSE]
  /\ outcome = [w \in Workers |-> "clean"]

-----------------------------------------------------------------------------
(* The platform layer (external).                                          *)

\* Opens NVChip and reads it; without one, the NV starts out cleared. Nothing
\* happens when it is open already.
NVEnable(w) ==
  /\ open' = [open EXCEPT ![w] = TRUE]
  /\ nv' = [nv EXCEPT ![w] = IF open[w] THEN nv[w]
                            ELSE IF file[Dir[w]] = "absent" THEN "blank"
                            ELSE file[Dir[w]]]

NVNeedsManufacture(w) == nv[w] = "blank"

NvWrite(w, c) ==
  /\ nv' = [nv EXCEPT ![w] = c]
  /\ file' = [file EXCEPT ![Dir[w]] = c]

\* Closes NVChip and, as both callers ask for it, deletes it.
NVDisable(w) ==
  /\ open' = [open EXCEPT ![w] = FALSE]
  /\ file' = [file EXCEPT ![Dir[w]] = "absent"]

\* A command may leave the NV alone, or change it and commit the change.
RunCommand(w) ==
  \/ UNCHANGED <<nv, file>>
  \/ NvWrite(w, "used")

-----------------------------------------------------------------------------
(* One input.                                                              *)

At(w, from, to) == pc[w] = from /\ pc' = [pc EXCEPT ![w] = to]

\* TPMManufactureIfNeeded, up to the question whether the NV needs it.
Enable(w) ==
  /\ pc[w] = "idle"
  /\ NVEnable(w)
  /\ pc' = [pc EXCEPT ![w] =
              IF NVNeedsManufacture(w)' THEN "manufacture" ELSE "powerOn"]
  /\ UNCHANGED <<file, power, avail, outcome>>

Manufacture(w) ==
  /\ At(w, "manufacture", "powerOn")
  /\ NvWrite(w, "fresh")
  /\ UNCHANGED <<open, power, avail, outcome>>

\* Variant: the NV in memory goes with the file.
ManufactureFailsDropsNV(w) ==
  /\ At(w, "manufacture", "powerOn")
  /\ NVDisable(w)
  /\ nv' = [nv EXCEPT ![w] = "absent"]
  /\ UNCHANGED <<power, avail, outcome>>

\* TPMManufactureIfNeeded reports the failure to nobody: the driver goes on.
ManufactureFails(w) ==
  /\ At(w, "manufacture", "powerOn")
  /\ NVDisable(w)
  /\ UNCHANGED <<nv, power, avail, outcome>>

\* Variant: the NV is taken to be open.
TPMStartupTrustsNV(w) ==
  /\ At(w, "powerOn", "startup")
  /\ power' = [power EXCEPT ![w] = TRUE]
  /\ avail' = [avail EXCEPT ![w] = TRUE]
  /\ UNCHANGED <<nv, open, file, outcome>>

\* Signal_PowerOn, Signal_Reset, NVEnable, SetNvAvail.
TPMStartup(w) ==
  /\ At(w, "powerOn", "startup")
  /\ power' = [power EXCEPT ![w] = TRUE]
  /\ NVEnable(w)
  /\ avail' = [avail EXCEPT ![w] = TRUE]
  /\ UNCHANGED <<file, outcome>>

SendTPM2StartupCommand(w) ==
  /\ At(w, "startup", "commands")
  /\ RunCommand(w)
  /\ UNCHANGED <<open, power, avail, outcome>>

\* One command of the input.
TPMSendCommand(w) ==
  /\ At(w, "commands", "commands")
  /\ RunCommand(w)
  /\ UNCHANGED <<open, power, avail, outcome>>

SendTPM2ShutdownCommand(w) ==
  /\ At(w, "commands", "shutdown")
  /\ RunCommand(w)
  /\ UNCHANGED <<open, power, avail, outcome>>

\* Variant: the TPM is not powered off.
TPMShutdownLeavesPower(w) ==
  /\ At(w, "shutdown", "delete")
  /\ file' = [file EXCEPT ![Dir[w]] = nv[w]]
  /\ avail' = [avail EXCEPT ![w] = FALSE]
  /\ UNCHANGED <<nv, open, power, outcome>>

\* _TPM_Hash_End, NvCommit, ClearNvAvail, Signal_PowerOff.
TPMShutdown(w) ==
  /\ At(w, "shutdown", "delete")
  /\ file' = [file EXCEPT ![Dir[w]] = nv[w]]
  /\ avail' = [avail EXCEPT ![w] = FALSE]
  /\ power' = [power EXCEPT ![w] = FALSE]
  /\ UNCHANGED <<nv, open, outcome>>

\* Variant: the commit of TPMShutdown comes after the deletion.
DeleteNVThenCommit(w) ==
  /\ At(w, "delete", "idle")
  /\ open' = [open EXCEPT ![w] = FALSE]
  /\ file' = [file EXCEPT ![Dir[w]] = nv[w]]
  /\ outcome' = [outcome EXCEPT ![w] = "clean"]
  /\ UNCHANGED <<nv, power, avail>>

\* The last call of TPMShutdown: the NV is deleted for a fresh start.
DeleteNV(w) ==
  /\ At(w, "delete", "idle")
  /\ NVDisable(w)
  /\ outcome' = [outcome EXCEPT ![w] = "clean"]
  /\ UNCHANGED <<nv, power, avail>>

\* A sanitizer or libFuzzer's time limit ends the process while the TPM runs a
\* command; the next process starts with nothing in memory. NVChip stays.
Crash(w) ==
  /\ pc[w] \in {"startup", "commands", "shutdown"}
  /\ pc' = [pc EXCEPT ![w] = "idle"]
  /\ nv' = [nv EXCEPT ![w] = "blank"]
  /\ open' = [open EXCEPT ![w] = FALSE]
  /\ power' = [power EXCEPT ![w] = FALSE]
  /\ avail' = [avail EXCEPT ![w] = FALSE]
  /\ outcome' = [outcome EXCEPT ![w] = "crash"]
  /\ UNCHANGED file

Step(w) ==
  \/ Enable(w)
  \/ Manufacture(w)
  \/ ManufactureFails(w)
  \/ TPMStartup(w)
  \/ SendTPM2StartupCommand(w)
  \/ TPMSendCommand(w)
  \/ SendTPM2ShutdownCommand(w)
  \/ TPMShutdown(w)
  \/ DeleteNV(w)

Next == \E w \in Workers : Step(w) \/ Crash(w)

Spec == Init /\ [][Next]_vars

\* No process crashes.
CrashFreeSpec == Init /\ [][\E w \in Workers : Step(w)]_vars

-----------------------------------------------------------------------------
(* Properties.                                                             *)

\* No two processes share a working directory.
PrivateDirectories == \A v, w \in Workers : Dir[v] = Dir[w] => v = w

TypeOK ==
  /\ file \in [Directories -> Contents]
  /\ pc \in [Workers -> {"idle", "manufacture", "powerOn", "startup",
                         "commands", "shutdown", "delete"}]
  /\ nv \in [Workers -> Contents \ {"absent"}]
  /\ open \in [Workers -> BOOLEAN]
  /\ power \in [Workers -> BOOLEAN]
  /\ avail \in [Workers -> BOOLEAN]
  /\ outcome \in [Workers -> {"clean", "crash"}]

InCommands(w) == pc[w] \in {"startup", "commands", "shutdown"}

\* A command reaches a TPM that is powered, has its NV open and may write to
\* it, also after a manufacturing that failed and closed the NV
\* (tpm_wrapper.c:40-44, 48-56).
ReadyWhenCommanded ==
  \A w \in Workers : InCommands(w) => power[w] /\ open[w] /\ avail[w]

\* The memory of a process tells nothing of the input before: between two
\* inputs the TPM is off and its NV is closed (tpm_wrapper.c:92-104).
OffBetweenInputs ==
  \A w \in Workers : pc[w] = "idle" => ~ power[w] /\ ~ open[w] /\ ~ avail[w]

\* An input that ran to its end leaves no NVChip, so only an input that follows
\* a crash is run on NV of an earlier one (tpm_wrapper.c:100-103).
StaleOnlyAfterCrash ==
  \A w \in Workers : outcome[w] = "clean" =>
    /\ pc[w] = "idle" => file[Dir[w]] = "absent"
    /\ pc[w] = "startup" => nv[w] # "used"

\* "We want it gone for a fresh start each run." (tpm_wrapper.c:101).
FreshStart == \A w \in Workers : pc[w] = "startup" => nv[w] # "used"
==============================================================================
