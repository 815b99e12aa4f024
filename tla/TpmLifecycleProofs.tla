-------------------------- MODULE TpmLifecycleProofs --------------------------
(***************************************************************************)
(* Proofs about TpmLifecycle, for any number of processes.                 *)
(*                                                                         *)
(* What a process does to its own TPM needs no assumption on the others.   *)
(* That an input starts on fresh NV does: no two processes may share a     *)
(* working directory.                                                      *)
(***************************************************************************)
EXTENDS TpmLifecycle, TLAPS

\* What the place of a process says of its TPM.
PowerOK(w) ==
  /\ InCommands(w) => power[w] /\ open[w] /\ avail[w]
  /\ ~ InCommands(w) => ~ power[w] /\ ~ avail[w]
  /\ pc[w] = "idle" => ~ open[w]
  /\ pc[w] = "manufacture" => open[w]

IInv == TypeOK /\ \A w \in Workers : PowerOK(w)

\* What the place of a process says of the NV, unless it has just crashed.
NVOK(w) ==
  outcome[w] = "clean" =>
    /\ pc[w] = "idle" => file[Dir[w]] = "absent"
    /\ pc[w] \in {"manufacture", "powerOn", "startup"} => nv[w] # "used"
    /\ pc[w] = "powerOn" => open[w] \/ file[Dir[w]] = "absent"

FreshInv == IInv /\ \A w \in Workers : NVOK(w)

-----------------------------------------------------------------------------

\* A step of one process changes nothing in the memory of another one, and, in
\* a directory of its own, nothing in the file of another one.
LEMMA OthersAreUntouched ==
  ASSUME TypeOK, NEW w \in Workers, Step(w) \/ Crash(w),
         NEW v \in Workers, v # w
  PROVE  /\ pc'[v] = pc[v] /\ nv'[v] = nv[v] /\ outcome'[v] = outcome[v]
         /\ open'[v] = open[v] /\ power'[v] = power[v] /\ avail'[v] = avail[v]
         /\ Dir[v] # Dir[w] => file'[Dir[v]] = file[Dir[v]]
<1> USE DirAssumption DEF TypeOK, NVEnable, NVDisable, RunCommand, NvWrite, At
<1>1. CASE Enable(w)
  BY <1>1 DEF Enable
<1>2. CASE Manufacture(w)
  BY <1>2 DEF Manufacture
<1>3. CASE ManufactureFails(w)
  BY <1>3 DEF ManufactureFails
<1>4. CASE TPMStartup(w)
  BY <1>4 DEF TPMStartup
<1>5. CASE SendTPM2StartupCommand(w)
  BY <1>5 DEF SendTPM2StartupCommand
<1>6. CASE TPMSendCommand(w)
  BY <1>6 DEF TPMSendCommand
<1>7. CASE SendTPM2ShutdownCommand(w)
  BY <1>7 DEF SendTPM2ShutdownCommand
<1>8. CASE TPMShutdown(w)
  BY <1>8 DEF TPMShutdown
<1>9. CASE DeleteNV(w)
  BY <1>9 DEF DeleteNV
<1>10. CASE Crash(w)
  BY <1>10 DEF Crash
<1> QED
  BY <1>1, <1>2, <1>3, <1>4, <1>5, <1>6, <1>7, <1>8, <1>9, <1>10 DEF Step

\* Every step keeps the types.
LEMMA StepKeepsTypes ==
  ASSUME TypeOK, NEW w \in Workers, Step(w) \/ Crash(w)
  PROVE  TypeOK'
<1> USE DirAssumption
    DEF TypeOK, NVEnable, NVDisable, RunCommand, NvWrite, At, Contents
<1>1. CASE Enable(w)
  BY <1>1 DEF Enable
<1>2. CASE Manufacture(w)
  BY <1>2 DEF Manufacture
<1>3. CASE ManufactureFails(w)
  BY <1>3 DEF ManufactureFails
<1>4. CASE TPMStartup(w)
  BY <1>4 DEF TPMStartup
<1>5. CASE SendTPM2StartupCommand(w)
  BY <1>5 DEF SendTPM2StartupCommand
<1>6. CASE TPMSendCommand(w)
  BY <1>6 DEF TPMSendCommand
<1>7. CASE SendTPM2ShutdownCommand(w)
  BY <1>7 DEF SendTPM2ShutdownCommand
<1>8. CASE TPMShutdown(w)
  BY <1>8 DEF TPMShutdown
<1>9. CASE DeleteNV(w)
  BY <1>9 DEF DeleteNV
<1>10. CASE Crash(w)
  BY <1>10 DEF Crash
<1> QED
  BY <1>1, <1>2, <1>3, <1>4, <1>5, <1>6, <1>7, <1>8, <1>9, <1>10 DEF Step

\* The process that steps keeps its own part of the invariant.
LEMMA StepKeepsPowerOK ==
  ASSUME TypeOK, NEW w \in Workers, PowerOK(w), Step(w) \/ Crash(w)
  PROVE  PowerOK(w)'
<1> USE DirAssumption
    DEF TypeOK, NVEnable, NVDisable, At, PowerOK, InCommands
<1>1. CASE Enable(w)
  BY <1>1 DEF Enable
<1>2. CASE Manufacture(w)
  BY <1>2 DEF Manufacture
<1>3. CASE ManufactureFails(w)
  BY <1>3 DEF ManufactureFails
<1>4. CASE TPMStartup(w)
  BY <1>4 DEF TPMStartup
<1>5. CASE SendTPM2StartupCommand(w)
  BY <1>5 DEF SendTPM2StartupCommand
<1>6. CASE TPMSendCommand(w)
  BY <1>6 DEF TPMSendCommand
<1>7. CASE SendTPM2ShutdownCommand(w)
  BY <1>7 DEF SendTPM2ShutdownCommand
<1>8. CASE TPMShutdown(w)
  BY <1>8 DEF TPMShutdown
<1>9. CASE DeleteNV(w)
  BY <1>9 DEF DeleteNV
<1>10. CASE Crash(w)
  BY <1>10 DEF Crash
<1> QED
  BY <1>1, <1>2, <1>3, <1>4, <1>5, <1>6, <1>7, <1>8, <1>9, <1>10 DEF Step

\* So does its part of FreshInv; the file is its own for the step.
LEMMA StepKeepsNVOK ==
  ASSUME TypeOK, NEW w \in Workers, PowerOK(w), NVOK(w), Step(w) \/ Crash(w)
  PROVE  NVOK(w)'
<1> USE DirAssumption
    DEF TypeOK, NVEnable, NVDisable, NvWrite, At, PowerOK, InCommands, NVOK
<1>1. CASE Enable(w)
  BY <1>1 DEF Enable
<1>2. CASE Manufacture(w)
  BY <1>2 DEF Manufacture
<1>3. CASE ManufactureFails(w)
  BY <1>3 DEF ManufactureFails
<1>4. CASE TPMStartup(w)
  BY <1>4 DEF TPMStartup
<1>5. CASE SendTPM2StartupCommand(w)
  BY <1>5 DEF SendTPM2StartupCommand
<1>6. CASE TPMSendCommand(w)
  BY <1>6 DEF TPMSendCommand
<1>7. CASE SendTPM2ShutdownCommand(w)
  BY <1>7 DEF SendTPM2ShutdownCommand
<1>8. CASE TPMShutdown(w)
  BY <1>8 DEF TPMShutdown
<1>9. CASE DeleteNV(w)
  BY <1>9 DEF DeleteNV
<1>10. CASE Crash(w)
  BY <1>10 DEF Crash
<1> QED
  BY <1>1, <1>2, <1>3, <1>4, <1>5, <1>6, <1>7, <1>8, <1>9, <1>10 DEF Step

\* The invariant holds of every behaviour.
THEOREM Invariance == Spec => []IInv
<1>1. Init => IInv
  BY DirAssumption DEF Init, IInv, TypeOK, PowerOK, InCommands, Contents
<1>2. IInv /\ [Next]_vars => IInv'
  <2> SUFFICES ASSUME IInv, [Next]_vars
               PROVE  IInv'
    OBVIOUS
  <2>1. CASE UNCHANGED vars
    BY <2>1 DEF vars, IInv, TypeOK, PowerOK, InCommands
  <2>2. CASE Next
    <3>1. PICK w \in Workers : Step(w) \/ Crash(w)
      BY <2>2 DEF Next
    <3>2. TypeOK'
      BY <3>1, StepKeepsTypes DEF IInv
    <3>3. PowerOK(w)'
      BY <3>1, StepKeepsPowerOK DEF IInv
    <3>4. ASSUME NEW v \in Workers, v # w
          PROVE  PowerOK(v)'
      BY <3>1, <3>4, OthersAreUntouched DEF IInv, PowerOK, InCommands
    <3> QED
      BY <3>2, <3>3, <3>4 DEF IInv
  <2> QED
    BY <2>1, <2>2
<1> QED
  BY <1>1, <1>2, PTL DEF Spec

\* In private directories, so does FreshInv.
THEOREM FreshInvariance ==
  ASSUME PrivateDirectories
  PROVE  Spec => []FreshInv
<1>1. Init => FreshInv
  BY DirAssumption
     DEF Init, FreshInv, IInv, TypeOK, PowerOK, InCommands, Contents, NVOK
<1>2. FreshInv /\ IInv' /\ [Next]_vars => FreshInv'
  <2> SUFFICES ASSUME FreshInv, IInv', [Next]_vars
               PROVE  FreshInv'
    OBVIOUS
  <2>1. CASE UNCHANGED vars
    BY <2>1 DEF vars, FreshInv, NVOK
  <2>2. CASE Next
    <3>1. PICK w \in Workers : Step(w) \/ Crash(w)
      BY <2>2 DEF Next
    <3>2. NVOK(w)'
      BY <3>1, StepKeepsNVOK DEF FreshInv, IInv
    <3>3. ASSUME NEW v \in Workers, v # w
          PROVE  NVOK(v)'
      <4>1. Dir[v] # Dir[w]
        BY <3>3, PrivateDirectories DEF PrivateDirectories
      <4> QED
        BY <3>1, <3>3, <4>1, OthersAreUntouched DEF FreshInv, IInv, NVOK
    <3> QED
      BY <3>2, <3>3 DEF FreshInv
  <2> QED
    BY <2>1, <2>2
<1> QED
  BY <1>1, <1>2, Invariance, PTL DEF Spec

-----------------------------------------------------------------------------

\* Every variable keeps its type.
THEOREM TypeCorrectness == Spec => []TypeOK
<1>1. IInv => TypeOK
  BY DEF IInv
<1> QED
  BY <1>1, Invariance, PTL

\* A command reaches a TPM that is powered, with its NV open and available,
\* whether or not its manufacturing failed (tpm_wrapper.c:35-56).
THEOREM AlwaysReady == Spec => []ReadyWhenCommanded
<1>1. IInv => ReadyWhenCommanded
  BY DEF IInv, PowerOK, ReadyWhenCommanded
<1> QED
  BY <1>1, Invariance, PTL

\* Between two inputs the TPM is off and its NV is closed
\* (tpm_wrapper.c:92-104).
THEOREM AlwaysOffBetweenInputs == Spec => []OffBetweenInputs
<1>1. IInv => OffBetweenInputs
  BY DEF IInv, PowerOK, OffBetweenInputs, InCommands
<1> QED
  BY <1>1, Invariance, PTL

\* In a directory of its own, a process runs an input on NV of an earlier one
\* only after a crash (tpm_wrapper.c:100-103).
THEOREM FreshUnlessCrashed ==
  ASSUME PrivateDirectories
  PROVE  Spec => []StaleOnlyAfterCrash
<1>1. FreshInv => StaleOnlyAfterCrash
  BY DEF FreshInv, NVOK, StaleOnlyAfterCrash
<1> QED
  BY <1>1, FreshInvariance, PTL
==============================================================================
