----------------------- MODULE UploadUnderPurgeProofs -----------------------
(***************************************************************************)
(* Proofs about UploadUnderPurge, for shards and chunks of any length.     *)
(* What FragmentReceiverProofs shows of an upload alone holds beside the   *)
(* enforcer for as long as the shard is under contract, and a contract     *)
(* that was there before the upload does not come back once it has ended.  *)
(***************************************************************************)
EXTENDS UploadUnderPurge, FragmentReceiverProofs

LEMMA InitPurgeInv == Healthy /\ InitUnderPurge => PurgeInv
  BY InitIInv DEF InitUnderPurge, PurgeInv, Enforcement!Judged

(* The receiver, the network and the uploader do not touch the contract or *)
(* the enforcer.                                                           *)
LEMMA UploadSteps ==
  ASSUME Healthy, ContractAtStart, PurgeInv, HostStep \/ OtherStep
  PROVE  PurgeInv'
<1>1. UNCHANGED <<contracts, purge>>
  BY DEF HostStep, OtherStep, Contracted
<1>2. Next
  BY DEF HostStep, OtherStep, Next
<1>3. Enforcement!Judged'
  BY <1>1 DEF PurgeInv, Enforcement!Judged, purge
<1>4. shard \in contracts' => IInv'
  BY <1>1, <1>2, StepIInv DEF PurgeInv
<1>5. QED
  BY <1>3, <1>4 DEF PurgeInv

(* The file of a shard under contract is there when the host reconnects.   *)
LEMMA NothingToResumeSteps == ASSUME PurgeInv, NothingToResume PROVE PurgeInv'
<1>1. UNCHANGED <<contracts, purge>> /\ pc = "offset" /\ ~linked
  BY DEF NothingToResume
<1>2. ~IInv
  BY <1>1 DEF IInv, FileInv
<1>3. Enforcement!Judged'
  BY <1>1 DEF PurgeInv, Enforcement!Judged, purge
<1>4. QED
  BY <1>1, <1>2, <1>3 DEF PurgeInv

(* The enforcer unlinks nothing that is under contract.                    *)
LEMMA EnforcerKeepsFile ==
  ASSUME PurgeInv, EnforcerStep, shard \in contracts'
  PROVE  shard \in contracts /\ UNCHANGED vars
<1>1. /\ UNCHANGED <<host, size, good, flushed, confirmed, inLedger, wire, uploader>>
      /\ linked \in BOOLEAN => linked' \in BOOLEAN
  BY DEF EnforcerStep
<1>2. shard \in contracts
  BY DEF EnforcerStep, Enforcement!Enforcer, Enforcement!Pass, Enforcement!List,
     Enforcement!EndPass, Enforcement!Wake, Enforcement!Remove, Enforcement!Claim,
     Enforcement!Query, Enforcement!QueryFails, Enforcement!QueryRaises, Enforcement!RemoveFails,
     Enforcement!ContractEnds
<1>3. linked \in BOOLEAN /\ linked' \in BOOLEAN
  BY <1>2 DEF PurgeInv, IInv, TypeOK, EnforcerStep
<1>4. ~Enforcement!Remove(shard)
  BY <1>2 DEF PurgeInv, Enforcement!Judged, Enforcement!Remove, Enforcement!Listed,
     Enforcement!Expired
<1>5. (IF linked' THEN {shard} ELSE {}) = (IF linked THEN {shard} ELSE {})
  BY <1>4 DEF EnforcerStep, Enforcement!Enforcer, Enforcement!Pass, Enforcement!List,
     Enforcement!EndPass, Enforcement!Wake, Enforcement!Claim, Enforcement!Query,
     Enforcement!QueryFails, Enforcement!QueryRaises, Enforcement!RemoveFails, Enforcement!ContractEnds
<1>6. linked' = linked
  BY <1>3, <1>5
<1>7. QED
  BY <1>1, <1>2, <1>6 DEF vars, file

(* It judges by an answer that no contract can come after.                 *)
LEMMA EnforcerJudges == ASSUME PurgeInv, EnforcerStep PROVE Enforcement!Judged'
<1>1. CASE Enforcement!List \/ Enforcement!EndPass \/ Enforcement!Wake
  BY <1>1 DEF Enforcement!List, Enforcement!EndPass, Enforcement!Wake, Enforcement!Judged
<1>2. CASE Enforcement!Query \/ Enforcement!QueryFails \/ Enforcement!QueryRaises
  BY <1>2 DEF Enforcement!Query, Enforcement!QueryFails, Enforcement!QueryRaises,
     Enforcement!Judged
<1>3. CASE \E f \in {shard} : Enforcement!Remove(f) \/ Enforcement!Claim(f) \/ Enforcement!RemoveFails(f)
  BY <1>3 DEF PurgeInv, Enforcement!Remove, Enforcement!Claim, Enforcement!RemoveFails,
     Enforcement!Judged
<1>4. CASE Enforcement!ContractEnds(shard)
  BY <1>4 DEF PurgeInv, Enforcement!ContractEnds, Enforcement!Judged, Enforcement!enforcer
<1>5. QED
  BY <1>1, <1>2, <1>3, <1>4 DEF EnforcerStep, Enforcement!Enforcer, Enforcement!Pass

LEMMA StepPurgeInv ==
  Healthy /\ ContractAtStart /\ PurgeInv /\ [NextUnderPurge]_allVars => PurgeInv'
<1> SUFFICES ASSUME Healthy, ContractAtStart, PurgeInv, [NextUnderPurge]_allVars PROVE PurgeInv'
  OBVIOUS
<1>1. ASSUME IInv, UNCHANGED vars PROVE IInv'
  BY <1>1, StepIInv
<1>2. CASE UNCHANGED allVars
  BY <1>1, <1>2 DEF allVars, purge, PurgeInv, Enforcement!Judged
<1>3. CASE HostStep \/ OtherStep
  BY <1>3, UploadSteps
<1>4. CASE NothingToResume
  BY <1>4, NothingToResumeSteps
<1>5. CASE EnforcerStep
  BY <1>1, <1>5, EnforcerKeepsFile, EnforcerJudges DEF PurgeInv
<1>6. QED
  BY <1>2, <1>3, <1>4, <1>5 DEF NextUnderPurge

(* A shard that was confirmed is stored for as long as its contract lasts, *)
(* whatever passes of the enforcer run beside its upload and after it.     *)
THEOREM ContractedStaysStored ==
  Healthy /\ ContractAtStart => (SpecUnderPurge => []ContractedIsKept)
<1> SUFFICES ASSUME Healthy, ContractAtStart PROVE SpecUnderPurge => []ContractedIsKept
  OBVIOUS
<1>1. InitUnderPurge => PurgeInv
  BY InitPurgeInv
<1>2. PurgeInv /\ [NextUnderPurge]_allVars => PurgeInv'
  BY StepPurgeInv
<1>3. PurgeInv => ContractedIsKept
  BY DEF PurgeInv, ContractedIsKept, Whole, IInv, FileInv
<1>4. QED
  BY <1>1, <1>2, <1>3, PTL DEF SpecUnderPurge
=============================================================================
