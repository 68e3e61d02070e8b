-------------------------- MODULE UploadUnderPurge --------------------------
(***************************************************************************)
(* An upload (FragmentReceiver) on a node whose ContractEnforcer runs at   *)
(* the same time: both work on the same file, and neither knows of the     *)
(* other.  They share nothing else but the backend, which puts the shard   *)
(* under contract before the upload or, as src/mock-server/dummy_backend.py*)
(* does, when done_uploading confirms it.  Like that one it is taken to    *)
(* answer a query with the list or not with 200.                           *)
(*                                                                         *)
(* A file that is unlinked while the receiver has it open stays open:      *)
(* size, good and flushed go on describing what the handle writes to.  The *)
(* test whether the file exists and the reading of its size, in            *)
(* _open_shard_file, stay one step.                                        *)
(***************************************************************************)
EXTENDS FragmentReceiver

CONSTANTS shard,            \* the id of the shard
          ContractAtStart,  \* as in ContractEnforcer
          BackendFails      \* as in ContractEnforcer

ASSUME BackendAssumption == ContractAtStart \in BOOLEAN /\ BackendFails \in BOOLEAN

VARIABLES
  contracts,   \* what the backend has under contract
  enforcerPc,  \* ContractEnforcer's pc, todo, activeIds and queryOk
  todo,
  activeIds,
  queryOk

purge == <<enforcerPc, todo, activeIds, queryOk>>
allVars == <<vars, contracts, purge>>

Enforcement == INSTANCE ContractEnforcer
  WITH Fragments <- {shard},
       PortInURL <- FALSE,
       ListsContracts <- TRUE,
       disk <- IF linked THEN {shard} ELSE {},
       stage <- [f \in {shard} |-> IF confirmed THEN "stored" ELSE "receiving"],
       pc <- enforcerPc

InitUnderPurge ==
  /\ Init
  /\ contracts = IF ContractAtStart THEN {shard} ELSE {}
  /\ enforcerPc = "list" /\ todo = {} /\ activeIds = {} /\ queryOk = FALSE

(* done_uploading may put the shard under contract.                        *)
Contracted ==
  contracts' = IF ContractAtStart \/ confirmed' = confirmed THEN contracts
                                                            ELSE contracts \cup {shard}

HostStep == Host /\ Contracted /\ UNCHANGED purge

(* Mutant: a file that is gone is waited for.                              *)
NothingToResume_Waits ==
  /\ pc = "offset" /\ ~linked
  /\ pc' = "restart"
  /\ UNCHANGED <<reconnected, cur, completed, file, confirmed, inLedger, wire, uploader,
                 contracts, purge>>

(* A step of _attempt_reconnect that only the enforcer makes possible: the *)
(* file is gone, os.path.getsize raises FileNotFoundError, an OSError and  *)
(* therefore a socket.error, and the upload is given up.                   *)
NothingToResume ==
  /\ pc = "offset" /\ ~linked
  /\ pc' = "finish"
  /\ UNCHANGED <<reconnected, cur, completed, file, confirmed, inLedger, wire, uploader,
                 contracts, purge>>

OtherStep == (Wire \/ Peer \/ Break \/ PeerGivesUp \/ Crash \/ Recover) /\ UNCHANGED <<contracts, purge>>

(* Of the file, the enforcer changes only that its path names it.          *)
EnforcerStep ==
  /\ linked' \in BOOLEAN
  /\ UNCHANGED <<host, size, good, flushed, confirmed, inLedger, wire, uploader>>
  /\ Enforcement!Enforcer \/ Enforcement!ContractEnds(shard)

NextUnderPurge == HostStep \/ NothingToResume \/ OtherStep \/ EnforcerStep

SpecUnderPurge == InitUnderPurge /\ [][NextUnderPurge]_allVars

HostFairUnderPurge == SpecUnderPurge /\ WF_allVars(HostStep \/ NothingToResume)

-----------------------------------------------------------------------------

Whole == linked /\ good = ShardLength /\ size = ShardLength /\ flushed = ShardLength

(* A shard that was confirmed is stored for as long as it is under         *)
(* contract, although the enforcer looks at no upload and the receiver at  *)
(* no contract: backend_client.py:192, done_uploading: "Confirms to the    *)
(* backend that a shard has been fully received and saved to disk."        *)
ContractedIsKept == confirmed /\ shard \in contracts => Whole

(* The receiver's thread ends also when the file goes away under it.       *)
ReturnsUnderPurge == pc = "recv" ~> pc \in {"end", "dead", "down"}

-----------------------------------------------------------------------------
(* The inductive invariant behind ContractedIsKept, when the contract is   *)
(* there before the upload: for as long as it lasts the receiver is not    *)
(* disturbed, and the enforcer has not judged the shard expired.           *)
PurgeInv == Enforcement!Judged /\ (shard \in contracts => IInv)
=============================================================================
