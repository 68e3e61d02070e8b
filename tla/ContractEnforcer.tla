-------------------------- MODULE ContractEnforcer --------------------------
(***************************************************************************)
(* src/service_workers.py, ContractEnforcer, with the two methods of       *)
(* src/backend_client.py that it calls.                                    *)
(*                                                                         *)
(* A daemon thread lists the data directory, asks the backend which shards *)
(* are under contract, and then goes through its list: what has no         *)
(* contract is unlinked, and for the rest withdraw_request is called.  The *)
(* listing, the query and each unlink are separate steps, and uploads      *)
(* begin and contracts end between them.                                   *)
(*                                                                         *)
(* The backend's list of contracts and the life of an upload are external. *)
(***************************************************************************)
CONSTANTS Fragments,        \* ids of shards that may be uploaded
          ContractAtStart,  \* is a shard under contract before it is uploaded,
                            \* or only once done_uploading has confirmed it?
          PortInURL,        \* does server_url end in a port, as its default does?
          BackendFails,     \* may the backend not answer, or answer nonsense?
          ListsContracts,   \* does a 200 from it always carry the list?
          Faults            \* may an unlink fail?

ASSUME SwitchAssumption == /\ ContractAtStart \in BOOLEAN
                           /\ PortInURL \in BOOLEAN
                           /\ BackendFails \in BOOLEAN
                           /\ ListsContracts \in BOOLEAN
                           /\ Faults \in BOOLEAN

VARIABLES
  disk,        \* names in the data directory
  stage,       \* how far the upload of each fragment is
  contracts,   \* what the backend has under contract with this node
  pc,          \* where the thread is
  todo,        \* stored: the names listed and not dealt with
  activeIds,   \* active_ids
  queryOk      \* query_ok

enforcer == <<pc, todo, activeIds, queryOk>>
vars == <<disk, stage, contracts, enforcer>>

Init ==
  /\ disk = {}
  /\ stage = [f \in Fragments |-> "new"]
  /\ contracts = {}
  /\ pc = "list" /\ todo = {} /\ activeIds = {} /\ queryOk = FALSE

-----------------------------------------------------------------------------
(* _purge_and_claim.                                                       *)

List ==
  /\ pc = "list"
  /\ todo' = disk
  /\ pc' = "query"
  /\ UNCHANGED <<disk, stage, contracts, activeIds, queryOk>>

(* A 200 without "shards" is a success, and means that there are none.     *)
Query ==
  /\ pc = "query"
  /\ activeIds' \in IF ListsContracts THEN {contracts} ELSE {contracts, {}}
  /\ queryOk' = TRUE
  /\ pc' = "each"
  /\ UNCHANGED <<disk, stage, contracts, todo>>

(* Mutant: the status is not looked at, and an error names no shard.       *)
QueryFails_Unchecked ==
  /\ BackendFails
  /\ pc = "query"
  /\ activeIds' = {"error"}
  /\ queryOk' = TRUE
  /\ pc' = "each"
  /\ UNCHANGED <<disk, stage, contracts, todo>>

(* Mutant: no answer is taken for the answer that there is no contract.    *)
QueryFails_MeansNone ==
  /\ BackendFails
  /\ pc = "query"
  /\ activeIds' = {}
  /\ queryOk' = TRUE
  /\ pc' = "each"
  /\ UNCHANGED <<disk, stage, contracts, todo>>

(* No connection, or a status other than 200.                              *)
QueryFails ==
  /\ BackendFails
  /\ pc = "query"
  /\ activeIds' = {}
  /\ queryOk' = FALSE
  /\ pc' = "each"
  /\ UNCHANGED <<disk, stage, contracts, todo>>

(* A 200 whose body is no JSON, or no object: what this raises ends the    *)
(* thread.                                                                 *)
QueryRaises ==
  /\ BackendFails
  /\ pc = "query"
  /\ pc' = "dead"
  /\ UNCHANGED <<disk, stage, contracts, todo, activeIds, queryOk>>

(* Mutant: the directory is read again while the answer is gone through.   *)
Listed_Late == disk

Listed == todo

Expired(f) == queryOk /\ f \notin activeIds

Remove(f) ==
  /\ pc = "each" /\ f \in Listed /\ Expired(f)
  /\ disk' = disk \ {f}
  /\ todo' = todo \ {f}
  /\ UNCHANGED <<stage, contracts, pc, activeIds, queryOk>>

(* An OSError from os.unlink ends the thread.                              *)
RemoveFails(f) ==
  /\ Faults
  /\ pc = "each" /\ f \in Listed /\ Expired(f)
  /\ pc' = "dead"
  /\ UNCHANGED <<disk, stage, contracts, todo, activeIds, queryOk>>

(* Mutant: the first fragment that is kept ends the pass.                  *)
Claim_EndsPass(f) ==
  /\ pc = "each" /\ f \in Listed /\ ~Expired(f)
  /\ todo' = {}
  /\ pc' = "sleep"
  /\ UNCHANGED <<disk, stage, contracts, activeIds, queryOk>>

(* withdraw_request puts no "/" between server_url and its route.  After a *)
(* port this is no URL: httpx raises InvalidURL, which is no RequestError, *)
(* and the thread ends.  Otherwise the request goes to a host or a path    *)
(* that is not the backend's, and whatever comes of it is ignored.         *)
Claim(f) ==
  /\ pc = "each" /\ f \in Listed /\ ~Expired(f)
  /\ IF PortInURL THEN pc' = "dead" /\ UNCHANGED todo
                  ELSE todo' = todo \ {f} /\ UNCHANGED pc
  /\ UNCHANGED <<disk, stage, contracts, activeIds, queryOk>>

EndPass ==
  /\ pc = "each" /\ Listed = {}
  /\ pc' = "sleep"
  /\ UNCHANGED <<disk, stage, contracts, todo, activeIds, queryOk>>

(* sleep(self._cycle): twelve hours.                                       *)
Wake ==
  /\ pc = "sleep"
  /\ pc' = "list"
  /\ UNCHANGED <<disk, stage, contracts, todo, activeIds, queryOk>>

-----------------------------------------------------------------------------
(* Uploads and contracts (external).                                       *)

BeginUpload(f) ==
  /\ stage[f] = "new"
  /\ stage' = [stage EXCEPT ![f] = "receiving"]
  /\ disk' = disk \cup {f}
  /\ contracts' = IF ContractAtStart THEN contracts \cup {f} ELSE contracts
  /\ UNCHANGED enforcer

DoneUploading(f) ==
  /\ stage[f] = "receiving"
  /\ stage' = [stage EXCEPT ![f] = "stored"]
  /\ contracts' = IF ContractAtStart THEN contracts ELSE contracts \cup {f}
  /\ UNCHANGED <<disk, enforcer>>

ContractEnds(f) ==
  /\ f \in contracts
  /\ contracts' = contracts \ {f}
  /\ UNCHANGED <<disk, stage, enforcer>>

-----------------------------------------------------------------------------

Pass ==
  \/ List \/ EndPass \/ Wake
  \/ \E f \in Fragments : Remove(f) \/ Claim(f)

Enforcer == Pass \/ Query \/ QueryFails \/ QueryRaises \/ \E f \in Fragments : RemoveFails(f)

Environment == \E f \in Fragments : BeginUpload(f) \/ DoneUploading(f) \/ ContractEnds(f)

Next == Enforcer \/ Environment

Spec == Init /\ [][Next]_vars

(* The thread runs, and the backend answers again and again.               *)
FairSpec == Spec /\ WF_vars(Pass) /\ WF_vars(Query \/ QueryFails) /\ SF_vars(Query)

-----------------------------------------------------------------------------

TypeOK ==
  /\ disk \subseteq Fragments
  /\ stage \in [Fragments -> {"new", "receiving", "stored"}]
  /\ contracts \subseteq Fragments
  /\ pc \in {"list", "query", "each", "sleep", "dead"}
  /\ todo \subseteq Fragments
  /\ activeIds \subseteq Fragments
  /\ queryOk \in BOOLEAN

(* No fragment is removed that is under contract at that moment, although  *)
(* both the listing and the answer are old by then: the directory is read  *)
(* before the contracts are, and a fragment never comes under contract     *)
(* after its file exists.  A 200 without the list would be believed.       *)
RemovesOnlyExpired == [][(disk \ disk') \cap contracts = {}]_vars

(* Every fragment whose contract has ended is removed in the end, through  *)
(* any number of queries that fail, unless an unlink that fails, or an     *)
(* answer that cannot be read, has ended the thread.                       *)
ExpiredIsRemoved ==
  \A f \in Fragments :
    f \in disk /\ f \notin contracts ~> f \notin disk \/ pc = "dead"

(* tests/test_backend_client.py:214, test_tolerates_server_error: a        *)
(* withdrawal that the server does not take is no reason to fail, so that  *)
(* without faults of the disk or of the query the thread goes on.          *)
WithdrawalTolerated == pc # "dead"

-----------------------------------------------------------------------------
(* The inductive invariant behind RemovesOnlyExpired.                      *)

(* A fragment that is on the disk, or was when it was listed, has begun.   *)
Begun == \A f \in disk \cup todo \cup contracts : stage[f] # "new"

(* What the pass takes for expired has expired, and stays so.              *)
Judged == pc = "each" /\ queryOk => \A f \in todo : f \notin activeIds => f \notin contracts

IInv == TypeOK /\ Begun /\ Judged
=============================================================================
