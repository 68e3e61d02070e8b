----------------------- MODULE ContractEnforcerProofs -----------------------
(***************************************************************************)
(* Proofs about ContractEnforcer, for any set of fragments, with or        *)
(* without faults.  The safety of a pass rests on the order in which it    *)
(* looks at the world: the directory first, the contracts second.          *)
(***************************************************************************)
EXTENDS ContractEnforcer, TLAPS

LEMMA InitInv == Init => IInv
BY DEF Init, IInv, TypeOK, Begun, Judged

(* What a pass is safe with.  A shard that comes under contract only when  *)
(* it is confirmed may have been judged expired before, and an answer      *)
(* without the list judges every shard expired.                            *)
Orderly == ContractAtStart /\ ListsContracts

LEMMA StepInv == Orderly /\ IInv /\ [Next]_vars => IInv'
<1> SUFFICES ASSUME Orderly, IInv, [Next]_vars PROVE IInv'
  OBVIOUS
<1> USE DEF Orderly, IInv, TypeOK, Begun, Judged, Listed, Expired
<1>1. CASE List
  BY <1>1 DEF List
<1>2. CASE Query
  BY <1>2 DEF Query
<1>3. CASE QueryFails
  BY <1>3 DEF QueryFails
<1>4. ASSUME NEW f \in Fragments, Remove(f) PROVE IInv'
  BY <1>4 DEF Remove
<1>5. ASSUME NEW f \in Fragments, RemoveFails(f) PROVE IInv'
  BY <1>5 DEF RemoveFails
<1>6. ASSUME NEW f \in Fragments, Claim(f) PROVE IInv'
  BY <1>6 DEF Claim
<1>7. CASE EndPass
  BY <1>7 DEF EndPass
<1>8. CASE Wake
  BY <1>8 DEF Wake
<1>9. ASSUME NEW f \in Fragments, BeginUpload(f) PROVE IInv'
  \* f is in no list yet: that is where the order of the pass counts.
  BY <1>9 DEF BeginUpload, enforcer
<1>10. ASSUME NEW f \in Fragments, DoneUploading(f) PROVE IInv'
  BY <1>10 DEF DoneUploading, enforcer
<1>11. ASSUME NEW f \in Fragments, ContractEnds(f) PROVE IInv'
  BY <1>11 DEF ContractEnds, enforcer
<1>12. CASE UNCHANGED vars
  BY <1>12 DEF vars, enforcer
<1>13. CASE QueryRaises
  BY <1>13 DEF QueryRaises
<1> QED
  BY <1>1, <1>2, <1>3, <1>4, <1>5, <1>6, <1>7, <1>8, <1>9, <1>10, <1>11, <1>12, <1>13
  DEF Next, Enforcer, Pass, Environment

(* A step removes nothing but what the pass took for expired.              *)
LEMMA StepRemoves ==
  IInv /\ [Next]_vars => [(disk \ disk') \cap contracts = {}]_vars
<1> SUFFICES ASSUME IInv, Next PROVE (disk \ disk') \cap contracts = {}
  OBVIOUS
<1>1. ASSUME NEW f \in Fragments, Remove(f) PROVE (disk \ disk') \cap contracts = {}
  <2>1. f \notin contracts
    BY <1>1 DEF Remove, Listed, Expired, IInv, Judged
  <2>2. disk \ disk' \subseteq {f}
    BY <1>1 DEF Remove
  <2> QED
    BY <2>1, <2>2
<1>2. CASE disk \subseteq disk'
  BY <1>2
<1>3. (\E f \in Fragments : Remove(f)) \/ disk \subseteq disk'
  BY DEF Next, Enforcer, Pass, Environment, List, Query, QueryFails, QueryRaises, RemoveFails,
         Claim, EndPass, Wake, BeginUpload, DoneUploading, ContractEnds
<1> QED
  BY <1>1, <1>2, <1>3

(* Types are kept whatever becomes of contracts, answers and unlinks.      *)
THEOREM TypeCorrect == Spec => []TypeOK
<1>1. Init => TypeOK
  BY DEF Init, TypeOK
<1>2. TypeOK /\ [Next]_vars => TypeOK'
  BY DEF Next, Enforcer, Pass, Environment, List, Query, QueryFails, QueryRaises, Remove,
     RemoveFails, Claim, EndPass, Wake, BeginUpload, DoneUploading, ContractEnds, TypeOK, vars, enforcer
<1> QED
  BY <1>1, <1>2, PTL DEF Spec

(* The variables have their types in every reachable state, and what a     *)
(* pass has judged expired has expired.                                    *)
THEOREM Invariance == Orderly => (Spec => [](TypeOK /\ Judged))
<1> SUFFICES ASSUME Orderly PROVE Spec => [](TypeOK /\ Judged)
  OBVIOUS
<1>1. Spec => []IInv
  BY InitInv, StepInv, PTL DEF Spec
<1>2. IInv => TypeOK /\ Judged
  BY DEF IInv
<1> QED
  BY <1>1, <1>2, PTL

(* service_workers.py:103-120: a pass, however long it takes and whatever  *)
(* begins and ends meanwhile, unlinks no fragment that is under contract   *)
(* at that moment, if contracts are made before uploads begin and any 200  *)
(* carries the list of them (backend_client.py:157-159).                   *)
THEOREM NothingUnderContractRemoved == Orderly => (Spec => RemovesOnlyExpired)
<1> SUFFICES ASSUME Orderly PROVE Spec => RemovesOnlyExpired
  OBVIOUS
<1>1. Spec => []IInv
  BY InitInv, StepInv, PTL DEF Spec
<1>2. IInv /\ [Next]_vars => [(disk \ disk') \cap contracts = {}]_vars
  BY StepRemoves
<1> QED
  BY <1>1, <1>2, PTL DEF Spec, RemovesOnlyExpired
=============================================================================
