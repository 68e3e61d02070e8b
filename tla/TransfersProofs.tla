--------------------------- MODULE TransfersProofs ---------------------------
(***************************************************************************)
(* Proofs about Transfers, for any set of requests and of ports, with or   *)
(* without faults.  That a client which was told a port is in the ledger   *)
(* rests on the order of the steps in dispatch, and on that no request is  *)
(* dispatched twice: a second time would begin without an entry.           *)
(***************************************************************************)
EXTENDS Transfers, SequenceTheorems, TLAPS

LEMMA InitInv == Init => IInv
BY BacklogAssumption
DEF Init, IInv, TypeOK, WaitsOnce, ToldIsRecorded, AcceptedIsPending, HasPort

-----------------------------------------------------------------------------
(* The listener.  Only it touches what WaitsOnce is about.                 *)

(* A request that is not Connected is in neither place.                    *)
LEMMA NotConnected ==
  ASSUME TypeOK, NEW r \in Requests, ~Connected(r)
  PROVE  /\ \A i \in 1 .. Len(backlog) : backlog[i] # r
         /\ \A i \in 1 .. Len(conn) : conn[i] # r
<1> DEFINE all == backlog \o conn
<1>1. backlog \in Seq(Requests) /\ conn \in Seq(Requests)
  BY DEF TypeOK
<1>2. /\ Len(all) = Len(backlog) + Len(conn)
      /\ \A i \in 1 .. Len(backlog) + Len(conn) :
           all[i] = IF i <= Len(backlog) THEN backlog[i] ELSE conn[i - Len(backlog)]
  BY <1>1, ConcatProperties
<1>3. \A i \in 1 .. Len(all) : all[i] # r
  BY DEF Connected, Contains
<1>4. Len(backlog) \in Nat /\ Len(conn) \in Nat
  BY <1>1
<1>5. ASSUME NEW i \in 1 .. Len(backlog) PROVE backlog[i] # r
  BY <1>2, <1>3, <1>4
<1>6. ASSUME NEW i \in 1 .. Len(conn) PROVE conn[i] # r
  <2>1. all[Len(backlog) + i] = conn[i]
    BY <1>2, <1>4
  <2> QED
    BY <2>1, <1>2, <1>3, <1>4
<1> QED
  BY <1>5, <1>6

LEMMA ConnectStep ==
  ASSUME IInv, NEW r \in Requests, Connect(r) PROVE IInv'
<1> USE DEF Connect, IInv, records
<1>1. TypeOK'
  BY BacklogAssumption DEF TypeOK, HasRoom
<1>2. WaitsOnce'
  <2>1. /\ backlog \in Seq(Requests) /\ conn \in Seq(Requests)
        /\ listener = "recv" <=> conn # <<>>
    BY DEF TypeOK
  <2>2. /\ \A i \in 1 .. Len(backlog) : backlog[i] # r
        /\ \A i \in 1 .. Len(conn) : conn[i] # r
    BY NotConnected
  <2>3. /\ Len(backlog') = Len(backlog) + 1
        /\ \A i \in 1 .. Len(backlog) : backlog'[i] = backlog[i]
        /\ backlog'[Len(backlog) + 1] = r
        /\ Len(backlog) \in Nat
    BY <2>1
  <2>4. conn # <<>> => conn[1] # r
    BY <2>1, <2>2 DEF WaitsOnce
  <2> QED
    BY <2>1, <2>2, <2>3, <2>4 DEF WaitsOnce, HasRoom
<1>3. ToldIsRecorded' /\ AcceptedIsPending'
  BY DEF ToldIsRecorded, AcceptedIsPending
<1> QED
  BY <1>1, <1>2, <1>3

LEMMA SendStep ==
  ASSUME IInv, NEW r \in Requests, NEW what \in {"request", "garbage"}, Send(r, what)
  PROVE  IInv'
<1> USE DEF Send, IInv, records
<1>1. TypeOK'
  BY DEF TypeOK
<1>2. WaitsOnce'
  BY DEF WaitsOnce
<1>3. ToldIsRecorded' /\ AcceptedIsPending'
  BY DEF ToldIsRecorded, AcceptedIsPending
<1> QED
  BY <1>1, <1>2, <1>3

LEMMA AcceptStep ==
  ASSUME IInv, Accept PROVE IInv'
<1> USE DEF Accept, IInv, records
<1>1. /\ Head(backlog) \in Requests /\ Tail(backlog) \in Seq(Requests)
      /\ Head(backlog) = backlog[1] /\ Len(backlog) \in Nat /\ Len(backlog) > 0
      /\ Len(Tail(backlog)) = Len(backlog) - 1
      /\ \A i \in 1 .. Len(Tail(backlog)) : Tail(backlog)[i] = backlog[i + 1]
  BY HeadTailProperties DEF TypeOK
<1>2. Len(conn') = 1 /\ conn'[1] = backlog[1] /\ conn' # <<>> /\ conn' \in Seq(Requests)
  BY <1>1
<1>3. TypeOK'
  BY <1>1, <1>2, BacklogAssumption DEF TypeOK
<1>4. WaitsOnce'
  BY <1>1, <1>2 DEF WaitsOnce
<1>5. ToldIsRecorded' /\ AcceptedIsPending'
  BY DEF ToldIsRecorded, AcceptedIsPending
<1> QED
  BY <1>3, <1>4, <1>5

LEMMA DispatchStep ==
  ASSUME IInv, Dispatch PROVE IInv'
<1> USE DEF Dispatch, IInv, records
<1>1. /\ conn \in Seq(Requests) /\ conn # <<>>
      /\ backlog \in Seq(Requests)
      /\ worker \in [Requests -> HasPort \cup {"none", "hash", "draw", "unregister",
                                               "end", "dead", "gone"}]
  BY DEF TypeOK
<1>2. Head(conn) = conn[1] /\ conn[1] \in Requests
  BY <1>1
<1>3. worker[conn[1]] = "none"
  BY <1>1 DEF WaitsOnce
<1>4. Starts(conn[1]) \in {"hash", "draw"}
  BY DEF Starts
<1>5. TypeOK'
  BY <1>1, <1>2, <1>4 DEF TypeOK, HasPort
<1>6. WaitsOnce'
  BY <1>1, <1>2 DEF WaitsOnce
<1>7. ToldIsRecorded' /\ AcceptedIsPending'
  BY <1>1, <1>2, <1>3, <1>4 DEF ToldIsRecorded, AcceptedIsPending
<1> QED
  BY <1>5, <1>6, <1>7

LEMMA ChokeStep ==
  ASSUME IInv, Choke PROVE IInv'
<1> USE DEF Choke, IInv, records
<1>1. TypeOK'
  BY BacklogAssumption DEF TypeOK
<1>2. WaitsOnce'
  BY DEF WaitsOnce
<1>3. ToldIsRecorded' /\ AcceptedIsPending'
  BY DEF ToldIsRecorded, AcceptedIsPending
<1> QED
  BY <1>1, <1>2, <1>3
-----------------------------------------------------------------------------
(* A step of one request's thread, which leaves the listener alone.        *)

Locations == HasPort \cup {"none", "hash", "draw", "unregister", "end", "dead", "gone"}

LEMMA StepTypes ==
  ASSUME IInv, NEW r \in Requests, NEW from, NEW to \in Locations, Step(r, from, to),
         port' \in [Requests -> Ports \cup {NoPort}],
         told' \in [Requests -> BOOLEAN],
         ledger' \subseteq Requests, forgotten' \subseteq Requests
  PROVE  TypeOK'
BY DEF IInv, TypeOK, Step, clients, Locations

(* A thread that takes a step was started, so its request is dispatched.   *)
LEMMA StepWaits ==
  ASSUME IInv, NEW r \in Requests, NEW from, NEW to, Step(r, from, to), from # "none"
  PROVE  WaitsOnce'
<1>1. /\ backlog \in Seq(Requests) /\ conn \in Seq(Requests)
      /\ worker \in [Requests -> Locations]
  BY DEF IInv, TypeOK, Locations
<1>2. \A q \in Requests : worker[q] = "none" => worker'[q] = "none"
  BY <1>1 DEF Step
<1>3. /\ \A i \in 1 .. Len(backlog) : backlog[i] \in Requests
      /\ conn # <<>> => conn[1] \in Requests
  BY <1>1
<1>4. UNCHANGED <<backlog, conn, listener>>
  BY DEF Step, clients
<1> QED
  BY <1>2, <1>3, <1>4 DEF IInv, WaitsOnce

(* A step that tells no client anything, and keeps or remembers every      *)
(* entry, save that of a transfer that ends.                               *)
LEMMA StepKeeps ==
  ASSUME IInv, NEW r \in Requests, NEW from \in Locations, NEW to \in Locations,
         Step(r, from, to), from \notin {"none", "end"}, to # "none",
         told' = told,
         \A q \in ledger \cup forgotten :
           q \in ledger' \cup forgotten' \/ (q = r /\ to = "end"),
         to \in {"hash", "draw", "probe", "register"} =>
           from \in {"hash", "draw", "probe", "register"},
         to \in {"tell", "bind", "serve", "unregister"} =>
           \/ from \in {"tell", "bind", "serve", "unregister"}
           \/ r \in ledger' \cup forgotten'
  PROVE  ToldIsRecorded' /\ AcceptedIsPending'
<1>1. worker \in [Requests -> Locations] /\ worker[r] = from
      /\ worker' = [worker EXCEPT ![r] = to]
  BY DEF IInv, TypeOK, Step, Locations
<1>2. \A q \in Requests : worker'[q] = IF q = r THEN to ELSE worker[q]
  BY <1>1
<1>3. ToldIsRecorded'
  BY <1>1, <1>2 DEF IInv, ToldIsRecorded
<1>4. ASSUME NEW q \in Requests, told'[q], worker'[q] # "end"
      PROVE  q \in ledger' \cup forgotten'
  <2>1. CASE q # r
    BY <1>2, <1>4, <2>1 DEF IInv, AcceptedIsPending
  <2>2. CASE q = r
    BY <1>1, <1>2, <1>4, <2>2 DEF IInv, AcceptedIsPending
  <2> QED
    BY <2>1, <2>2
<1> QED
  BY <1>3, <1>4 DEF AcceptedIsPending

LEMMA AuditStep ==
  ASSUME IInv, NEW r \in Requests, Audit(r) \/ DrawRaises(r) PROVE IInv'
<1>1. PICK from \in {"hash", "draw"}, to \in {"end", "dead"} : Step(r, from, to)
  BY DEF Audit, DrawRaises
<1>2. UNCHANGED <<port, told, ledger, forgotten>>
  BY DEF Audit, DrawRaises, records
<1>3. to \in Locations /\ from \in Locations
  BY DEF Locations, HasPort
<1>4. TypeOK'
  BY <1>1, <1>2, <1>3, StepTypes DEF IInv, TypeOK
<1>5. WaitsOnce'
  BY <1>1, StepWaits
<1>6. ToldIsRecorded' /\ AcceptedIsPending'
  BY <1>1, <1>2, <1>3, StepKeeps
<1> QED
  BY <1>4, <1>5, <1>6 DEF IInv

LEMMA DrawStep ==
  ASSUME IInv, NEW r \in Requests, Draw(r) PROVE IInv'
<1>1. Step(r, "draw", "probe") /\ UNCHANGED <<told, ledger, forgotten>>
  BY DEF Draw, records
<1>2. "probe" \in Locations /\ "draw" \in Locations
  BY DEF Locations, HasPort
<1>3. port' \in [Requests -> Ports \cup {NoPort}]
  BY DEF Draw, IInv, TypeOK
<1>4. TypeOK'
  BY <1>1, <1>2, <1>3, StepTypes DEF IInv, TypeOK
<1>5. WaitsOnce'
  BY <1>1, StepWaits
<1>6. ToldIsRecorded' /\ AcceptedIsPending'
  BY <1>1, <1>2, StepKeeps
<1> QED
  BY <1>4, <1>5, <1>6 DEF IInv

LEMMA EndProbeStep ==
  ASSUME IInv, NEW r \in Requests, EndProbe(r) PROVE IInv'
<1>1. Step(r, "probe", "register") /\ UNCHANGED <<port, told, ledger, forgotten>>
  BY DEF EndProbe, records
<1>2. "probe" \in Locations /\ "register" \in Locations
  BY DEF Locations, HasPort
<1>3. TypeOK'
  BY <1>1, <1>2, StepTypes DEF IInv, TypeOK
<1>4. WaitsOnce'
  BY <1>1, StepWaits
<1>5. ToldIsRecorded' /\ AcceptedIsPending'
  BY <1>1, <1>2, StepKeeps
<1> QED
  BY <1>3, <1>4, <1>5 DEF IInv

(* Either way r is recorded, or remembered as what the disk has failed.    *)
LEMMA RegisterStep ==
  ASSUME IInv, NEW r \in Requests, Register(r) \/ RegisterFails(r) PROVE IInv'
<1>1. Step(r, "register", "tell") /\ UNCHANGED <<port, told>>
  BY DEF Register, RegisterFails
<1>2. "register" \in Locations /\ "tell" \in Locations
  BY DEF Locations, HasPort
<1>3. ledger \subseteq Requests /\ forgotten \subseteq Requests
  BY DEF IInv, TypeOK
<1>4. /\ ledger' \subseteq Requests /\ forgotten' \subseteq Requests
      /\ ledger \cup forgotten \cup {r} \subseteq ledger' \cup forgotten'
  BY <1>3 DEF Register, RegisterFails, LedgerFails
<1>5. TypeOK'
  BY <1>1, <1>2, <1>4, StepTypes DEF IInv, TypeOK
<1>6. WaitsOnce'
  BY <1>1, StepWaits
<1>7. ToldIsRecorded' /\ AcceptedIsPending'
  BY <1>1, <1>2, <1>4, StepKeeps
<1> QED
  BY <1>5, <1>6, <1>7 DEF IInv

(* What a client is told was recorded before.                              *)
LEMMA TellStep ==
  ASSUME IInv, NEW r \in Requests, Tell(r) PROVE IInv'
<1>1. PICK to \in {"end", "bind"} : Step(r, "tell", to)
  BY DEF Tell
<1>2. UNCHANGED <<port, ledger, forgotten>> /\ told' = [told EXCEPT ![r] = TRUE]
  BY DEF Tell, records
<1>3. "tell" \in Locations /\ to \in Locations
  BY DEF Locations, HasPort
<1>4. TypeOK'
  BY <1>1, <1>2, <1>3, StepTypes DEF IInv, TypeOK
<1>5. WaitsOnce'
  BY <1>1, StepWaits
<1>6. /\ worker \in [Requests -> Locations] /\ told \in [Requests -> BOOLEAN]
      /\ worker[r] = "tell" /\ worker' = [worker EXCEPT ![r] = to]
  BY <1>1 DEF IInv, TypeOK, Step, Locations
<1>7. r \in ledger \cup forgotten
  BY <1>6 DEF IInv, ToldIsRecorded
<1>8. ToldIsRecorded' /\ AcceptedIsPending'
  BY <1>2, <1>6, <1>7 DEF IInv, ToldIsRecorded, AcceptedIsPending
<1> QED
  BY <1>4, <1>5, <1>8 DEF IInv

LEMMA TellFailsStep ==
  ASSUME IInv, NEW r \in Requests, TellFails(r) PROVE IInv'
<1>1. Step(r, "tell", "dead") /\ UNCHANGED <<port, told, ledger, forgotten>>
  BY DEF TellFails, records
<1>2. "tell" \in Locations /\ "dead" \in Locations
  BY DEF Locations, HasPort
<1>3. TypeOK'
  BY <1>1, <1>2, StepTypes DEF IInv, TypeOK
<1>4. WaitsOnce'
  BY <1>1, StepWaits
<1>5. ToldIsRecorded' /\ AcceptedIsPending'
  BY <1>1, <1>2, StepKeeps
<1> QED
  BY <1>3, <1>4, <1>5 DEF IInv

(* The transfer begins, cannot bind, or has nothing to send.               *)
LEMMA BindStep ==
  ASSUME IInv, NEW r \in Requests, Bind(r) \/ Missing(r) PROVE IInv'
<1>1. PICK to \in {"dead", "serve", "end"} : Step(r, "bind", to)
  BY DEF Bind, Missing
<1>2. UNCHANGED <<port, told, ledger, forgotten>>
  BY DEF Bind, Missing, records
<1>3. "bind" \in Locations /\ to \in Locations
  BY DEF Locations, HasPort
<1>4. TypeOK'
  BY <1>1, <1>2, <1>3, StepTypes DEF IInv, TypeOK
<1>5. WaitsOnce'
  BY <1>1, StepWaits
<1>6. ToldIsRecorded' /\ AcceptedIsPending'
  BY <1>1, <1>2, <1>3, StepKeeps
<1> QED
  BY <1>4, <1>5, <1>6 DEF IInv

LEMMA ServeStep ==
  ASSUME IInv, NEW r \in Requests, Serve(r) PROVE IInv'
<1>1. PICK to \in {"unregister", "dead"} : Step(r, "serve", to)
  BY DEF Serve
<1>2. UNCHANGED <<port, told, ledger, forgotten>>
  BY DEF Serve, records
<1>3. "serve" \in Locations /\ to \in Locations
  BY DEF Locations, HasPort
<1>4. TypeOK'
  BY <1>1, <1>2, <1>3, StepTypes DEF IInv, TypeOK
<1>5. WaitsOnce'
  BY <1>1, StepWaits
<1>6. ToldIsRecorded' /\ AcceptedIsPending'
  BY <1>1, <1>2, <1>3, StepKeeps
<1> QED
  BY <1>4, <1>5, <1>6 DEF IInv

(* The entry of r goes when r has ended; the others stay, or the disk has  *)
(* failed them.                                                            *)
LEMMA UnregisterStep ==
  ASSUME IInv, NEW r \in Requests, Unregister(r) \/ UnregisterFails(r) PROVE IInv'
<1>1. Step(r, "unregister", "end") /\ UNCHANGED <<port, told>>
  BY DEF Unregister, UnregisterFails
<1>2. "unregister" \in Locations /\ "end" \in Locations
  BY DEF Locations
<1>3. ledger \subseteq Requests /\ forgotten \subseteq Requests
  BY DEF IInv, TypeOK
<1>4. /\ ledger' \subseteq Requests /\ forgotten' \subseteq Requests
      /\ \A q \in ledger \cup forgotten : q \in ledger' \cup forgotten' \/ q = r
  BY <1>3 DEF Unregister, UnregisterFails, LedgerFails
<1>5. TypeOK'
  BY <1>1, <1>2, <1>4, StepTypes DEF IInv, TypeOK
<1>6. WaitsOnce'
  BY <1>1, StepWaits
<1>7. ToldIsRecorded' /\ AcceptedIsPending'
  BY <1>1, <1>2, <1>4, StepKeeps
<1> QED
  BY <1>5, <1>6, <1>7 DEF IInv

-----------------------------------------------------------------------------
(* The process dies and is started again.                                  *)

LEMMA CrashStep ==
  ASSUME IInv, Crash PROVE IInv'
<1>1. /\ worker \in [Requests -> Locations] /\ told \in [Requests -> BOOLEAN]
      /\ ledger \subseteq Requests /\ forgotten \subseteq Requests
  BY DEF IInv, TypeOK, Locations
<1>2. \A q \in Requests :
        worker'[q] = IF worker[q] \in {"none", "end"} THEN worker[q] ELSE "gone"
  BY DEF Crash
<1>3. ledger' \subseteq ledger
  BY DEF Crash
<1>4. /\ ledger' \cup forgotten' = ledger \cup forgotten
      /\ ledger' \subseteq Requests /\ forgotten' \subseteq Requests
  BY <1>1, <1>3 DEF Crash
<1>5. worker' \in [Requests -> Locations]
  BY <1>1 DEF Crash, Locations
<1>6. TypeOK'
  BY <1>4, <1>5, BacklogAssumption DEF Crash, IInv, TypeOK, Locations
<1>7. WaitsOnce'
  BY DEF Crash, WaitsOnce
<1>8. ToldIsRecorded' /\ AcceptedIsPending'
  BY <1>1, <1>2, <1>4 DEF Crash, IInv, ToldIsRecorded, AcceptedIsPending
<1> QED
  BY <1>6, <1>7, <1>8 DEF IInv

(* Whoever is resumed is in the ledger; nobody waits for the listener.     *)
LEMMA RecoverStep ==
  ASSUME IInv, Recover PROVE IInv'
<1>1. worker \in [Requests -> Locations]
  BY DEF IInv, TypeOK, Locations
<1>2. \A q \in Requests :
        worker'[q] = IF q \in ledger THEN IF kind[q] = "other" THEN "end" ELSE "bind"
                                     ELSE worker[q]
  BY DEF Recover
<1>3. worker' \in [Requests -> Locations]
  BY <1>1 DEF Recover, Locations, HasPort
<1>4. backlog = <<>> /\ conn = <<>>
  BY DEF Recover, IInv, WaitsOnce, TypeOK
<1>5. UNCHANGED <<backlog, conn, kind, sent, port, told, ledger, forgotten>>
      /\ listener' = "accept"
  BY DEF Recover, clients, records
<1>6. TypeOK'
  BY <1>3, <1>4, <1>5 DEF IInv, TypeOK, Locations
<1>7. WaitsOnce'
  BY <1>4, <1>5 DEF WaitsOnce
<1>8. ToldIsRecorded' /\ AcceptedIsPending'
  BY <1>2, <1>5 DEF IInv, ToldIsRecorded, AcceptedIsPending
<1> QED
  BY <1>6, <1>7, <1>8 DEF IInv

-----------------------------------------------------------------------------

LEMMA StepInv == IInv /\ [Next]_vars => IInv'
<1> SUFFICES ASSUME IInv, [Next]_vars PROVE IInv'
  OBVIOUS
<1>1. CASE UNCHANGED vars
  <2>1. UNCHANGED <<kind, listener, backlog, conn, sent, worker, port, told,
                    ledger, forgotten>>
    BY <1>1 DEF vars, clients, records
  <2>2. TypeOK'
    BY <2>1 DEF IInv, TypeOK
  <2>3. WaitsOnce'
    BY <2>1 DEF IInv, WaitsOnce
  <2>4. ToldIsRecorded' /\ AcceptedIsPending'
    BY <2>1 DEF IInv, ToldIsRecorded, AcceptedIsPending
  <2> QED
    BY <2>2, <2>3, <2>4 DEF IInv
<1>2. CASE Accept \/ Dispatch \/ Choke \/ Crash \/ Recover
  BY <1>2, AcceptStep, DispatchStep, ChokeStep, CrashStep, RecoverStep
<1>3. ASSUME NEW r \in Requests, Connect(r) \/ SendRequest(r) \/ SendGarbage(r)
      PROVE  IInv'
  BY <1>3, ConnectStep, SendStep DEF SendRequest, SendGarbage
<1>4. ASSUME NEW r \in Requests,
             \/ Audit(r) \/ Draw(r) \/ DrawRaises(r)
             \/ EndProbe(r) \/ Register(r) \/ RegisterFails(r)
             \/ Tell(r) \/ TellFails(r) \/ Bind(r) \/ Missing(r) \/ Serve(r)
             \/ Unregister(r) \/ UnregisterFails(r)
      PROVE  IInv'
  BY <1>4, AuditStep, DrawStep, EndProbeStep, RegisterStep, TellStep, TellFailsStep,
     BindStep, ServeStep, UnregisterStep
<1> QED
  BY <1>1, <1>2, <1>3, <1>4 DEF Next

LEMMA Invariant == Spec => []IInv
BY InitInv, StepInv, PTL DEF Spec

(* The variables have their types in every reachable state.                *)
THEOREM TypeCorrect == Spec => []TypeOK
<1>1. IInv => TypeOK
  BY DEF IInv
<1> QED
  BY <1>1, Invariant, PTL

(* request_dispatcher.py:81-86: a client that has been sent its port has   *)
(* an entry in the ledger until its transfer has ended, whatever dies or   *)
(* is started again, unless a failing disk or a crash in the middle of a   *)
(* rewrite has lost it.                                                    *)
THEOREM AcceptedStaysPending == Spec => []AcceptedIsPending
<1>1. IInv => AcceptedIsPending
  BY DEF IInv
<1> QED
  BY <1>1, Invariant, PTL
=============================================================================
