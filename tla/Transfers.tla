------------------------------ MODULE Transfers ------------------------------
(***************************************************************************)
(* src/request_dispatcher.py, RequestDispatcher, with the threads around   *)
(* it: CommandListener (service_workers.py), which reads one request from  *)
(* each connection and starts a thread for it, PortScanner                 *)
(* (node_utilities.py), which draws ports for transfers, and               *)
(* SessionRecovery (startup_interface.py), which dispatches again what a   *)
(* process that died had in its ledger.                                    *)
(*                                                                         *)
(* A transfer is one step here that begins and may never end (serve): what *)
(* it does is in FragmentReceiver and FragmentSender.  A call of the       *)
(* ledger is one step too, as PendingTransfers says and ConnectionLedger   *)
(* implements it.  The clients, who are external, send their request or    *)
(* something that is none, or nothing.                                     *)
(***************************************************************************)
EXTENDS Naturals, Sequences, SequencesExt

CONSTANTS Requests,  \* requests that clients may make, all different
          Ports,     \* the ports transfers are given: 50100 .. 60000
          NoPort,    \* the port of a request that has none yet: 0
          Backlog,   \* connections that wait before others have to: listen(5)
          Faults     \* may the ledger's disk fail and the process crash?

ASSUME PortAssumption == NoPort \notin Ports
ASSUME BacklogAssumption == Backlog \in Nat \ {0}
ASSUME FaultAssumption == Faults \in BOOLEAN

VARIABLES
  kind,       \* the "type" of each request; "other" is none dispatch knows
  listener,   \* what the listener's thread does; "down": there is no process
  backlog,    \* connections that it has not accepted
  conn,       \* the one it reads from; << >> or one request
  sent,       \* what each client has sent on its connection
  worker,     \* where the thread of each request is
  port,       \* request["port"]
  told,       \* the client has been sent its port
  ledger,     \* requests that have an entry in the ledger
  forgotten   \* requests whose entry a failing disk or a crash has lost

clients == <<backlog, conn, sent>>
records == <<ledger, forgotten>>
vars == <<kind, listener, clients, worker, port, told, records>>

Kinds == {"audit", "upload", "download", "other"}
HasPort == {"probe", "register", "tell", "bind", "serve"}

Init ==
  /\ kind \in [Requests -> Kinds]
  /\ listener = "accept" /\ backlog = <<>> /\ conn = <<>>
  /\ sent = [r \in Requests |-> "nothing"]
  /\ worker = [r \in Requests |-> "none"]
  /\ port = [r \in Requests |-> NoPort]
  /\ told = [r \in Requests |-> FALSE]
  /\ ledger = {} /\ forgotten = {}

-----------------------------------------------------------------------------
(* CommandListener and its clients.                                        *)

Connected(r) == Contains(backlog \o conn, r)

(* Others are kept waiting by their own system, and try again.             *)
HasRoom == listener \in {"accept", "recv"} /\ Len(backlog) < Backlog

Connect(r) ==
  /\ HasRoom
  /\ worker[r] = "none" /\ ~Connected(r)
  /\ backlog' = Append(backlog, r)
  /\ sent' = [sent EXCEPT ![r] = "nothing"]
  /\ UNCHANGED <<kind, listener, conn, worker, port, told, records>>

Send(r, what) ==
  /\ Connected(r) /\ sent[r] = "nothing"
  /\ sent' = [sent EXCEPT ![r] = what]
  /\ UNCHANGED <<kind, listener, backlog, conn, worker, port, told, records>>

SendRequest(r) == Send(r, "request")

(* A part of a request, or nothing and the end of the connection.          *)
SendGarbage(r) == Send(r, "garbage")

Accept ==
  /\ listener = "accept" /\ backlog # <<>>
  /\ conn' = <<Head(backlog)>>
  /\ backlog' = Tail(backlog)
  /\ listener' = "recv"
  /\ UNCHANGED <<kind, sent, worker, port, told, records>>

Starts(r) == IF kind[r] = "audit" THEN "hash" ELSE "draw"

(* Mutant: the request is dispatched in the listener's own thread.         *)
Dispatch_InThread ==
  /\ listener = "recv" /\ sent[Head(conn)] = "request"
  /\ worker' = [worker EXCEPT ![Head(conn)] = Starts(Head(conn))]
  /\ conn' = <<>>
  /\ listener' = IF kind[Head(conn)] = "audit" THEN "accept" ELSE "busy"
  /\ UNCHANGED <<kind, backlog, sent, port, told, records>>

Dispatch ==
  /\ listener = "recv" /\ sent[Head(conn)] = "request"
  /\ worker' = [worker EXCEPT ![Head(conn)] = Starts(Head(conn))]
  /\ conn' = <<>>
  /\ listener' = "accept"
  /\ UNCHANGED <<kind, backlog, sent, port, told, records>>

(* Mutant: what is no request is skipped, and its connection kept.         *)
Choke_Ignored ==
  /\ listener = "recv" /\ sent[Head(conn)] = "garbage"
  /\ listener' = "accept"
  /\ UNCHANGED <<kind, backlog, conn, sent, worker, port, told, records>>

(* json.loads raises, nothing catches it, and the listener's socket goes   *)
(* with its thread; the other threads go on.                               *)
Choke ==
  /\ listener = "recv" /\ sent[Head(conn)] = "garbage"
  /\ listener' = "dead"
  /\ backlog' = <<>> /\ conn' = <<>>
  /\ UNCHANGED <<kind, sent, worker, port, told, records>>

-----------------------------------------------------------------------------
(* dispatch, in the thread of request r.                                   *)

Step(r, from, to) ==
  /\ worker[r] = from
  /\ worker' = [worker EXCEPT ![r] = to]
  /\ UNCHANGED <<kind, listener, clients>>

(* There may be no such file, or the client has gone.                      *)
Audit(r) ==
  /\ \E end \in {"end", "dead"} : Step(r, "hash", end)
  /\ UNCHANGED <<port, told, records>>

(* check_zmq_bind binds and releases 127.0.0.1, and transfers bind the     *)
(* address of the node's interface, for StorageNode always has a router    *)
(* manager to ask for it: a probe sees other probes, and no transfer.      *)
TakenForProbe(p) == \E q \in Requests : port[q] = p /\ worker[q] = "probe"

TakenForTransfer(p) == \E q \in Requests : port[q] = p /\ worker[q] = "serve"

(* find_available_port draws until the probe can bind.                     *)
Draw(r) ==
  /\ \E p \in Ports : ~TakenForProbe(p) /\ port' = [port EXCEPT ![r] = p]
  /\ Step(r, "draw", "probe")
  /\ UNCHANGED <<told, records>>

(* Then the routers are asked whether the port is open, and to forward it: *)
(* their search may raise (MayRaise in Gateways), and ends the thread.     *)
DrawRaises(r) ==
  /\ Step(r, "draw", "dead")
  /\ UNCHANGED <<port, told, records>>

EndProbe(r) ==
  /\ Step(r, "probe", "register")
  /\ UNCHANGED <<port, told, records>>

(* Mutant: the client is told its port before the request is recorded.     *)
Register_Late(r) ==
  /\ Step(r, "register", "tell")
  /\ told' = [told EXCEPT ![r] = TRUE]
  /\ UNCHANGED <<port, records>>

Register(r) ==
  /\ Step(r, "register", "tell")
  /\ ledger' = ledger \cup {r}
  /\ UNCHANGED <<port, told, forgotten>>

(* The ledger has changed nothing, or lost everything (PendingTransfers).  *)
LedgerFails ==
  /\ Faults
  /\ ledger' \in {ledger, {}}

(* It is logged, and the transfer goes on.                                 *)
RegisterFails(r) ==
  /\ Step(r, "register", "tell")
  /\ LedgerFails
  /\ forgotten' = forgotten \cup {r} \cup (ledger \ ledger')
  /\ UNCHANGED <<port, told>>

Tell(r) ==
  /\ Step(r, "tell", IF kind[r] = "other" THEN "end" ELSE "bind")
  /\ told' = [told EXCEPT ![r] = TRUE]
  /\ UNCHANGED <<port, records>>

(* The client has gone: send raises in a thread whose entry stays.         *)
TellFails(r) ==
  /\ Step(r, "tell", "dead")
  /\ UNCHANGED <<port, told, records>>

(* A second socket on the port is refused: the thread ends, the entry      *)
(* stays, and the client finds someone else's transfer, or none.           *)
Bind(r) ==
  /\ Step(r, "bind", IF TakenForTransfer(port[r]) THEN "dead" ELSE "serve")
  /\ UNCHANGED <<port, told, records>>

(* send_data returns early, and leaves the entry.                          *)
Missing(r) ==
  /\ kind[r] = "download"
  /\ Step(r, "bind", "end")
  /\ UNCHANGED <<port, told, records>>

(* receive_data and send_data end, or their thread dies before that.       *)
Serve(r) ==
  /\ \E next \in {"unregister", "dead"} : Step(r, "serve", next)
  /\ UNCHANGED <<port, told, records>>

Unregister(r) ==
  /\ Step(r, "unregister", "end")
  /\ ledger' = ledger \ {r}
  /\ UNCHANGED <<port, told, forgotten>>

UnregisterFails(r) ==
  /\ Step(r, "unregister", "end")
  /\ LedgerFails
  /\ forgotten' = forgotten \cup (ledger \ ledger')
  /\ UNCHANGED <<port, told>>

-----------------------------------------------------------------------------
(* A crash at any moment, and the next start.                              *)

(* The file may be empty while a call rewrites it.                         *)
Crash ==
  /\ Faults
  /\ listener # "down"
  /\ listener' = "down"
  /\ backlog' = <<>> /\ conn' = <<>>
  /\ worker' = [r \in Requests |-> IF worker[r] \in {"none", "end"} THEN worker[r] ELSE "gone"]
  /\ ledger' \in {ledger} \cup
       {{} : r \in {q \in Requests : worker[q] \in {"register", "unregister"}}}
  /\ forgotten' = forgotten \cup (ledger \ ledger')
  /\ UNCHANGED <<kind, sent, port, told>>

(* Mutant: only the first entry is resumed.                                *)
Recover_One ==
  /\ listener = "down"
  /\ listener' = "accept"
  /\ \E first \in ledger \cup {NoPort} :
       /\ ledger # {} => first \in ledger
       /\ worker' = [r \in Requests |-> IF r = first THEN "bind" ELSE worker[r]]
  /\ UNCHANGED <<kind, clients, port, told, records>>

(* resume_pending: a thread for each entry, with the port it had; run then *)
(* starts the listener and does not wait for these threads.                *)
Recover ==
  /\ listener = "down"
  /\ listener' = "accept"
  /\ worker' = [r \in Requests |->
                  IF r \in ledger THEN IF kind[r] = "other" THEN "end" ELSE "bind"
                                  ELSE worker[r]]
  /\ UNCHANGED <<kind, clients, port, told, records>>

-----------------------------------------------------------------------------

Listen == Accept \/ Dispatch \/ Choke

(* What a thread does by itself: neither a client nor a peer can keep it   *)
(* from doing it.                                                          *)
Work(r) ==
  \/ Audit(r) \/ Draw(r) \/ DrawRaises(r) \/ EndProbe(r) \/ Register(r) \/ RegisterFails(r)
  \/ Tell(r) \/ TellFails(r) \/ Bind(r) \/ Missing(r)
  \/ Unregister(r) \/ UnregisterFails(r)

Next ==
  \/ Accept \/ Dispatch \/ Choke \/ Crash \/ Recover
  \/ \E r \in Requests :
       \/ Connect(r) \/ SendRequest(r) \/ SendGarbage(r)
       \/ Audit(r) \/ Draw(r) \/ DrawRaises(r)
       \/ EndProbe(r) \/ Register(r) \/ RegisterFails(r)
       \/ Tell(r) \/ TellFails(r) \/ Bind(r) \/ Missing(r) \/ Serve(r)
       \/ Unregister(r) \/ UnregisterFails(r)

Spec == Init /\ [][Next]_vars

(* Threads run and a process that died is started again.  A transfer need  *)
(* not end: it may wait for its peer for ever.                             *)
FairSpec ==
  /\ Spec
  /\ WF_vars(Listen) /\ WF_vars(Recover)
  /\ \A r \in Requests : WF_vars(Work(r))

-----------------------------------------------------------------------------

TypeOK ==
  /\ kind \in [Requests -> Kinds]
  /\ listener \in {"accept", "recv", "dead", "down"}
  /\ backlog \in Seq(Requests) /\ Len(backlog) <= Backlog /\ conn \in Seq(Requests)
  /\ listener = "recv" <=> conn # <<>>
  /\ sent \in [Requests -> {"nothing", "request", "garbage"}]
  /\ worker \in [Requests -> HasPort \cup {"none", "hash", "draw", "unregister",
                                           "end", "dead", "gone"}]
  /\ port \in [Requests -> Ports \cup {NoPort}]
  /\ told \in [Requests -> BOOLEAN]
  /\ ledger \subseteq Requests /\ forgotten \subseteq Requests

(* A client that was told a port has an entry in the ledger until its      *)
(* transfer has ended, through crashes, restarts and threads that die,     *)
(* unless the disk has failed it.                                          *)
AcceptedIsPending ==
  \A r \in Requests : told[r] /\ worker[r] # "end" => r \in ledger \cup forgotten

(* What makes it so.  A request is in the listener's hands once, and not   *)
(* dispatched before.                                                      *)
WaitsOnce ==
  /\ listener = "down" => backlog = <<>>
  /\ listener = "recv" => Len(conn) = 1
  /\ \A i \in 1 .. Len(backlog) :
       /\ worker[backlog[i]] = "none"
       /\ conn # <<>> => backlog[i] # conn[1]
       /\ \A j \in 1 .. Len(backlog) : backlog[i] = backlog[j] => i = j
  /\ conn # <<>> => worker[conn[1]] = "none"

(* No client is told a port before register has returned.                  *)
ToldIsRecorded ==
  \A r \in Requests :
    /\ worker[r] \in {"none", "hash", "draw", "probe", "register"} => ~told[r]
    /\ worker[r] \in {"tell", "bind", "serve", "unregister"} => r \in ledger \cup forgotten

(* The inductive invariant.                                                *)
IInv == TypeOK /\ WaitsOnce /\ ToldIsRecorded /\ AcceptedIsPending

Contended(r) ==
  \E q \in Requests \ {r} : port[q] = port[r] /\ worker[q] \in HasPort

(* A client that was told a port finds its transfer there, after any       *)
(* number of crashes, unless its entry was lost or another was given the   *)
(* same port.                                                              *)
ToldIsServed ==
  <>[][~Crash]_vars =>
    \A r \in Requests :
      told[r] /\ worker[r] \in {"bind", "gone"}
        ~> worker[r] \in {"serve", "end"} \/ Contended(r) \/ r \in forgotten

(* Every connection is read in its turn, however long the transfers of     *)
(* others wait for their peers, if clients send what they connect for.     *)
RequestsAnswered ==
  WF_vars(\E r \in Requests : SendRequest(r)) =>
    \A r \in Requests :
      Connected(r) ~> worker[r] # "none" \/ listener \in {"dead", "down"}
=============================================================================
