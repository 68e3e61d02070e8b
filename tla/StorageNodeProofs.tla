-------------------------- MODULE StorageNodeProofs --------------------------
(***************************************************************************)
(* Proofs about StorageNode, for any addresses, ports, routers, shards and *)
(* tokens, and any number of crashes, moves and losses of the backend:     *)
(* MaxEvents may be any number.                                            *)
(***************************************************************************)
EXTENDS StorageNode, TLAPS

LEMMA InitInv == Init => IInv
<1> SUFFICES ASSUME Init PROVE IInv
  OBVIOUS
<1> USE DEF Init, InitGateways, InitBackend
<1>1. StartTyped /\ StoreTyped
  BY PortAssumption DEF StartTyped, StoreTyped, Places
<1>2. NetworkTyped /\ SessionTyped
  BY IpAssumption, PortAssumption DEF NetworkTyped, SessionTyped
<1>3. WorldTyped
  BY EventAssumption DEF WorldTyped
<1>4. GatewaysTyped /\ TablesTyped
  BY DEF GatewaysTyped, TablesTyped
<1>5. FileIsRead /\ ReportIsSettled
  BY DEF FileIsRead, ReportIsSettled
<1>6. CallsAreMine /\ ConfirmsInSession /\ ConfirmedIsListed
  BY DEF CallsAreMine, ConfirmsInSession, ConfirmedIsListed
<1> QED
  BY <1>1, <1>2, <1>3, <1>4, <1>5, <1>6 DEF IInv, TypeOK

LEMMA MakeCacheStep ==
  ASSUME IInv, MakeCache
  PROVE  IInv'
<1> USE DEF MakeCache, IInv, GoTo, setting, world, store, network, session,
            routers, backend, tables, inside
<1>1. TypeOK'
  <2>1. StartTyped' /\ StoreTyped'
    BY DEF TypeOK, StartTyped, Places, StoreTyped
  <2>2. NetworkTyped'
    BY DEF TypeOK, NetworkTyped
  <2>3. SessionTyped' /\ WorldTyped'
    BY DEF TypeOK, SessionTyped, WorldTyped
  <2>4. GatewaysTyped'
    BY DEF TypeOK, GatewaysTyped
  <2>5. TablesTyped'
    BY DEF TypeOK, TablesTyped
  <2> QED
    BY <2>1, <2>2, <2>3, <2>4, <2>5 DEF TypeOK
<1>2. FileIsRead'
  BY DEF FileIsRead
<1>3. ReportIsSettled'
  BY DEF ReportIsSettled
<1>4. CallsAreMine' /\ ConfirmsInSession' /\ ConfirmedIsListed'
  BY DEF CallsAreMine, ConfirmsInSession, ConfirmedIsListed
<1> QED
  BY <1>1, <1>2, <1>3, <1>4

LEMMA MakeConnectionsStep ==
  ASSUME IInv, MakeConnections
  PROVE  IInv'
<1> USE DEF MakeConnections, IInv, GoTo, setting, world, store, network,
            session, routers, backend, tables, inside
<1>1. TypeOK'
  BY DEF TypeOK, StartTyped, StoreTyped, NetworkTyped, SessionTyped, WorldTyped,
     GatewaysTyped, TablesTyped, Places
<1>2. FileIsRead'
  BY DEF FileIsRead
<1>3. ReportIsSettled'
  BY DEF ReportIsSettled
<1>4. CallsAreMine' /\ ConfirmsInSession' /\ ConfirmedIsListed'
  BY DEF CallsAreMine, ConfirmsInSession, ConfirmedIsListed
<1> QED
  BY <1>1, <1>2, <1>3, <1>4

LEMMA FindConfigStep ==
  ASSUME IInv, FindConfig
  PROVE  IInv'
<1> USE DEF FindConfig, IInv, GoTo, setting, world, store, network, session,
            routers, backend, tables, inside
<1>1. TypeOK'
  <2>1. StartTyped' /\ StoreTyped'
    BY DEF TypeOK, StartTyped, Places, StoreTyped
  <2>2. NetworkTyped'
    BY DEF TypeOK, NetworkTyped, WorldTyped
  <2>3. SessionTyped' /\ WorldTyped'
    BY DEF TypeOK, SessionTyped, WorldTyped
  <2>4. GatewaysTyped'
    BY DEF TypeOK, GatewaysTyped
  <2>5. TablesTyped'
    BY DEF TypeOK, TablesTyped
  <2> QED
    BY <2>1, <2>2, <2>3, <2>4, <2>5 DEF TypeOK
<1>2. FileIsRead'
  BY DEF FileIsRead
<1>3. ReportIsSettled'
  BY DEF ReportIsSettled
<1>4. CallsAreMine' /\ ConfirmsInSession' /\ ConfirmedIsListed'
  BY DEF CallsAreMine, ConfirmsInSession, ConfirmedIsListed
<1> QED
  BY <1>1, <1>2, <1>3, <1>4

LEMMA ScanNextStep ==
  ASSUME IInv, NEW from \in {"scan", "rescan"}, ScanNext(from)
  PROVE  IInv'
<1> USE DEF ScanNext, IInv, GoTo, setting, world, store, network, session,
            routers, backend, tables, inside
<1>1. TypeOK'
  BY DEF TypeOK, StartTyped, StoreTyped, NetworkTyped, SessionTyped, WorldTyped,
     GatewaysTyped, TablesTyped
<1>2. FileIsRead'
  BY DEF FileIsRead
<1>3. ReportIsSettled'
  BY DEF ReportIsSettled
<1>4. CallsAreMine' /\ ConfirmsInSession' /\ ConfirmedIsListed'
  BY DEF CallsAreMine, ConfirmsInSession, ConfirmedIsListed
<1> QED
  BY <1>1, <1>2, <1>3, <1>4

LEMMA ScanEndsStep ==
  ASSUME IInv, ScanEnds("scan", "write") \/ ScanEnds("rescan", "report")
  PROVE  IInv'
<1> USE DEF ScanEnds, Forward, ForwardPort, Accepting, IInv, GoTo, setting,
            world, store, network, session, routers, backend, tables, inside
<1>1. TypeOK'
  <2>1. StartTyped' /\ StoreTyped'
    BY PortAssumption DEF TypeOK, StartTyped, Places, StoreTyped
  <2>2. NetworkTyped'
    <3>1. UNCHANGED <<localIp, publicIp, listener>> /\ primary' \in Ports
      BY DEF TypeOK, StartTyped
    <3>2. forwarded' \in BOOLEAN
      BY DEF TypeOK, NetworkTyped
    <3> QED
      BY <3>1, <3>2 DEF TypeOK, NetworkTyped
  <2>3. SessionTyped' /\ WorldTyped'
    BY DEF TypeOK, SessionTyped, WorldTyped
  <2>4. GatewaysTyped'
    BY PortAssumption DEF TypeOK, GatewaysTyped, StartTyped
  <2>5. TablesTyped'
    BY DEF TypeOK, TablesTyped
  <2> QED
    BY <2>1, <2>2, <2>3, <2>4, <2>5 DEF TypeOK
<1>2. FileIsRead'
  BY DEF FileIsRead
<1>3. ReportIsSettled'
  BY DEF ReportIsSettled
<1>4. CallsAreMine' /\ ConfirmsInSession' /\ ConfirmedIsListed'
  BY DEF CallsAreMine, ConfirmsInSession, ConfirmedIsListed
<1> QED
  BY <1>1, <1>2, <1>3, <1>4

LEMMA OpenConfigStep ==
  ASSUME IInv, OpenConfig("write", "fill") \/ OpenConfig("rewrite", "refill")
  PROVE  IInv'
<1> USE DEF OpenConfig, IInv, GoTo, setting, world, store, network, session,
            routers, backend, tables, inside
<1>1. TypeOK'
  BY DEF TypeOK, StartTyped, StoreTyped, NetworkTyped, SessionTyped, WorldTyped,
     GatewaysTyped, TablesTyped, Places
<1>2. FileIsRead'
  BY DEF FileIsRead
<1>3. ReportIsSettled'
  BY DEF ReportIsSettled
<1>4. CallsAreMine' /\ ConfirmsInSession' /\ ConfirmedIsListed'
  BY DEF CallsAreMine, ConfirmsInSession, ConfirmedIsListed
<1> QED
  BY <1>1, <1>2, <1>3, <1>4

LEMMA FillConfigStep ==
  ASSUME IInv, FillConfig("fill", "public") \/ FillConfig("refill", "publish")
  PROVE  IInv'
<1> USE DEF FillConfig, IInv, GoTo, setting, world, store, network, session,
            routers, backend, tables, inside
<1>1. TypeOK'
  <2>1. StartTyped' /\ StoreTyped'
    BY DEF TypeOK, StartTyped, Places, StoreTyped, NetworkTyped, FileIsRead
  <2>2. NetworkTyped'
    BY DEF TypeOK, NetworkTyped
  <2>3. SessionTyped' /\ WorldTyped'
    BY DEF TypeOK, SessionTyped, WorldTyped
  <2>4. GatewaysTyped'
    BY DEF TypeOK, GatewaysTyped
  <2>5. TablesTyped'
    BY DEF TypeOK, TablesTyped
  <2> QED
    BY <2>1, <2>2, <2>3, <2>4, <2>5 DEF TypeOK
<1>2. FileIsRead'
  BY FileAssumption DEF TypeOK, NetworkTyped, FileIsRead
<1>3. ReportIsSettled'
  BY DEF ReportIsSettled
<1>4. CallsAreMine' /\ ConfirmsInSession' /\ ConfirmedIsListed'
  BY DEF CallsAreMine, ConfirmsInSession, ConfirmedIsListed
<1> QED
  BY <1>1, <1>2, <1>3, <1>4

LEMMA FetchPublicIpStep ==
  ASSUME IInv, FetchPublicIp
  PROVE  IInv'
<1> USE DEF FetchPublicIp, IInv, GoTo, setting, world, store, network,
            session, routers, backend, tables, inside
<1>1. TypeOK'
  BY IpAssumption DEF TypeOK, StartTyped, StoreTyped, NetworkTyped,
     SessionTyped, WorldTyped, GatewaysTyped, TablesTyped, Places
<1>2. FileIsRead'
  BY DEF FileIsRead
<1>3. ReportIsSettled'
  BY DEF ReportIsSettled
<1>4. CallsAreMine' /\ ConfirmsInSession' /\ ConfirmedIsListed'
  BY DEF CallsAreMine, ConfirmsInSession, ConfirmedIsListed
<1> QED
  BY <1>1, <1>2, <1>3, <1>4

(* A new token is known to the backend, and nothing was confirmed with it. *)
LEMMA LoginStep ==
  ASSUME IInv, Login
  PROVE  IInv'
<1> USE DEF Login, Signin, IInv, GoTo, setting, world, store, network,
            session, routers, backend, tables, inside
<1>1. TypeOK'
  BY DEF TypeOK, StartTyped, StoreTyped, NetworkTyped, SessionTyped, WorldTyped,
     GatewaysTyped, TablesTyped, Places
<1>2. FileIsRead'
  BY DEF FileIsRead
<1>3. ReportIsSettled'
  BY DEF ReportIsSettled
<1>4. CallsAreMine'
  BY DEF CallsAreMine
<1>5. ConfirmsInSession' /\ ConfirmedIsListed'
  BY DEF ConfirmedIsListed, ConfirmsInSession
<1> QED
  BY <1>1, <1>2, <1>3, <1>4, <1>5

LEMMA LoginRefusedStep ==
  ASSUME IInv, LoginRefused
  PROVE  IInv'
<1> USE DEF LoginRefused, IInv, GoTo, setting, world, store, network, session,
            routers, backend, tables, inside
<1>1. TypeOK'
  BY DEF TypeOK, StartTyped, StoreTyped, NetworkTyped, SessionTyped, WorldTyped,
     GatewaysTyped, TablesTyped, Places
<1>2. FileIsRead'
  BY DEF FileIsRead
<1>3. ReportIsSettled'
  BY DEF ReportIsSettled
<1>4. CallsAreMine' /\ ConfirmsInSession' /\ ConfirmedIsListed'
  BY DEF CallsAreMine, ConfirmsInSession, ConfirmedIsListed
<1> QED
  BY <1>1, <1>2, <1>3, <1>4

LEMMA LoginFailsStep ==
  ASSUME IInv, LoginFails
  PROVE  IInv'
<1> USE DEF LoginFails, SomethingHappens, IInv, GoTo, setting, world, store,
            network, session, routers, backend, tables, inside
<1>1. TypeOK'
  BY EventAssumption DEF TypeOK, StartTyped, StoreTyped, NetworkTyped,
     SessionTyped, WorldTyped, GatewaysTyped, TablesTyped, Places
<1>2. FileIsRead'
  BY DEF FileIsRead
<1>3. ReportIsSettled'
  BY DEF ReportIsSettled
<1>4. CallsAreMine' /\ ConfirmsInSession' /\ ConfirmedIsListed'
  BY DEF CallsAreMine, ConfirmsInSession, ConfirmedIsListed
<1> QED
  BY <1>1, <1>2, <1>3, <1>4

(* The file is there: it was found, or has just been written.              *)
LEMMA ReadConfigStep ==
  ASSUME IInv, ReadConfig
  PROVE  IInv'
<1> USE DEF ReadConfig, IInv, GoTo, setting, world, store, network, session,
            routers, backend, tables, inside
<1>1. TypeOK'
  <2>1. StartTyped' /\ StoreTyped'
    BY DEF TypeOK, StartTyped, Places, StoreTyped
  <2>2. NetworkTyped'
    BY DEF TypeOK, NetworkTyped, StoreTyped, FileIsRead
  <2>3. SessionTyped' /\ WorldTyped'
    BY DEF TypeOK, SessionTyped, WorldTyped
  <2>4. GatewaysTyped'
    BY DEF TypeOK, GatewaysTyped
  <2>5. TablesTyped'
    BY DEF TypeOK, TablesTyped
  <2> QED
    BY <2>1, <2>2, <2>3, <2>4, <2>5 DEF TypeOK
<1>2. FileIsRead'
  BY IpAssumption DEF TypeOK, StoreTyped, FileIsRead
<1>3. ReportIsSettled'
  BY DEF ReportIsSettled
<1>4. CallsAreMine' /\ ConfirmsInSession' /\ ConfirmedIsListed'
  BY DEF CallsAreMine, ConfirmsInSession, ConfirmedIsListed
<1> QED
  BY <1>1, <1>2, <1>3, <1>4

LEMMA CheckPublicIpStep ==
  ASSUME IInv, CheckPublicIp
  PROVE  IInv'
<1> USE DEF CheckPublicIp, IInv, GoTo, setting, world, store, network,
            session, routers, backend, tables, inside
<1>1. TypeOK'
  BY IpAssumption DEF TypeOK, StartTyped, StoreTyped, NetworkTyped,
     SessionTyped, WorldTyped, GatewaysTyped, TablesTyped, Places
<1>2. FileIsRead'
  BY DEF FileIsRead
<1>3. ReportIsSettled'
  BY DEF ReportIsSettled
<1>4. CallsAreMine' /\ ConfirmsInSession' /\ ConfirmedIsListed'
  BY DEF CallsAreMine, ConfirmsInSession, ConfirmedIsListed
<1> QED
  BY <1>1, <1>2, <1>3, <1>4

(* The backend is asked about the address that the node has settled on ... *)
LEMMA ReportingStep ==
  ASSUME IInv, ReportNewIp \/ Report
  PROVE  IInv'
<1> DEFINE where == [ip |-> publicIp, port |-> primary]
<1> USE DEF IInv
<1>1. /\ pc \in {"newip", "report"} /\ token \in Tokens /\ where \in [ip : Ips, port : Ports]
      /\ moving = {} /\ moving' = {<<token, where>>}
      /\ UNCHANGED <<pc, setting, world, events, store, candidate, network, session,
                     listener, routers, tables, storing>>
  BY DEF ReportNewIp, Report, Reporting, UpdateConnectionEnters, Authenticated, GoTo, TypeOK,
         TablesTyped, NetworkTyped
<1> USE DEF setting, world, store, network, session, routers, tables
<1>2. TypeOK'
  <2>1. StartTyped' /\ StoreTyped'
    BY <1>1 DEF TypeOK, StartTyped, StoreTyped
  <2>2. NetworkTyped' /\ SessionTyped' /\ WorldTyped' /\ GatewaysTyped'
    BY <1>1 DEF TypeOK, NetworkTyped, SessionTyped, WorldTyped, GatewaysTyped
  <2>3. TablesTyped'
    BY <1>1 DEF TypeOK, TablesTyped
  <2> QED
    BY <2>1, <2>2, <2>3 DEF TypeOK
<1>3. FileIsRead' /\ ReportIsSettled'
  BY <1>1 DEF FileIsRead, ReportIsSettled
<1>4. CallsAreMine' /\ ConfirmsInSession' /\ ConfirmedIsListed'
  BY <1>1 DEF CallsAreMine, ConfirmsInSession, ConfirmedIsListed, ActiveContracts
<1> QED
  BY <1>2, <1>3, <1>4

(* ... and what it has taken is that address: what check_once reports is   *)
(* reported again before the node listens.                                 *)
LEMMA ReportedStep ==
  ASSUME IInv, Reported("newip", "checklocal") \/ Reported("report", "listen")
  PROVE  IInv'
<1> DEFINE where == [ip |-> publicIp, port |-> primary]
<1> USE DEF IInv
<1>1. /\ (pc = "newip" /\ pc' = "checklocal") \/ (pc = "report" /\ pc' = "listen")
      /\ UNCHANGED <<setting, world, events, store, candidate, network, token, confirmed,
                     listener, routers>>
  BY DEF Reported, GoTo
<1>2. PICK call \in moving, status \in {200, 500} :
        UpdateConnection(call[1], call[2], status) /\ reported' \in {status = 200, FALSE}
  BY DEF Reported
<1>3. call = <<token, where>> /\ moving = {<<token, where>>}
  BY <1>1, <1>2 DEF CallsAreMine
<1>4. /\ moving' = {} /\ UNCHANGED <<issued, hosts, owner, storing>>
      /\ address' = IF token \in hosts THEN [address EXCEPT ![token] = where] ELSE address
  BY <1>2, <1>3 DEF UpdateConnection, Authenticated
<1>5. where \in [ip : Ips, port : Ports] /\ reported' \in BOOLEAN
  BY <1>2 DEF TypeOK, NetworkTyped
<1> USE DEF setting, world, store, network, routers
<1>6. TypeOK'
  <2>1. StartTyped' /\ StoreTyped'
    BY <1>1 DEF TypeOK, StartTyped, StoreTyped, Places
  <2>2. NetworkTyped' /\ SessionTyped' /\ WorldTyped' /\ GatewaysTyped'
    BY <1>1, <1>5 DEF TypeOK, NetworkTyped, SessionTyped, WorldTyped, GatewaysTyped
  <2>3. TablesTyped'
    BY <1>1, <1>4, <1>5 DEF TypeOK, TablesTyped
  <2> QED
    BY <2>1, <2>2, <2>3 DEF TypeOK
<1>7. FileIsRead'
  BY <1>1 DEF FileIsRead
<1>8. ReportIsSettled'
  BY <1>1, <1>4 DEF TypeOK, TablesTyped, ReportIsSettled
<1>9. CallsAreMine' /\ ConfirmsInSession' /\ ConfirmedIsListed'
  BY <1>1, <1>4 DEF CallsAreMine, ConfirmsInSession, ConfirmedIsListed, ActiveContracts
<1> QED
  BY <1>6, <1>7, <1>8, <1>9

LEMMA UnreportedStep ==
  ASSUME IInv, Unreported("newip", "checklocal") \/ Unreported("report", "listen")
  PROVE  IInv'
<1> USE DEF Unreported, IInv, GoTo, setting, world, store, network, routers, backend,
            tables, inside
<1>1. TypeOK'
  BY DEF TypeOK, StartTyped, StoreTyped, NetworkTyped, SessionTyped, WorldTyped,
     GatewaysTyped, TablesTyped, Places
<1>2. FileIsRead'
  BY DEF FileIsRead
<1>3. ReportIsSettled'
  BY DEF ReportIsSettled
<1>4. CallsAreMine' /\ ConfirmsInSession' /\ ConfirmedIsListed'
  BY DEF CallsAreMine, ConfirmsInSession, ConfirmedIsListed
<1> QED
  BY <1>1, <1>2, <1>3, <1>4

LEMMA KeepPublicIpStep ==
  ASSUME IInv, KeepPublicIp
  PROVE  IInv'
<1> USE DEF KeepPublicIp, IInv, GoTo, setting, world, store, network, session,
            routers, backend, tables, inside
<1>1. TypeOK'
  BY DEF TypeOK, StartTyped, StoreTyped, NetworkTyped, SessionTyped, WorldTyped,
     GatewaysTyped, TablesTyped, Places
<1>2. FileIsRead'
  BY DEF FileIsRead
<1>3. ReportIsSettled'
  BY DEF ReportIsSettled
<1>4. CallsAreMine' /\ ConfirmsInSession' /\ ConfirmedIsListed'
  BY DEF CallsAreMine, ConfirmsInSession, ConfirmedIsListed
<1> QED
  BY <1>1, <1>2, <1>3, <1>4

LEMMA CheckLocalIpStep ==
  ASSUME IInv, CheckLocalIp
  PROVE  IInv'
<1> USE DEF CheckLocalIp, ForwardPort, Accepting, IInv, GoTo, setting, world,
            store, network, session, routers, backend, tables, inside
<1>1. TypeOK'
  <2>1. StartTyped' /\ StoreTyped'
    BY DEF TypeOK, StartTyped, Places, StoreTyped
  <2>2. NetworkTyped'
    BY DEF TypeOK, NetworkTyped, WorldTyped
  <2>3. SessionTyped' /\ WorldTyped'
    BY DEF TypeOK, SessionTyped, WorldTyped
  <2>4. GatewaysTyped'
    BY PortAssumption DEF TypeOK, GatewaysTyped, NetworkTyped
  <2>5. TablesTyped'
    BY DEF TypeOK, TablesTyped
  <2> QED
    BY <2>1, <2>2, <2>3, <2>4, <2>5 DEF TypeOK
<1>2. FileIsRead'
  BY DEF FileIsRead
<1>3. ReportIsSettled'
  BY DEF ReportIsSettled
<1>4. CallsAreMine' /\ ConfirmsInSession' /\ ConfirmedIsListed'
  BY DEF CallsAreMine, ConfirmsInSession, ConfirmedIsListed
<1> QED
  BY <1>1, <1>2, <1>3, <1>4

LEMMA KeepLocalIpStep ==
  ASSUME IInv, KeepLocalIp
  PROVE  IInv'
<1> USE DEF KeepLocalIp, IInv, GoTo, setting, world, store, network, session,
            routers, backend, tables, inside
<1>1. TypeOK'
  BY DEF TypeOK, StartTyped, StoreTyped, NetworkTyped, SessionTyped, WorldTyped,
     GatewaysTyped, TablesTyped, Places
<1>2. FileIsRead'
  BY DEF FileIsRead
<1>3. ReportIsSettled'
  BY DEF ReportIsSettled
<1>4. CallsAreMine' /\ ConfirmsInSession' /\ ConfirmedIsListed'
  BY DEF CallsAreMine, ConfirmsInSession, ConfirmedIsListed
<1> QED
  BY <1>1, <1>2, <1>3, <1>4

LEMMA PublishLocalIpStep ==
  ASSUME IInv, PublishLocalIp
  PROVE  IInv'
<1> USE DEF PublishLocalIp, IInv, GoTo, setting, world, store, network,
            session, routers, backend, tables, inside
<1>1. TypeOK'
  BY IpAssumption DEF TypeOK, StartTyped, StoreTyped, NetworkTyped,
     SessionTyped, WorldTyped, GatewaysTyped, TablesTyped, Places
<1>2. FileIsRead'
  BY DEF FileIsRead
<1>3. ReportIsSettled'
  BY DEF ReportIsSettled
<1>4. CallsAreMine' /\ ConfirmsInSession' /\ ConfirmedIsListed'
  BY DEF CallsAreMine, ConfirmsInSession, ConfirmedIsListed
<1> QED
  BY <1>1, <1>2, <1>3, <1>4

LEMMA VerifyPortStep ==
  ASSUME IInv, VerifyPort
  PROVE  IInv'
<1> USE DEF VerifyPort, Forward, ForwardPort, Accepting, IInv, GoTo, setting,
            world, store, network, session, routers, backend, tables, inside
<1>1. TypeOK'
  <2>1. StartTyped' /\ StoreTyped'
    BY DEF TypeOK, StartTyped, Places, StoreTyped
  <2>2. NetworkTyped'
    BY DEF TypeOK, NetworkTyped
  <2>3. SessionTyped' /\ WorldTyped'
    BY DEF TypeOK, SessionTyped, WorldTyped
  <2>4. GatewaysTyped'
    BY PortAssumption DEF TypeOK, GatewaysTyped, NetworkTyped
  <2>5. TablesTyped'
    BY DEF TypeOK, TablesTyped
  <2> QED
    BY <2>1, <2>2, <2>3, <2>4, <2>5 DEF TypeOK
<1>2. FileIsRead'
  BY DEF FileIsRead
<1>3. ReportIsSettled'
  BY DEF ReportIsSettled
<1>4. CallsAreMine' /\ ConfirmsInSession' /\ ConfirmedIsListed'
  BY DEF CallsAreMine, ConfirmsInSession, ConfirmedIsListed
<1> QED
  BY <1>1, <1>2, <1>3, <1>4

LEMMA ListenStep ==
  ASSUME IInv, Listen
  PROVE  IInv'
<1> USE DEF Listen, IInv, GoTo, setting, world, store, network, session,
            routers, backend, tables, inside
<1>1. TypeOK'
  BY DEF TypeOK, StartTyped, StoreTyped, NetworkTyped, SessionTyped, WorldTyped,
     GatewaysTyped, TablesTyped, Places, FileIsRead
<1>2. FileIsRead'
  BY DEF FileIsRead
<1>3. ReportIsSettled'
  BY DEF ReportIsSettled
<1>4. CallsAreMine' /\ ConfirmsInSession' /\ ConfirmedIsListed'
  BY DEF CallsAreMine, ConfirmsInSession, ConfirmedIsListed
<1> QED
  BY <1>1, <1>2, <1>3, <1>4

LEMMA DoneUploadingStep ==
  ASSUME IInv, NEW s \in Shards, DoneUploading(s)
  PROVE  IInv'
<1> USE DEF DoneUploading, ShardDoneEnters, Authenticated, IInv, GoTo, setting, world,
            store, network, session, routers, tables
<1>1. TypeOK'
  BY DEF TypeOK, StartTyped, StoreTyped, NetworkTyped, SessionTyped, WorldTyped,
     GatewaysTyped, TablesTyped
<1>2. FileIsRead'
  BY DEF FileIsRead
<1>3. ReportIsSettled'
  BY DEF ReportIsSettled
<1>4. CallsAreMine' /\ ConfirmsInSession' /\ ConfirmedIsListed'
  BY DEF CallsAreMine, ConfirmsInSession, ConfirmedIsListed, ActiveContracts
<1> QED
  BY <1>1, <1>2, <1>3, <1>4

(* The shard is the caller's, whoever had it before.                       *)
LEMMA DoneTakenStep ==
  ASSUME IInv, NEW s \in Shards, DoneTaken(s)
  PROVE  IInv'
<1> USE DEF DoneTaken, ShardDone, IInv, GoTo, setting, world, store, network, session,
            routers, tables
<1>1. TypeOK'
  BY DEF TypeOK, StartTyped, StoreTyped, NetworkTyped, SessionTyped, WorldTyped,
     GatewaysTyped, TablesTyped
<1>2. FileIsRead'
  BY DEF FileIsRead
<1>3. ReportIsSettled'
  BY DEF ReportIsSettled
<1>4. CallsAreMine' /\ ConfirmsInSession'
  BY DEF CallsAreMine, ConfirmsInSession
<1>5. ConfirmedIsListed'
  BY DEF TypeOK, TablesTyped, ConfirmedIsListed, ActiveContracts
<1> QED
  BY <1>1, <1>2, <1>3, <1>4, <1>5

(* What a dead process has asked for was asked with its last token.        *)
LEMMA OrphanedStep ==
  ASSUME IInv, Orphaned
  PROVE  IInv'
<1> USE DEF IInv, setting, store, network, session, routers, world
<1>1. /\ pc = "dead" /\ UNCHANGED <<setting, store, pc, candidate, network, session,
                                      listener, routers, world, events>>
  BY DEF Orphaned
<1>2. PICK t \in Tokens, status \in {200, 500} :
        \/ \E s \in Shards : ShardDone(t, s, status)
        \/ \E call \in moving : UpdateConnection(t, call[2], status)
  BY DEF Orphaned
<1>3. FileIsRead' /\ ReportIsSettled'
  BY <1>1 DEF FileIsRead, ReportIsSettled
<1>4. /\ StartTyped' /\ StoreTyped' /\ NetworkTyped' /\ SessionTyped'
      /\ WorldTyped' /\ GatewaysTyped'
  BY <1>1 DEF TypeOK, StartTyped, StoreTyped, NetworkTyped, SessionTyped, WorldTyped,
              GatewaysTyped
<1>5. CASE \E s \in Shards : ShardDone(t, s, status)
  <2>1. PICK s \in Shards : ShardDone(t, s, status)
    BY <1>5
  <2> USE DEF ShardDone
  <2>2. TablesTyped'
    BY <2>1 DEF TypeOK, TablesTyped
  <2>3. t = token
    BY <2>1 DEF CallsAreMine
  <2>4. CallsAreMine' /\ ConfirmsInSession'
    BY <1>1, <2>1 DEF CallsAreMine, ConfirmsInSession
  <2>5. ConfirmedIsListed'
    BY <1>1, <2>1, <2>3 DEF TypeOK, TablesTyped, ConfirmedIsListed, ActiveContracts
  <2> QED
    BY <1>3, <1>4, <2>2, <2>4, <2>5 DEF TypeOK
<1>6. CASE \E call \in moving : UpdateConnection(t, call[2], status)
  <2>1. PICK call \in moving : UpdateConnection(t, call[2], status)
    BY <1>6
  <2>2. call[2] \in [ip : Ips, port : Ports]
    BY DEF TypeOK, TablesTyped
  <2> USE DEF UpdateConnection
  <2>3. TablesTyped'
    BY <2>1, <2>2 DEF TypeOK, TablesTyped
  <2>4. CallsAreMine' /\ ConfirmsInSession' /\ ConfirmedIsListed'
    BY <1>1, <2>1 DEF CallsAreMine, ConfirmsInSession, ConfirmedIsListed, ActiveContracts
  <2> QED
    BY <1>3, <1>4, <2>3, <2>4 DEF TypeOK
<1> QED
  BY <1>2, <1>5, <1>6

LEMMA SearchRaisesStep ==
  ASSUME IInv, SearchRaises
  PROVE  IInv'
<1> USE DEF SearchRaises, IInv, GoTo, setting, world, store, network, session, routers,
            backend, tables, inside
<1>1. TypeOK'
  BY PortAssumption DEF TypeOK, StartTyped, StoreTyped, NetworkTyped, SessionTyped,
     WorldTyped, GatewaysTyped, TablesTyped, Places
<1>2. FileIsRead'
  BY DEF FileIsRead
<1>3. ReportIsSettled'
  BY DEF ReportIsSettled
<1>4. CallsAreMine' /\ ConfirmsInSession' /\ ConfirmedIsListed'
  BY DEF CallsAreMine, ConfirmsInSession, ConfirmedIsListed, ActiveContracts
<1> QED
  BY <1>1, <1>2, <1>3, <1>4

LEMMA CrashStep ==
  ASSUME IInv, Crash
  PROVE  IInv'
<1> USE DEF Crash, SomethingHappens, IInv, GoTo, setting, world, store,
            network, session, routers, backend, tables, inside
<1>1. TypeOK'
  BY PortAssumption, EventAssumption DEF TypeOK, StartTyped, StoreTyped,
     NetworkTyped, SessionTyped, WorldTyped, GatewaysTyped, TablesTyped, Places
<1>2. FileIsRead'
  BY DEF FileIsRead
<1>3. ReportIsSettled'
  BY DEF ReportIsSettled
<1>4. CallsAreMine' /\ ConfirmsInSession' /\ ConfirmedIsListed'
  BY DEF CallsAreMine, ConfirmsInSession, ConfirmedIsListed, ActiveContracts
<1> QED
  BY <1>1, <1>2, <1>3, <1>4

(* The session of the last process is over.                                *)
LEMMA RestartStep ==
  ASSUME IInv, Restart
  PROVE  IInv'
<1> USE DEF Restart, NothingInside, IInv, GoTo, setting, world, store, network, session,
            routers, backend, tables, inside
<1>1. TypeOK'
  BY IpAssumption, PortAssumption DEF TypeOK, StartTyped, StoreTyped,
     NetworkTyped, SessionTyped, WorldTyped, GatewaysTyped, TablesTyped, Places
<1>2. FileIsRead'
  BY DEF FileIsRead
<1>3. ReportIsSettled'
  BY DEF ReportIsSettled
<1>4. CallsAreMine' /\ ConfirmsInSession' /\ ConfirmedIsListed'
  BY DEF CallsAreMine, ConfirmsInSession, ConfirmedIsListed
<1> QED
  BY <1>1, <1>2, <1>3, <1>4

LEMMA MovesStep ==
  ASSUME IInv, Moves
  PROVE  IInv'
<1> USE DEF Moves, SomethingHappens, IInv, GoTo, setting, world, store,
            network, session, routers, backend, tables, inside
<1>1. TypeOK'
  BY EventAssumption DEF TypeOK, StartTyped, StoreTyped, NetworkTyped,
     SessionTyped, WorldTyped, GatewaysTyped, TablesTyped
<1>2. FileIsRead'
  BY DEF FileIsRead
<1>3. ReportIsSettled'
  BY DEF ReportIsSettled
<1>4. CallsAreMine' /\ ConfirmsInSession' /\ ConfirmedIsListed'
  BY DEF CallsAreMine, ConfirmsInSession, ConfirmedIsListed, ActiveContracts
<1> QED
  BY <1>1, <1>2, <1>3, <1>4

LEMMA PortTakenStep ==
  ASSUME IInv, PortTaken
  PROVE  IInv'
<1> USE DEF PortTaken, SomethingHappens, IInv, GoTo, setting, world, store,
            network, session, routers, backend, tables, inside
<1>1. TypeOK'
  BY EventAssumption DEF TypeOK, StartTyped, StoreTyped, NetworkTyped,
     SessionTyped, WorldTyped, GatewaysTyped, TablesTyped
<1>2. FileIsRead'
  BY DEF FileIsRead
<1>3. ReportIsSettled'
  BY DEF ReportIsSettled
<1>4. CallsAreMine' /\ ConfirmsInSession' /\ ConfirmedIsListed'
  BY DEF CallsAreMine, ConfirmsInSession, ConfirmedIsListed, ActiveContracts
<1> QED
  BY <1>1, <1>2, <1>3, <1>4

(* Whom the backend has forgotten has no shard and no address any more.    *)
LEMMA BackendForgetsStep ==
  ASSUME IInv, BackendForgets
  PROVE  IInv'
<1> USE DEF BackendForgets, SomethingHappens, Reset, IInv, GoTo, setting,
            world, store, network, session, routers, backend, tables, inside
<1>1. TypeOK'
  BY EventAssumption DEF TypeOK, StartTyped, StoreTyped, NetworkTyped,
     SessionTyped, WorldTyped, GatewaysTyped, TablesTyped
<1>2. FileIsRead'
  BY DEF FileIsRead
<1>3. ReportIsSettled'
  BY DEF ReportIsSettled
<1>4. CallsAreMine'
  BY DEF CallsAreMine
<1>5. ConfirmsInSession' /\ ConfirmedIsListed'
  BY DEF ConfirmedIsListed, ConfirmsInSession
<1> QED
  BY <1>1, <1>2, <1>3, <1>4, <1>5

LEMMA BootStep ==
  ASSUME IInv, Boot PROVE IInv'
<1>1. CASE Scanning
  BY <1>1, ScanNextStep, ScanEndsStep DEF Scanning
<1>2. CASE Writing
  BY <1>2, OpenConfigStep, FillConfigStep DEF Writing
<1> QED
  BY <1>1, <1>2, MakeCacheStep, MakeConnectionsStep, FindConfigStep, FetchPublicIpStep,
     LoginStep, LoginRefusedStep, ReadConfigStep, CheckPublicIpStep, KeepPublicIpStep,
     ReportingStep, ReportedStep, UnreportedStep, CheckLocalIpStep, KeepLocalIpStep,
     PublishLocalIpStep, VerifyPortStep, ListenStep DEF Boot

LEMMA StutterStep ==
  ASSUME IInv, UNCHANGED vars PROVE IInv'
<1>1. UNCHANGED <<mode, sameRoutes, cache, config, pc, candidate, localIp, primary,
                  publicIp, token, reported, confirmed, listener, gateway, mapped,
                  forwarded, lan, wan, busy, events, issued, hosts, address, owner,
                  moving, storing>>
  BY DEF vars, setting, store, network, session, routers, world, backend, tables, inside
<1>2. TypeOK'
  BY <1>1 DEF IInv, TypeOK, StartTyped, StoreTyped, NetworkTyped, SessionTyped, WorldTyped,
              GatewaysTyped, TablesTyped
<1>3. FileIsRead' /\ ReportIsSettled'
  BY <1>1 DEF IInv, FileIsRead, ReportIsSettled
<1>4. CallsAreMine' /\ ConfirmsInSession' /\ ConfirmedIsListed'
  BY <1>1 DEF IInv, CallsAreMine, ConfirmsInSession, ConfirmedIsListed, ActiveContracts
<1> QED
  BY <1>2, <1>3, <1>4 DEF IInv

LEMMA StepInv == IInv /\ [Next]_vars => IInv'
BY BootStep, SearchRaisesStep, LoginFailsStep, DoneUploadingStep, DoneTakenStep, OrphanedStep,
   CrashStep, RestartStep, MovesStep, PortTakenStep, BackendForgetsStep, StutterStep DEF Next

LEMMA Invariant == Spec => []IInv
BY InitInv, StepInv, PTL DEF Spec

(* Where a gateway has agreed, it has a mapping of the port afterwards.    *)
LEMMA ForwardMaps ==
  ASSUME NEW urls \in Answers(Online), NEW p, ForwardPort(urls, p, FALSE, forwarded'),
         forwarded'
  PROVE  \E g \in Routers : p \in mapped'[g]
<1> DEFINE accepting == Accepting(urls, p, FALSE)
<1>1. accepting # {} /\ accepting \subseteq Range(urls)
  BY DEF ForwardPort, Accepting
<1>2. Range(urls) \subseteq Routers
  BY DEF Range, Answers, Discoveries, FallbackPaths
<1>3. PICK g \in accepting : g \in Routers
  BY <1>1, <1>2
<1>4. mapped'[g] = mapped[g] \cup {p}
  BY <1>3 DEF ForwardPort
<1> QED
  BY <1>3, <1>4

(* Only a step that is settled with a gateway leads to the report.         *)
LEMMA ForwardStep ==
  ForwardIsSettled /\ ServedIsForwarded /\ [Next]_vars =>
    ForwardIsSettled' /\ ServedIsForwarded'
<1> SUFFICES ASSUME ForwardIsSettled, ServedIsForwarded, [Next]_vars
             PROVE  ForwardIsSettled' /\ ServedIsForwarded'
  OBVIOUS
<1> USE DEF ForwardIsSettled, ServedIsForwarded, GoTo, setting, network, routers
<1>1. CASE VerifyPort \/ ScanEnds("scan", "write") \/ ScanEnds("rescan", "report")
  <2>1. listener' = Closed /\ mode' = mode /\ pc' \in {"rescan", "report", "write"}
    BY <1>1 DEF VerifyPort, ScanEnds
  <2>2. CASE mode = "router" /\ forwarded' /\ pc' = "report"
    <3>1. PICK urls \in Answers(Online) : ForwardPort(urls, primary', FALSE, forwarded')
      BY <1>1, <2>2 DEF VerifyPort, ScanEnds, Forward
    <3> QED
      BY <2>1, <2>2, <3>1, ForwardMaps
  <2> QED
    BY <2>1, <2>2
<1>2. CASE Listen
  BY <1>2 DEF Listen
<1>3. CASE CheckLocalIp \/ Restart
  BY <1>3 DEF CheckLocalIp, Restart
<1> DEFINE Asks == \/ VerifyPort \/ ScanEnds("scan", "write") \/ ScanEnds("rescan", "report")
                   \/ Listen \/ CheckLocalIp \/ Restart
<1> DEFINE Keeps == /\ UNCHANGED <<routers, listener, mode>>
                    /\ pc' \in {"report", "listen"} =>
                         UNCHANGED primary /\ pc \in {"report", "listen"}
                    /\ pc' \notin {"running", "dead"} => pc \notin {"running", "dead"}
<1>4. CASE Keeps
  BY <1>4
<1>5. Asks \/ Keeps
  <2>1. CASE Boot
    <3>1. CASE Scanning
      BY <3>1 DEF Scanning, ScanNext
    <3>2. CASE Writing
      BY <3>2 DEF Writing, OpenConfig, FillConfig
    <3>3. CASE MakeCache \/ MakeConnections \/ FindConfig \/ FetchPublicIp
      BY <3>3 DEF MakeCache, MakeConnections, FindConfig, FetchPublicIp
    <3>4. CASE Login \/ LoginRefused \/ ReadConfig
      BY <3>4 DEF Login, LoginRefused, ReadConfig
    <3>5. CASE CheckPublicIp \/ KeepPublicIp \/ KeepLocalIp \/ PublishLocalIp
      BY <3>5 DEF CheckPublicIp, KeepPublicIp, KeepLocalIp, PublishLocalIp
    <3>6. CASE ReportNewIp \/ Report
      BY <3>6 DEF ReportNewIp, Report, Reporting
    <3>7. CASE Reported("newip", "checklocal") \/ Reported("report", "listen")
      <4> DEFINE Goes(from, to) ==
            /\ GoTo(from, to)
            /\ UNCHANGED <<store, candidate, network, token, confirmed, listener, routers>>
      <4>1. ASSUME NEW from, NEW to, Reported(from, to) PROVE Goes(from, to)
        BY <4>1 DEF Reported
      <4>2. Goes("newip", "checklocal") \/ Goes("report", "listen")
        <5> HIDE DEF Goes
        <5> QED
          BY ONLY <3>7, <4>1
      <4> QED
        BY <4>2
    <3>8. CASE Unreported("newip", "checklocal") \/ Unreported("report", "listen")
      BY <3>8 DEF Unreported
    <3> HIDE DEF Keeps
    <3> QED
      BY <2>1, <3>1, <3>2, <3>3, <3>4, <3>5, <3>6, <3>7, <3>8 DEF Boot
  <2>2. CASE UNCHANGED vars
    BY <2>2 DEF vars
  <2>3. CASE SearchRaises \/ LoginFails \/ Orphaned \/ Crash
    BY <2>3 DEF SearchRaises, LoginFails, Orphaned, Crash
  <2>4. CASE Moves \/ PortTaken \/ BackendForgets
    BY <2>4 DEF Moves, PortTaken, BackendForgets
  <2>5. ASSUME NEW s \in Shards, DoneUploading(s) \/ DoneTaken(s) PROVE Keeps
    BY <2>5 DEF DoneUploading, DoneTaken
  <2> HIDE DEF Keeps
  <2> QED
    BY <2>1, <2>2, <2>3, <2>4, <2>5 DEF Next
<1> QED
  BY <1>1, <1>2, <1>3, <1>4, <1>5

-----------------------------------------------------------------------------

(* The variables have their types in every reachable state: in particular  *)
(* ReadConfig never meets a file that is not there.                        *)
THEOREM TypeCorrect == Spec => []TypeOK
<1>1. IInv => TypeOK
  BY DEF IInv
<1> QED
  BY <1>1, Invariant, PTL

(* storage_node.py:70-83, backend_client.py:138-144: when the listener is  *)
(* bound, the address of the last report that the backend took is the      *)
(* listener's, although the port may have moved since the file was read.   *)
THEOREM ReportIsServed == Spec => []ReportedIsServed
<1>1. IInv => ReportedIsServed
  BY DEF IInv, ReportIsSettled, ReportedIsServed
<1> QED
  BY <1>1, Invariant, PTL

(* backend_client.py:146-161 with dummy_backend.py: a shard that was       *)
(* confirmed in this session is among the contracts that the enforcer is   *)
(* answered, as long as the backend knows the session.                     *)
THEOREM ConfirmedIsKept == Spec => []ConfirmedIsListed
<1>1. IInv => ConfirmedIsListed
  BY DEF IInv
<1> QED
  BY <1>1, Invariant, PTL

(* router_gateway.py:325-358, node_utilities.py:69-76 and 169-186: when    *)
(* the node listens and its last request was accepted, some router         *)
(* forwards the port that it listens on.                                   *)
THEOREM ServedStaysForwarded == Spec => []ServedIsForwarded
<1>1. Init => ForwardIsSettled /\ ServedIsForwarded
  BY DEF Init, ForwardIsSettled, ServedIsForwarded
<1> QED
  BY <1>1, ForwardStep, PTL DEF Spec

-----------------------------------------------------------------------------

(* backend_client.py and dummy_backend.py name different routes: with such *)
(* a backend no login succeeds and the node never runs.                    *)
THEOREM RefusedNeverRuns == Spec => (~sameRoutes => [](pc # "running"))
<1>1. Init => BeforeLogin
  BY DEF Init, BeforeLogin
<1>2. ~sameRoutes /\ BeforeLogin /\ [Next]_vars => ~sameRoutes' /\ BeforeLogin'
  <2> SUFFICES ASSUME ~sameRoutes, BeforeLogin, [Next]_vars
               PROVE  ~sameRoutes' /\ BeforeLogin'
    OBVIOUS
  <2> USE DEF BeforeLogin, GoTo, setting
  <2>1. CASE Boot
    <3>1. CASE Scanning \/ Writing
      BY <3>1 DEF Scanning, ScanNext, ScanEnds, Writing, OpenConfig, FillConfig
    <3>2. CASE MakeCache \/ MakeConnections \/ FindConfig \/ FetchPublicIp
      BY <3>2 DEF MakeCache, MakeConnections, FindConfig, FetchPublicIp
    <3>3. CASE Login \/ LoginRefused \/ ReadConfig
      BY <3>3 DEF Login, LoginRefused, ReadConfig
    <3>4. CASE CheckPublicIp \/ ReportNewIp \/ Reported("newip", "checklocal")
               \/ Unreported("newip", "checklocal") \/ KeepPublicIp \/ CheckLocalIp
               \/ KeepLocalIp \/ PublishLocalIp \/ VerifyPort \/ Report
               \/ Reported("report", "listen") \/ Unreported("report", "listen") \/ Listen
      BY <3>4 DEF CheckPublicIp, ReportNewIp, Reported, Unreported, KeepPublicIp, CheckLocalIp,
         KeepLocalIp, PublishLocalIp, VerifyPort, Report, Reporting, Listen
    <3> QED
      BY <2>1, <3>1, <3>2, <3>3, <3>4 DEF Boot
  <2>2. CASE UNCHANGED vars
    BY <2>2 DEF vars
  <2> QED
    BY <2>1, <2>2 DEF Next, SearchRaises, LoginFails, DoneUploading, DoneTaken, Orphaned, Crash, Restart, Moves, PortTaken,
       BackendForgets
<1>3. BeforeLogin => pc # "running"
  BY DEF BeforeLogin
<1> QED
  BY <1>1, <1>2, <1>3, PTL DEF Spec

(* node_utilities.py:111-114: write_config empties config.txt before it    *)
(* fills it.  Once a process has ended between the two, no later start     *)
(* gets past reading the file, whatever address it finds: none repairs it. *)
THEOREM EmptiedStaysLost == Spec => [][LostConfig => LostConfig']_vars
<1>1. [Next]_vars => [LostConfig => LostConfig']_vars
  <2> SUFFICES ASSUME LostConfig, [Next]_vars
               PROVE  LostConfig'
    OBVIOUS
  <2> USE FileAssumption DEF LostConfig, GoTo, store
  <2>1. CASE Boot
    BY <2>1 DEF Boot, Scanning, ScanNext, ScanEnds, Writing, OpenConfig, FillConfig, MakeCache,
       MakeConnections, FindConfig, FetchPublicIp, Login, LoginRefused, ReadConfig,
       CheckPublicIp, ReportNewIp, Reported, Unreported, KeepPublicIp, CheckLocalIp,
       KeepLocalIp, PublishLocalIp, VerifyPort, Report, Reporting, Listen
  <2>2. CASE UNCHANGED vars
    BY <2>2 DEF vars
  <2> QED
    BY <2>1, <2>2 DEF Next, SearchRaises, LoginFails, DoneUploading, DoneTaken, Orphaned, Crash, Restart, Moves, PortTaken,
       BackendForgets
<1> QED
  BY <1>1, PTL DEF Spec
=============================================================================
