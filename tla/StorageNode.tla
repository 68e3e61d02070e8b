----------------------------- MODULE StorageNode -----------------------------
(***************************************************************************)
(* src/storage_node.py: the start of a node, up to the threads that run    *)
(* for ever, and its session with the backend after that.  The steps are   *)
(* those of NodeBootstrapper, PortScanner, NetworkResolver and             *)
(* ConfigFileManager (node_utilities.py), AuthenticationPrompt             *)
(* (startup_interface.py), NetworkWatcher.check_once and CommandListener   *)
(* (service_workers.py), NetworkChangeHandler                              *)
(* (request_dispatcher.py) and CoordinationClient (backend_client.py); the *)
(* backend is DummyBackend, the routers are Gateways.                      *)
(*                                                                         *)
(* The process may die at any step and be started again; what survives is  *)
(* the directory Cache.  Addresses change, ports are taken, and the        *)
(* backend forgets, at most MaxEvents times in all, and there are as many  *)
(* sessions as there are Tokens.                                           *)
(*                                                                         *)
(* A handler of the backend that is past its first look has only its lock  *)
(* to wait for: it ends before its client's timeout, and before a process  *)
(* that is started again logs in.                                          *)
(***************************************************************************)
EXTENDS DummyBackend, Gateways

CONSTANTS Lans,         \* addresses the node's interface may have
          Wans,         \* public addresses that it may have
          NoIp,         \* none: None, or ""
          NoFile, Empty, \* what config.txt may be, if it is not written
          Closed,       \* the listener has no socket
          StartingPort, \* config.starting_port
          MaxEvents     \* bound on what goes wrong

ASSUME IpAssumption == Lans \cup Wans \cup {NoIp} = Ips /\ NoIp \notin Lans \cup Wans
ASSUME PortAssumption == StartingPort \in Ports /\ Ports \subseteq Nat /\ OpenPorts = Ports
ASSUME FileAssumption ==
  NoFile # Empty /\ {NoFile, Empty, Closed} \cap [ip : Lans, port : Ports] = {}
ASSUME EventAssumption == MaxEvents \in Nat

VARIABLES
  mode,        \* "local", "hosted" or "router": config.local and .hosted
  sameRoutes,  \* do client and backend name the same routes?
  cache,       \* Cache: "none", "dir", or with connections.txt in it
  config,      \* Cache/config.txt: NoFile, Empty, or what it says
  pc,          \* where initialize and run are
  candidate,   \* of find_available_port
  localIp, primary, publicIp,   \* NodeConfig
  token,       \* of CoordinationClient
  reported,    \* the last update_connection was taken
  confirmed,   \* shards whose done_uploading was, since the login
  listener,    \* the listener's socket: Closed, or where it is bound
  forwarded,   \* what the last forward_port has returned
  lan, wan,    \* the addresses the node has in fact
  busy,        \* ports that other programs have taken
  events       \* how many things have gone wrong

setting == <<mode, sameRoutes>>
store == <<cache, config>>
network == <<localIp, primary, publicIp>>
session == <<token, reported, confirmed>>
routers == <<gateway, mapped, forwarded>>
world == <<lan, wan, busy>>
vars == <<setting, store, pc, candidate, network, session, listener, routers,
          world, events, backend>>

Init ==
  /\ mode \in {"local", "hosted", "router"}
  /\ sameRoutes \in BOOLEAN
  /\ cache = "none" /\ config = NoFile
  /\ pc = "dirs" /\ candidate = StartingPort
  /\ localIp = NoIp /\ primary = StartingPort /\ publicIp = NoIp
  /\ token = NoToken /\ reported = FALSE /\ confirmed = {}
  /\ listener = Closed
  /\ lan \in Lans \cup {NoIp} /\ wan \in Wans /\ busy = {} /\ events = 0
  /\ forwarded = FALSE
  /\ InitGateways /\ InitBackend
  /\ mode = "local" => \A g \in Routers : gateway[g] = "other"   \* not asked

Online == lan # NoIp
NothingInside == moving = {} /\ storing = {}

(* A bound: who has a session may only die while there is a token for the  *)
(* next one.                                                               *)
SessionLeft == token # NoToken => issued # Tokens

GoTo(from, to) ==
  /\ pc = from
  /\ pc' = to
  /\ UNCHANGED <<setting, world, events>>

SomethingHappens ==
  /\ events < MaxEvents
  /\ events' = events + 1

-----------------------------------------------------------------------------
(* NodeBootstrapper.setup_first_run.                                       *)

(* Mutant: mkdir without a look whether the directory is there.            *)
MakeCache_Again ==
  /\ IF cache = "none" THEN GoTo("dirs", "connections") /\ cache' = "dir"
                       ELSE GoTo("dirs", "dead") /\ UNCHANGED cache
  /\ UNCHANGED <<config, candidate, network, session, listener, routers, backend>>

(* initialize_directories does nothing if Cache exists, whatever is in it. *)
MakeCache ==
  /\ IF cache = "none" THEN GoTo("dirs", "connections") /\ cache' = "dir"
                       ELSE GoTo("dirs", "config") /\ UNCHANGED cache
  /\ UNCHANGED <<config, candidate, network, session, listener, routers, backend>>

MakeConnections ==
  /\ GoTo("connections", "config")
  /\ cache' = "connections"
  /\ UNCHANGED <<config, candidate, network, session, listener, routers, backend>>

FindConfig ==
  /\ IF config = NoFile THEN GoTo("config", "scan") /\ localIp' = lan
                        ELSE GoTo("config", "public") /\ UNCHANGED localIp
  /\ UNCHANGED <<store, candidate, primary, publicIp, session, listener, routers, backend>>

(* In the modes that use no router nobody is asked.                        *)
Forward(port) ==
  IF mode = "router"
    THEN \E urls \in Answers(Online) : ForwardPort(urls, port, FALSE, forwarded')
    ELSE UNCHANGED routers

Asked == IF mode = "router" THEN Answers(Online) ELSE {FallbackPaths}

InUse(port, urls) == port \in busy \/ (mode = "router" /\ IsPortOpen(urls, port))

(* find_available_port(is_primary=True), one candidate at a time; it is    *)
(* not followed past the largest port.                                     *)
ScanNext(from) ==
  /\ GoTo(from, from)
  /\ \E urls \in Asked : InUse(candidate, urls)
  /\ candidate + 1 \in Ports
  /\ candidate' = candidate + 1
  /\ UNCHANGED <<store, network, session, listener, routers, backend>>

(* Mutant: the port that is forwarded is the one that was given up.        *)
ScanEnds_ForwardsOld(from, to) ==
  /\ GoTo(from, to)
  /\ \E urls \in Asked : ~InUse(candidate, urls)
  /\ primary' = candidate
  /\ candidate' = StartingPort
  /\ Forward(primary)
  /\ UNCHANGED <<store, localIp, publicIp, session, listener, backend>>

ScanEnds(from, to) ==
  /\ GoTo(from, to)
  /\ \E urls \in Asked : ~InUse(candidate, urls)
  /\ primary' = candidate
  /\ candidate' = StartingPort
  /\ Forward(candidate)
  /\ UNCHANGED <<store, localIp, publicIp, session, listener, backend>>

(* Where routers are asked: in the search for a port, and to forward one.  *)
AsksRouters ==
  \/ mode = "router" /\ pc \in {"scan", "rescan"}
  \/ mode = "router" /\ pc = "verify" /\ primary \notin busy
  \/ mode # "local" /\ pc = "checklocal" /\ lan \notin {NoIp, localIp}

(* No network, or a profile that cannot be parsed: nothing catches what    *)
(* the search raises, and the process ends.                                *)
SearchRaises ==
  /\ AsksRouters /\ MayRaise(Online) /\ SessionLeft
  /\ GoTo(pc, "dead")
  /\ candidate' = StartingPort
  /\ UNCHANGED <<store, network, session, listener, routers, backend>>

(* Mutant: what is written is formatted, so that it need not be a string.  *)
OpenConfig_AnyIp(from, to) ==
  /\ GoTo(from, to)
  /\ config' = Empty
  /\ UNCHANGED <<cache, candidate, network, session, listener, routers, backend>>

(* write_config opens the file, which empties it, and then adds "\n" to    *)
(* local_ip: without an address this raises, and the file stays empty.     *)
OpenConfig(from, to) ==
  /\ GoTo(from, IF localIp = NoIp THEN "dead" ELSE to)
  /\ config' = Empty
  /\ UNCHANGED <<cache, candidate, network, session, listener, routers, backend>>

FillConfig(from, to) ==
  /\ GoTo(from, to)
  /\ config' = [ip |-> localIp, port |-> primary]
  /\ UNCHANGED <<cache, candidate, network, session, listener, routers, backend>>

FetchPublicIp ==
  /\ GoTo("public", "login")
  /\ publicIp' \in IF mode = "local" \/ ~Online THEN {publicIp} ELSE {publicIp, wan}
  /\ UNCHANGED <<store, candidate, localIp, primary, session, listener, routers, backend>>

-----------------------------------------------------------------------------
(* AuthenticationPrompt.run and CoordinationClient.login.                  *)

Login ==
  /\ GoTo("login", "read")
  /\ sameRoutes
  /\ issued # Tokens
  /\ token' = CHOOSE t \in Tokens : t \notin issued
  /\ Signin(token')
  /\ UNCHANGED <<store, candidate, network, reported, confirmed, listener, routers>>

(* Any status but 200: with credentials from the command line the process  *)
(* exits, otherwise the user is asked again.                               *)
LoginRefused ==
  /\ \E next \in {"login", "dead"} : GoTo("login", next)
  /\ ~sameRoutes
  /\ UNCHANGED <<store, candidate, network, session, listener, routers, backend>>

(* NetworkError is caught by nobody; a wrong password is refused.          *)
LoginFails ==
  /\ pc = "login" /\ SomethingHappens
  /\ pc' = "dead"
  /\ UNCHANGED <<setting, store, candidate, network, session, listener, routers, world, backend>>

-----------------------------------------------------------------------------
(* The rest of StorageNode.initialize.                                     *)

(* An empty file has no first line.                                        *)
ReadConfig ==
  /\ IF config = Empty
       THEN GoTo("read", "dead") /\ UNCHANGED <<localIp, primary>>
       ELSE GoTo("read", "checkpublic") /\ localIp' = config.ip /\ primary' = config.port
  /\ UNCHANGED <<store, candidate, publicIp, session, listener, routers, backend>>

(* update_connection: the backend lets the request in ...                  *)
Reporting(from, ip, port) ==
  /\ GoTo(from, from)
  /\ sameRoutes /\ moving = {}
  /\ UpdateConnectionEnters(token, [ip |-> ip, port |-> port])
  /\ UNCHANGED <<store, candidate, network, session, listener, routers>>

(* ... and answers.  Whatever it answers, or if its answer is lost, the    *)
(* caller goes on ...                                                      *)
Reported(from, to) ==
  /\ GoTo(from, to)
  /\ \E call \in moving, status \in {200, 500} :
       /\ UpdateConnection(call[1], call[2], status)
       /\ reported' \in {status = 200, FALSE}
  /\ UNCHANGED <<store, candidate, network, token, confirmed, listener, routers>>

(* ... as it does if the request is refused, finds no route or is lost.    *)
Unreported(from, to) ==
  /\ GoTo(from, to)
  /\ moving = {}
  /\ reported' = FALSE
  /\ UNCHANGED <<store, candidate, network, token, confirmed, listener, routers, backend>>

(* check_once reports a new public address with the port of the file.      *)
CheckPublicIp ==
  /\ GoTo("checkpublic", "newip")
  /\ Online /\ mode # "local" /\ wan # publicIp
  /\ publicIp' = wan
  /\ UNCHANGED <<store, candidate, localIp, primary, session, listener, routers, backend>>

ReportNewIp == Reporting("newip", publicIp, primary)

(* Local, nothing new, or the public address cannot be found.              *)
KeepPublicIp ==
  /\ GoTo("checkpublic", "checklocal")
  /\ UNCHANGED <<store, candidate, network, session, listener, routers, backend>>

(* on_local_ip_changed looks at config.local only, not at hosted.          *)
CheckLocalIp ==
  /\ GoTo("checklocal", "rewrite")
  /\ lan \notin {NoIp, localIp}
  /\ localIp' = lan
  /\ IF mode = "local" THEN UNCHANGED routers
     ELSE \E urls \in Answers(Online) : ForwardPort(urls, primary, FALSE, forwarded')
  /\ UNCHANGED <<store, candidate, primary, publicIp, session, listener, backend>>

KeepLocalIp ==
  /\ GoTo("checklocal", "publish")
  /\ lan \in {NoIp, localIp}
  /\ UNCHANGED <<store, candidate, network, session, listener, routers, backend>>

PublishLocalIp ==
  /\ GoTo("publish", "verify")
  /\ publicIp' = IF mode = "local" THEN localIp ELSE publicIp
  /\ UNCHANGED <<store, candidate, localIp, primary, session, listener, routers, backend>>

(* verify_primary_port: a port that is found now is not written down.      *)
VerifyPort ==
  /\ IF primary \in busy THEN GoTo("verify", "rescan") /\ UNCHANGED routers
                         ELSE GoTo("verify", "report") /\ Forward(primary)
  /\ UNCHANGED <<store, candidate, network, session, listener, backend>>

(* Mutant: the port that is reported is read from the file.                *)
Report_FromFile == Reporting("report", publicIp, config.port)

Report == Reporting("report", publicIp, primary)

-----------------------------------------------------------------------------
(* StorageNode.run.  resume_pending, before it, is in Transfers.           *)

(* A bind that fails ends the listener's thread, and no other.             *)
Listen ==
  /\ GoTo("listen", "running")
  /\ listener' = IF localIp = lan /\ primary \notin busy
                   THEN [ip |-> localIp, port |-> primary] ELSE Closed
  /\ UNCHANGED <<store, candidate, network, session, routers, backend>>

(* From the thread of an upload; whatever comes of it is ignored.          *)
DoneUploading(s) ==
  /\ GoTo("running", "running")
  /\ sameRoutes
  /\ ShardDoneEnters(token, s)
  /\ UNCHANGED <<store, candidate, network, session, listener, routers>>

DoneTaken(s) ==
  /\ GoTo("running", "running")
  /\ \E status \in {200, 500} :
       /\ ShardDone(token, s, status)
       /\ confirmed' = IF status = 200 THEN confirmed \cup {s} ELSE confirmed
  /\ UNCHANGED <<store, candidate, network, token, reported, listener, routers>>

-----------------------------------------------------------------------------
(* What happens around it.                                                 *)

Crash ==
  /\ pc # "dead" /\ SessionLeft /\ SomethingHappens
  /\ pc' = "dead"
  /\ candidate' = StartingPort
  /\ UNCHANGED <<setting, store, network, session, listener, routers, world, backend>>

(* What a process that died has asked for is done without it.              *)
Orphaned ==
  /\ pc = "dead"
  /\ \E t \in Tokens, status \in {200, 500} :
       \/ \E s \in Shards : ShardDone(t, s, status)
       \/ \E call \in moving : UpdateConnection(t, call[2], status)
  /\ UNCHANGED <<setting, store, pc, candidate, network, session, listener, routers,
                 world, events>>

Restart ==
  /\ GoTo("dead", "dirs")
  /\ NothingInside
  /\ localIp' = NoIp /\ primary' = StartingPort /\ publicIp' = NoIp
  /\ token' = NoToken /\ reported' = FALSE /\ confirmed' = {}
  /\ listener' = Closed /\ forwarded' = FALSE
  /\ UNCHANGED <<store, candidate, gateway, mapped, backend>>

Moves ==
  /\ SomethingHappens
  /\ lan' \in Lans \cup {NoIp} /\ wan' \in Wans
  /\ UNCHANGED <<setting, store, pc, candidate, network, session, listener, routers,
                 busy, backend>>

PortTaken ==
  /\ SomethingHappens
  /\ \E p \in Ports : /\ listener # Closed => listener.port # p
                      /\ busy' = {p}
  /\ UNCHANGED <<setting, store, pc, candidate, network, session, listener, routers,
                 lan, wan, backend>>

BackendForgets ==
  /\ SomethingHappens
  /\ Reset
  /\ UNCHANGED <<setting, store, pc, candidate, network, session, listener, routers, world>>

-----------------------------------------------------------------------------

Scanning ==
  \/ ScanNext("scan") \/ ScanEnds("scan", "write")
  \/ ScanNext("rescan") \/ ScanEnds("rescan", "report")

Writing ==
  \/ OpenConfig("write", "fill") \/ FillConfig("fill", "public")
  \/ OpenConfig("rewrite", "refill") \/ FillConfig("refill", "publish")

Boot ==
  \/ MakeCache \/ MakeConnections \/ FindConfig \/ Scanning \/ Writing
  \/ FetchPublicIp \/ Login \/ LoginRefused \/ ReadConfig
  \/ CheckPublicIp \/ ReportNewIp \/ Reported("newip", "checklocal")
  \/ Unreported("newip", "checklocal") \/ KeepPublicIp \/ CheckLocalIp \/ KeepLocalIp \/ PublishLocalIp
  \/ VerifyPort \/ Report \/ Reported("report", "listen") \/ Unreported("report", "listen")
  \/ Listen

Next ==
  \/ Boot \/ SearchRaises \/ LoginFails
  \/ \E s \in Shards : DoneUploading(s) \/ DoneTaken(s)
  \/ Orphaned \/ Crash \/ Restart \/ Moves \/ PortTaken \/ BackendForgets

Spec == Init /\ [][Next]_vars

(* The process runs, the backend answers whom it let in, and a process     *)
(* that has ended is started again.                                        *)
FairSpec == Spec /\ WF_vars(Boot) /\ WF_vars(Orphaned) /\ WF_vars(Restart)

-----------------------------------------------------------------------------

Places == {"dirs", "connections", "config", "scan", "write", "fill", "public", "login",
           "read", "checkpublic", "newip", "checklocal", "rewrite", "refill", "publish",
           "verify", "rescan", "report", "listen", "running", "dead"}

StartTyped ==
  /\ mode \in {"local", "hosted", "router"} /\ sameRoutes \in BOOLEAN
  /\ pc \in Places /\ candidate \in Ports

StoreTyped ==
  /\ cache \in {"none", "dir", "connections"}
  /\ config \in [ip : Lans, port : Ports] \cup {NoFile, Empty}

NetworkTyped ==
  /\ primary \in Ports /\ localIp \in Lans \cup {NoIp} /\ publicIp \in Ips
  /\ listener \in [ip : Lans, port : Ports] \cup {Closed}
  /\ forwarded \in BOOLEAN

SessionTyped ==
  token \in Tokens \cup {NoToken} /\ reported \in BOOLEAN /\ confirmed \subseteq Shards

WorldTyped ==
  /\ lan \in Lans \cup {NoIp} /\ wan \in Wans /\ busy \subseteq Ports
  /\ events \in 0 .. MaxEvents

TypeOK ==
  /\ StartTyped /\ StoreTyped /\ NetworkTyped /\ SessionTyped /\ WorldTyped
  /\ GatewaysTyped /\ TablesTyped

(* The address that the backend gives to peers is the one the listener is  *)
(* bound to, if the last report was taken and not forgotten: although the  *)
(* port may move after it was read from the file, and be reported twice.   *)
ReportedIsServed ==
  pc = "running" /\ listener # Closed /\ reported /\ token \in hosts =>
    /\ address[token] = [ip |-> publicIp, port |-> listener.port]
    /\ mode = "local" => publicIp = listener.ip

(* Once a gateway has agreed to it, the port that the node listens on is   *)
(* the one that is forwarded.                                              *)
ServedIsForwarded ==
  mode = "router" /\ listener # Closed /\ forwarded =>
    \E g \in Routers : listener.port \in mapped[g]

(* What the node has confirmed in this session it is asked to keep: it is  *)
(* among its active contracts, whoever confirmed it before.                *)
ConfirmedIsListed == token \in hosts => confirmed \subseteq ActiveContracts(token)

(* Nothing that the search for routers meets makes it raise, as far as the *)
(* mode asks them at every start.                                          *)
RoutersTolerable ==
  /\ mode = "router" => Online
  /\ mode # "local" => \A g \in Routers : gateway[g] # "malformed"

(* Wherever the process dies, the node is up again in the end, unless its  *)
(* config.txt was left empty, or the search for routers raises for ever.   *)
StartsAgain ==
  sameRoutes /\ <>[]RoutersTolerable => <>[](pc = "running" \/ config = Empty)

(* What makes these inductive.  Past the file the node has an address.     *)
FileIsRead ==
  /\ pc \in {"public", "login", "read"} => config # NoFile
  /\ pc \in {"fill", "checkpublic", "newip", "checklocal", "rewrite", "refill", "publish",
             "verify", "rescan", "report", "listen"} => localIp # NoIp

(* The port is settled before the report, and the listener takes the same. *)
ReportIsSettled ==
  /\ mode = "local" /\ pc \in {"verify", "rescan", "report", "listen", "running"} =>
       publicIp = localIp
  /\ pc \in {"listen", "running"} /\ reported /\ token \in hosts =>
       address[token] = [ip |-> publicIp, port |-> primary]
  /\ pc = "running" /\ listener # Closed => listener = [ip |-> localIp, port |-> primary]

(* The last answer of a gateway is about the port that will be bound.      *)
ForwardIsSettled ==
  /\ mode = "router" /\ pc \in {"report", "listen"} /\ forwarded =>
       \E g \in Routers : primary \in mapped[g]
  /\ listener # Closed => pc \in {"running", "dead"}

(* What the backend is still busy with is what this session has asked for, *)
(* and a report is of the address the node has settled on.                 *)
CallsAreMine ==
  /\ moving # {} => pc \in {"newip", "report", "dead"}
  /\ pc \in {"newip", "report"} =>
       moving \subseteq {<<token, [ip |-> publicIp, port |-> primary]>>}
  /\ storing # {} => pc \in {"running", "dead"}
  /\ storing \subseteq {token} \X Shards

(* A session begins with nothing confirmed.                                *)
ConfirmsInSession == confirmed # {} => pc \in {"running", "dead"}

IInv ==
  /\ TypeOK /\ FileIsRead /\ ReportIsSettled
  /\ CallsAreMine /\ ConfirmsInSession /\ ConfirmedIsListed

(* A login that is refused leads nowhere: where a node can be without one. *)
BeforeLogin ==
  pc \in {"dirs", "connections", "config", "scan", "write", "fill", "public", "login", "dead"}

(* A config.txt that was emptied, and not filled before the process died.  *)
LostConfig ==
  config = Empty /\ pc \in {"dead", "dirs", "connections", "config", "public", "login", "read"}
=============================================================================
