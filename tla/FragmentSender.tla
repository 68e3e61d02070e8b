--------------------------- MODULE FragmentSender ---------------------------
(***************************************************************************)
(* src/chunk_transfer.py, FragmentSender: the thread that serves a stored  *)
(* shard to a downloader, over a ZeroMQ PAIR socket.                       *)
(*                                                                         *)
(* The host binds, sends "start" and then the file, one "data" frame for   *)
(* each frame it receives in return, whatever that frame is, and "END".    *)
(* A transfer that is not new, and one that lost its connection, waits     *)
(* after "start" for the offset from which the downloader wants to go on.  *)
(* A connection is given up and made again once.                           *)
(*                                                                         *)
(* Units, chunks and frames are those of FragmentReceiver.  The downloader *)
(* is external: it follows src/mock-server/test_send_request.py, and comes *)
(* back on a new socket, with the offset this class asks for, when it has  *)
(* lost its connection or receives what it does not expect.                *)
(***************************************************************************)
EXTENDS Naturals, Sequences, SequencesExt

CONSTANTS ShardLength,  \* units in the file
          ChunkSize,    \* config.chunk_size
          Unreliable,   \* may the network break, and timeouts expire?
          Faults        \* may the disk fail, the file be removed and the
                        \* host process crash?

ASSUME LengthAssumption == ShardLength \in Nat
ASSUME ChunkAssumption == ChunkSize \in Nat \ {0}
ASSUME SwitchAssumption == Unreliable \in BOOLEAN /\ Faults \in BOOLEAN

VARIABLES
  pc,           \* where send_data is
  isNew,        \* is_new_transfer
  reconnected,  \* _attempt_reconnect has been called
  offset,       \* where the chunk at hand begins
  linked,       \* the shard's path names the file
  inLedger,     \* the ledger holds the request
  bound,        \* the host's socket exists and is bound
  attached,     \* the two sockets are connected
  toHost,       \* frames on their way to the host, or in its socket
  toPeer,       \* frames on their way to the downloader, or in its socket
  peer,         \* what the downloader does
  fresh,        \* this is its first connection: it sends no offset
  got,          \* how many units it has received
  good          \* how many of them, from the first on, are the shard's

host == <<pc, isNew, reconnected, offset>>
disk == <<linked, inLedger>>
wire == <<bound, attached, toHost, toPeer>>
downloader == <<peer, fresh, got, good>>
vars == <<host, disk, wire, downloader>>

Frame == [type: {"start", "resume", "ACK", "data", "END"}, from: Nat, to: Nat]

Start == [type |-> "start", from |-> 0, to |-> 0]
Resume(n) == [type |-> "resume", from |-> n, to |-> n]
ACK == [type |-> "ACK", from |-> 0, to |-> 0]
Data(from, to) == [type |-> "data", from |-> from, to |-> to]
END == [type |-> "END", from |-> 0, to |-> 0]

Init ==
  /\ pc = "check" /\ isNew = TRUE /\ reconnected = FALSE /\ offset = 0
  /\ linked \in BOOLEAN /\ inLedger = TRUE
  /\ bound = FALSE /\ attached = FALSE /\ toHost = <<>> /\ toPeer = <<>>
  /\ peer = "closed" /\ fresh = TRUE /\ got = 0 /\ good = 0

-----------------------------------------------------------------------------
(* The wire.                                                               *)

Attach ==
  /\ bound /\ ~attached /\ toHost = <<>>
  /\ peer = "start" /\ toPeer = <<>>
  /\ attached' = TRUE
  /\ UNCHANGED <<host, disk, bound, toHost, toPeer, downloader>>

(* What had arrived at either end can still be received there.             *)
Break ==
  /\ Unreliable
  /\ attached
  /\ attached' = FALSE
  /\ toHost' \in Prefixes(toHost)
  /\ toPeer' \in Prefixes(toPeer)
  /\ UNCHANGED <<host, disk, bound, downloader>>

(* A socket that is closed still sends what it was given to send, unless   *)
(* the network breaks.                                                     *)
Disconnect ==
  /\ attached' = FALSE
  /\ toHost' = <<>>
  /\ toPeer' \in IF Unreliable /\ attached THEN Prefixes(toPeer) ELSE {toPeer}

CloseSocket == bound' = FALSE /\ Disconnect

HostSends(frame) ==
  /\ attached
  /\ toPeer' = Append(toPeer, frame)
  /\ UNCHANGED <<bound, attached, toHost>>

HostReceives ==
  /\ toHost # <<>>
  /\ toHost' = Tail(toHost)
  /\ UNCHANGED <<bound, attached, toPeer>>

-----------------------------------------------------------------------------
(* send_data, up to the first chunk.                                       *)

(* An exception that nothing catches ends the thread.                      *)
Die ==
  /\ pc' = "dead"
  /\ CloseSocket
  /\ UNCHANGED <<isNew, reconnected, offset, disk, downloader>>

(* The early return keeps the entry in the ledger, and the port.           *)
Check ==
  /\ pc = "check"
  /\ pc' = IF linked THEN "bind" ELSE "end"
  /\ UNCHANGED <<isNew, reconnected, offset, disk, wire, downloader>>

Bind ==
  /\ pc = "bind"
  /\ bound' = TRUE
  /\ pc' = "start"
  /\ UNCHANGED <<isNew, reconnected, offset, disk, attached, toHost, toPeer, downloader>>

BindFails == Unreliable /\ pc = "bind" /\ Die

EmitStart ==
  /\ pc = "start"
  /\ HostSends(Start)
  /\ pc' = "open"
  /\ UNCHANGED <<isNew, reconnected, offset, disk, downloader>>

(* Mutant: every transfer waits for an offset.                             *)
Open_Negotiates ==
  /\ pc = "open" /\ linked
  /\ offset' = 0
  /\ pc' = "negotiate"
  /\ UNCHANGED <<isNew, reconnected, disk, wire, downloader>>

Open ==
  /\ pc = "open" /\ linked
  /\ offset' = 0
  /\ pc' = IF isNew THEN "read" ELSE "negotiate"
  /\ UNCHANGED <<isNew, reconnected, disk, wire, downloader>>

OpenFails ==
  /\ pc = "open"
  /\ ~linked \/ Faults
  /\ Die

(* Mutant: the file position is left where it is.                          *)
Seek_Forgotten(next) ==
  /\ pc' = next
  /\ UNCHANGED offset

Seek(next) ==
  /\ offset' = Head(toHost).from
  /\ pc' = next

(* There is no timeout yet.  A frame without an offset raises KeyError.    *)
Negotiate ==
  /\ pc = "negotiate"
  /\ IF toHost # <<>> /\ Head(toHost).type # "resume"
       THEN Die
       ELSE /\ HostReceives
            /\ Seek("read")
            /\ UNCHANGED <<isNew, reconnected, disk, downloader>>

-----------------------------------------------------------------------------
(* _transmit_chunks.                                                       *)

ChunkEnd == IF offset + ChunkSize < ShardLength THEN offset + ChunkSize ELSE ShardLength

Chunk == IF offset < ShardLength THEN "send" ELSE "finish"

(* The first read is outside the try.                                      *)
Read ==
  /\ pc = "read"
  /\ pc' = Chunk
  /\ UNCHANGED <<isNew, reconnected, offset, disk, wire, downloader>>

ReadFails == Faults /\ pc = "read" /\ Die

SendChunk ==
  /\ pc = "send"
  /\ HostSends(Data(offset, ChunkEnd))
  /\ pc' = "ack"
  /\ UNCHANGED <<isNew, reconnected, offset, disk, downloader>>

(* Mutant: the position is advanced by a chunk, also at the end.           *)
ReceiveAck_WholeChunk ==
  /\ pc = "ack"
  /\ HostReceives
  /\ offset' = offset + ChunkSize
  /\ pc' = IF offset' < ShardLength THEN "send" ELSE "finish"
  /\ UNCHANGED <<isNew, reconnected, disk, downloader>>

(* The frame is decoded and not looked at.                                 *)
ReceiveAck ==
  /\ pc = "ack"
  /\ HostReceives
  /\ offset' = ChunkEnd
  /\ pc' = Chunk'
  /\ UNCHANGED <<isNew, reconnected, disk, downloader>>

(* recv or send raises zmq.Again after chunk_timeout, or a later read      *)
(* fails.                                                                  *)
ChunkFails ==
  /\ \/ Unreliable /\ pc = "send" /\ ~attached
     \/ Unreliable /\ pc = "ack" /\ toHost = <<>>
     \/ Faults /\ pc = "ack" /\ toHost # <<>>
  /\ pc' = "lost"
  /\ UNCHANGED <<isNew, reconnected, offset, disk, wire, downloader>>

-----------------------------------------------------------------------------
(* _attempt_reconnect: once per call of send_data, and every exception     *)
(* ends it.                                                                *)

(* Mutant: it reconnects as often as the connection is lost.               *)
Reset_Always ==
  /\ pc = "lost"
  /\ Disconnect
  /\ pc' = "restart"
  /\ UNCHANGED <<isNew, reconnected, offset, disk, bound, downloader>>

Reset ==
  /\ pc = "lost" /\ ~reconnected
  /\ reconnected' = TRUE
  /\ Disconnect
  /\ pc' = "restart"
  /\ UNCHANGED <<isNew, offset, disk, bound, downloader>>

(* The port may still be taken by the socket just closed.                  *)
ResetFails ==
  /\ Unreliable
  /\ pc = "lost" /\ ~reconnected
  /\ reconnected' = TRUE
  /\ CloseSocket
  /\ pc' = "close"
  /\ UNCHANGED <<isNew, offset, disk, downloader>>

(* Mutant: END is sent whether or not everything was.                      *)
GiveUp_SendsEnd ==
  /\ pc = "lost" /\ reconnected
  /\ pc' = "finish"
  /\ UNCHANGED <<isNew, reconnected, offset, disk, wire, downloader>>

GiveUp ==
  /\ pc = "lost" /\ reconnected
  /\ pc' = "close"
  /\ UNCHANGED <<isNew, reconnected, offset, disk, wire, downloader>>

EmitStartAgain ==
  /\ pc = "restart"
  /\ HostSends(Start)
  /\ pc' = "offset"
  /\ UNCHANGED <<isNew, reconnected, offset, disk, downloader>>

NegotiateAgain ==
  /\ pc = "offset"
  /\ HostReceives
  /\ IF Head(toHost).type = "resume" THEN Seek("read")
                                     ELSE pc' = "close" /\ UNCHANGED offset
  /\ UNCHANGED <<isNew, reconnected, disk, downloader>>

(* After disconnected_timeout.                                             *)
ReconnectTimesOut ==
  /\ Unreliable
  /\ \/ pc = "restart" /\ ~attached
     \/ pc = "offset" /\ toHost = <<>>
  /\ pc' = "close"
  /\ UNCHANGED <<isNew, reconnected, offset, disk, wire, downloader>>

-----------------------------------------------------------------------------
(* The end of send_data.                                                   *)

SendEnd ==
  /\ pc = "finish"
  /\ HostSends(END)
  /\ pc' = "close"
  /\ UNCHANGED <<isNew, reconnected, offset, disk, downloader>>

(* The send of END is in no try: without a peer the thread ends before it  *)
(* unregisters.                                                            *)
SendEndTimesOut ==
  /\ Unreliable
  /\ pc = "finish" /\ ~attached
  /\ Die

Close ==
  /\ pc = "close"
  /\ CloseSocket
  /\ pc' = "unregister"
  /\ UNCHANGED <<isNew, reconnected, offset, disk, downloader>>

Unregister ==
  /\ pc = "unregister"
  /\ inLedger' = FALSE \/ (Faults /\ UNCHANGED inLedger)
  /\ pc' = "end"
  /\ UNCHANGED <<isNew, reconnected, offset, linked, wire, downloader>>

-----------------------------------------------------------------------------
(* Around it: the enforcer may remove the file, and the process may die    *)
(* and be started again, with what the ledger holds.                       *)

Unlink ==
  /\ Faults
  /\ linked
  /\ linked' = FALSE
  /\ UNCHANGED <<host, inLedger, wire, downloader>>

Crash ==
  /\ Faults
  /\ pc # "down"
  /\ pc' = "down"
  /\ CloseSocket
  /\ UNCHANGED <<isNew, reconnected, offset, disk, downloader>>

Recover ==
  /\ pc = "down"
  /\ pc' = IF inLedger THEN "check" ELSE "end"
  /\ isNew' = FALSE
  /\ reconnected' = FALSE
  /\ UNCHANGED <<offset, disk, wire, downloader>>

-----------------------------------------------------------------------------
(* The downloader (external).                                              *)

PeerConnects ==
  /\ peer = "closed"
  /\ peer' = "start"
  /\ UNCHANGED <<host, disk, wire, fresh, got, good>>

PeerReads(type) ==
  /\ toPeer # <<>> /\ Head(toPeer).type = type
  /\ toPeer' = Tail(toPeer)
  /\ UNCHANGED <<host, disk, bound, attached>>

PeerSends(frame) == toHost' = IF attached THEN Append(toHost, frame) ELSE toHost

PeerStarts ==
  /\ peer = "start"
  /\ PeerReads("start")
  /\ peer' = "data"
  /\ IF fresh THEN UNCHANGED toHost ELSE PeerSends(Resume(got))
  /\ UNCHANGED <<fresh, got, good>>

PeerReceives ==
  /\ peer = "data"
  /\ PeerReads("data")
  /\ PeerSends(ACK)
  /\ got' = got + (Head(toPeer).to - Head(toPeer).from)
  /\ good' = IF good = got /\ Head(toPeer).from = got THEN Head(toPeer).to ELSE good
  /\ UNCHANGED <<peer, fresh>>

PeerFinishes ==
  /\ peer = "data"
  /\ PeerReads("END")
  /\ peer' = "done"
  /\ UNCHANGED <<toHost, fresh, got, good>>

PeerGivesUp ==
  /\ peer \in {"start", "data"}
  /\ \/ Unreliable
     \/ peer = "start" /\ toPeer # <<>> /\ Head(toPeer).type # "start"
  /\ peer' = "closed"
  /\ fresh' = FALSE
  /\ attached' = FALSE
  /\ toPeer' = <<>>
  /\ toHost' \in IF attached THEN Prefixes(toHost) ELSE {toHost}
  /\ UNCHANGED <<host, disk, bound, got, good>>

-----------------------------------------------------------------------------

Host ==
  \/ Check \/ Bind \/ BindFails \/ EmitStart \/ Open \/ OpenFails \/ Negotiate
  \/ Read \/ ReadFails \/ SendChunk \/ ReceiveAck \/ ChunkFails
  \/ Reset \/ ResetFails \/ GiveUp \/ EmitStartAgain \/ NegotiateAgain \/ ReconnectTimesOut
  \/ SendEnd \/ SendEndTimesOut \/ Close \/ Unregister

Peer == Attach \/ PeerConnects \/ PeerStarts \/ PeerReceives \/ PeerFinishes

Next == Host \/ Peer \/ Break \/ PeerGivesUp \/ Unlink \/ Crash \/ Recover

Spec == Init /\ [][Next]_vars

(* The host's thread runs, and its timeouts expire.                        *)
HostFairSpec == Spec /\ WF_vars(Host)

-----------------------------------------------------------------------------

TypeOK ==
  /\ pc \in {"check", "bind", "start", "open", "negotiate", "read", "send", "ack",
             "lost", "restart", "offset", "finish", "close", "unregister",
             "end", "dead", "down"}
  /\ isNew \in BOOLEAN /\ reconnected \in BOOLEAN /\ linked \in BOOLEAN
  /\ inLedger \in BOOLEAN /\ bound \in BOOLEAN /\ attached \in BOOLEAN /\ fresh \in BOOLEAN
  /\ offset \in 0 .. ShardLength
  /\ toHost \in Seq(Frame) /\ toPeer \in Seq(Frame)
  /\ peer \in {"closed", "start", "data", "done"}
  /\ got \in Nat /\ good \in 0 .. got

(* What the downloader has put together is always a prefix of the shard,   *)
(* although the host takes any frame for an acknowledgement, and may be a  *)
(* chunk ahead of it.                                                      *)
AssembledIsPrefix == good = got /\ got <= ShardLength

(* The thread ends once it has begun to send: neither a downloader that is *)
(* gone nor one that keeps coming back holds it for ever.                  *)
SendReturns == pc = "send" ~> pc \in {"end", "dead", "down"}

(* Something has gone wrong that is not the host's doing: there is no file *)
(* to serve, a connection was lost, a timeout has expired, or the disk or  *)
(* the process has failed.                                                 *)
Disturbed ==
  \/ ~linked \/ pc \in {"lost", "dead", "down"} \/ ~fresh
  \/ bound /\ ~attached /\ pc \notin {"bind", "start"}
  \/ pc = "end" /\ inLedger
  \/ pc = "unregister" /\ peer # "done" /\ ~Contains(toPeer, END)   \* END was lost

(* A download that nothing disturbs ends with the whole shard at the       *)
(* downloader, and leaves the ledger, if the downloader does its part and  *)
(* the connection stays in the end.                                        *)
DownloadCompletes ==
  WF_vars(Peer) /\ <>[][~Break]_vars =>
    <>(Disturbed \/ (peer = "done" /\ got = ShardLength /\ ~inLedger /\ pc = "end"))

Download == INSTANCE TransferPromise
  WITH stored <- good,
       status <- IF peer = "done" THEN "confirmed" ELSE "open"

(* Serving a shard is letting a prefix of it grow at the downloader, and   *)
(* END reaches it only when it has everything.                             *)
Promise == Download!Spec

-----------------------------------------------------------------------------
(* The inductive invariant.                                                *)

(* The downloader has been greeted on this connection, or will be by the   *)
(* first frame that it reads: what comes after that is added to its copy.  *)
Greeted ==
  \/ peer = "data"
  \/ peer = "start" /\ toPeer # <<>> /\ toPeer[1].type = "start"

(* How many units the downloader has when it comes to frame i.             *)
Before(i) == IF i = 1 \/ toPeer[i - 1].type = "start" THEN got ELSE toPeer[i - 1].to

(* How many it has when it has read all frames.                            *)
Sent == Before(Len(toPeer) + 1)

(* What a frame can be, wherever it is.                                    *)
FramesInv ==
  /\ \A i \in DOMAIN toHost : toHost[i].from <= ShardLength
  /\ \A i \in DOMAIN toPeer :
       \/ toPeer[i].type = "start" /\ i = 1 /\ peer = "start"
       \/ toPeer[i].type = "data" /\ toPeer[i].from < toPeer[i].to /\ toPeer[i].to <= ShardLength
       \/ toPeer[i].type = "END" /\ i = Len(toPeer)

(* Each frame begins where the one before it ends, and END is after all.   *)
StreamInv ==
  /\ good = got /\ got <= ShardLength
  /\ peer = "closed" => toPeer = <<>>
  /\ peer = "done" => got = ShardLength
  /\ Greeted => \A i \in DOMAIN toPeer :
       /\ toPeer[i].type = "data" => toPeer[i].from = Before(i)
       /\ toPeer[i].type = "END" => Before(i) = ShardLength

(* Nothing of the shard has been sent yet.                                 *)
NothingSent == \A i \in DOMAIN toPeer : toPeer[i].type = "start"

(* The host goes on where the stream ends, if it is still talking to the   *)
(* downloader that it greeted; before it does, all that this one says is   *)
(* where its copy ends.                                                    *)
PositionInv ==
  /\ pc \in {"send", "ack"} => offset < ShardLength
  /\ pc = "finish" => offset = ShardLength
  /\ isNew /\ pc \in {"check", "bind", "start", "open"} => got = 0 /\ NothingSent
  /\ attached /\ Greeted =>
       /\ pc \in {"read", "send", "finish"} => Sent = offset
       /\ pc = "ack" => Sent = ChunkEnd
       /\ pc \in {"open", "negotiate", "offset"} =>
            NothingSent /\ \A i \in DOMAIN toHost : toHost[i].from = got

(* A connection that is made while the host is about to greet is clean,    *)
(* and END is the last that the host says on it.                           *)
ConnectionInv ==
  /\ attached => bound /\ peer # "closed"
  /\ pc \in {"check", "bind", "unregister", "end", "dead", "down"} => ~bound
  /\ attached /\ pc \in {"start", "restart"} =>
       peer = "start" /\ toPeer = <<>> /\ toHost = <<>>
  /\ attached /\ (\E i \in DOMAIN toPeer : toPeer[i].type = "END") => pc = "close"

IInv == TypeOK /\ FramesInv /\ StreamInv /\ PositionInv /\ ConnectionInv
=============================================================================
