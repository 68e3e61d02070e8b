-------------------------- MODULE FragmentReceiver --------------------------
(***************************************************************************)
(* src/chunk_transfer.py, FragmentReceiver and ZmqSessionManager: the      *)
(* thread that receives one uploaded shard over a ZeroMQ PAIR socket and   *)
(* writes it to disk, with the uploader at the other end.                  *)
(*                                                                         *)
(* The host binds a socket, sends "start" as soon as an uploader is there, *)
(* sends "resume" with the size of the file if it has one, and then        *)
(* acknowledges and appends every "data" frame until "END".  A frame does  *)
(* not say which bytes of the shard it holds: the host appends whatever    *)
(* comes next.  A timeout makes it close the socket, bind a new one and    *)
(* ask the uploader to resume, once; a process that is restarted runs the  *)
(* whole method again for every upload left in the ledger.                 *)
(*                                                                         *)
(* Bytes are abstracted to units 0 .. ShardLength - 1 of the shard, all    *)
(* different, and a file to its size and to how much of it is what it      *)
(* should be.  The uploader is external: it follows the protocol that      *)
(* src/mock-server/test_send_request.py and this class expect of it.       *)
(***************************************************************************)
EXTENDS Naturals, Sequences, SequencesExt

CONSTANTS ShardLength,  \* units in the shard
          Existing,     \* units of it on disk when the upload is requested
          ChunkSize,    \* units the uploader puts in a data frame
          Unreliable,   \* may the network break, and timeouts expire?
          Faults,       \* may the disk fail and the host process crash?
          Reconnects    \* does the uploader's socket reconnect by itself, as
                        \* ZeroMQ's do, and then send what it still holds?

ASSUME LengthAssumption == ShardLength \in Nat
ASSUME ExistingAssumption == Existing \in 0 .. ShardLength
ASSUME ChunkAssumption == ChunkSize \in Nat \ {0}
ASSUME SwitchAssumption == /\ Unreliable \in BOOLEAN
                           /\ Faults \in BOOLEAN
                           /\ Reconnects \in BOOLEAN

VARIABLES
  pc,           \* where receive_data is
  reconnected,  \* _attempt_reconnect has been called
  cur,          \* the frame _receive_chunks is handling
  completed,    \* the local variable of that name
  linked,       \* the shard's path names a file
  size,         \* how many units the host wrote to that file
  good,         \* how many of them, from the first on, are the shard's
  flushed,      \* how many of them have left the buffer of the handle
  confirmed,    \* the backend was told that the shard is uploaded
  inLedger,     \* the ledger holds the request
  bound,        \* the host's socket exists and is bound
  attached,     \* the two sockets are connected
  inbox,        \* frames that reached the host and were not received
  outbox,       \* frames the uploader's socket has not delivered
  toPeer,       \* frames on their way to the uploader, or in its socket
  peer,         \* what the uploader does
  fresh,        \* this is its first connection: it expects no resume frame
  pos           \* the unit after the last one that it sent

file == <<linked, size, good, flushed>>
host == <<pc, reconnected, cur, completed>>
wire == <<bound, attached, inbox, outbox, toPeer>>
uploader == <<peer, fresh, pos>>
vars == <<host, file, confirmed, inLedger, wire, uploader>>

Frame == [type: {"start", "resume", "ACK", "data", "END"}, from: Nat, to: Nat]

Start == [type |-> "start", from |-> 0, to |-> 0]
Resume(offset) == [type |-> "resume", from |-> offset, to |-> offset]
ACK == [type |-> "ACK", from |-> 0, to |-> 0]
Data(from, to) == [type |-> "data", from |-> from, to |-> to]
END == [type |-> "END", from |-> 0, to |-> 0]

Running == {"bind", "start", "open", "append", "recv", "ack", "write", "lost",
            "restart", "offset", "finish", "confirm", "unregister"}

Init ==
  /\ pc = "bind" /\ reconnected = FALSE /\ cur = Start /\ completed = FALSE
  /\ linked \in BOOLEAN /\ (linked <=> Existing > 0)
  /\ size = Existing /\ good = Existing /\ flushed = Existing
  /\ confirmed = FALSE /\ inLedger = TRUE
  /\ bound = FALSE /\ attached = FALSE
  /\ inbox = <<>> /\ outbox = <<>> /\ toPeer = <<>>
  /\ peer = "closed" /\ fresh = TRUE /\ pos = 0

-----------------------------------------------------------------------------
(* The wire: a PAIR socket at each end and one connection between them.    *)

PeerSocket == peer \in {"start", "resume", "ack"} \/ (peer = "done" /\ outbox # <<>>)

(* A PAIR socket takes a new connection only once it has been read empty   *)
(* of what the last one brought.                                           *)
Attach ==
  /\ bound /\ ~attached /\ inbox = <<>>
  /\ PeerSocket
  /\ Reconnects \/ (peer = "start" /\ toPeer = <<>>)
  /\ attached' = TRUE
  /\ UNCHANGED <<host, file, confirmed, inLedger, bound, inbox, outbox, toPeer, uploader>>

Deliver ==
  /\ attached /\ outbox # <<>>
  /\ inbox' = Append(inbox, Head(outbox))
  /\ outbox' = Tail(outbox)
  /\ UNCHANGED <<host, file, confirmed, inLedger, bound, attached, toPeer, uploader>>

(* The connection goes: what was on it, in either direction, may be lost,  *)
(* and what the uploader's socket had not sent stays with it.              *)
Detach ==
  /\ attached' = FALSE
  /\ outbox' \in IF attached THEN Suffixes(outbox) ELSE {outbox}
  /\ toPeer' \in IF attached THEN Prefixes(toPeer) ELSE {toPeer}

Break ==
  /\ Unreliable
  /\ attached
  /\ Detach
  /\ UNCHANGED <<host, file, confirmed, inLedger, bound, inbox, uploader>>

(* session.close(), or the collection of a dead thread's socket.           *)
CloseSocket ==
  /\ bound' = FALSE
  /\ inbox' = <<>>
  /\ Detach

HostSends(frame) ==
  /\ attached
  /\ toPeer' = Append(toPeer, frame)
  /\ UNCHANGED <<bound, attached, inbox, outbox>>

-----------------------------------------------------------------------------
(* receive_data, up to the first data frame.                               *)

(* An exception that nothing catches ends the thread.                      *)
Die ==
  /\ pc' = "dead"
  /\ CloseSocket
  /\ UNCHANGED <<reconnected, cur, completed, file, confirmed, inLedger, uploader>>

Bind ==
  /\ pc = "bind"
  /\ bound' = TRUE
  /\ pc' = "start"
  /\ UNCHANGED <<reconnected, cur, completed, file, confirmed, inLedger,
                 attached, inbox, outbox, toPeer, uploader>>

(* The port is taken; or the data directory, which another upload has made *)
(* since this one looked, cannot be made.                                  *)
BindFails == Unreliable /\ pc = "bind" /\ Die

(* Without a timeout: the send waits until an uploader connects.           *)
EmitStart ==
  /\ pc = "start"
  /\ HostSends(Start)
  /\ pc' = "open"
  /\ UNCHANGED <<reconnected, cur, completed, file, confirmed, inLedger, uploader>>

OpenNew ==
  /\ pc = "open" /\ ~linked
  /\ linked' = TRUE /\ size' = 0 /\ good' = 0 /\ flushed' = 0
  /\ pc' = "recv"
  /\ UNCHANGED <<reconnected, cur, completed, confirmed, inLedger, wire, uploader>>

(* Mutant: a restarted upload is sent again from its first unit.           *)
OpenExisting_Zero ==
  /\ pc = "open" /\ linked
  /\ HostSends(Resume(0))
  /\ pc' = "append"
  /\ UNCHANGED <<reconnected, cur, completed, file, confirmed, inLedger, uploader>>

OpenExisting ==
  /\ pc = "open" /\ linked
  /\ HostSends(Resume(flushed))
  /\ pc' = "append"
  /\ UNCHANGED <<reconnected, cur, completed, file, confirmed, inLedger, uploader>>

(* Mutant: the file is opened with mode "wb".                              *)
OpenToAppend_Truncates ==
  /\ pc = "append"
  /\ linked' = TRUE /\ size' = 0 /\ good' = 0 /\ flushed' = 0
  /\ pc' = "recv"
  /\ UNCHANGED <<reconnected, cur, completed, confirmed, inLedger, wire, uploader>>

(* open(shard_path, "ab") creates the file again if it is gone by now.     *)
OpenToAppend ==
  /\ pc = "append"
  /\ IF linked THEN UNCHANGED file
               ELSE linked' = TRUE /\ size' = 0 /\ good' = 0 /\ flushed' = 0
  /\ pc' = "recv"
  /\ UNCHANGED <<reconnected, cur, completed, confirmed, inLedger, wire, uploader>>

(* Nothing in receive_data catches what open raises.                       *)
OpenFails ==
  /\ Faults
  /\ (pc = "open" /\ ~linked) \/ (pc = "append" /\ ~reconnected)
  /\ Die

(* _attempt_reconnect does: an OSError is a socket.error.                  *)
ReopenFails ==
  /\ Faults
  /\ pc = "append" /\ reconnected
  /\ pc' = "finish"
  /\ UNCHANGED <<reconnected, cur, completed, file, confirmed, inLedger, wire, uploader>>

-----------------------------------------------------------------------------
(* _receive_chunks.                                                        *)

ReceiveData ==
  /\ pc = "recv"
  /\ inbox # <<>> /\ Head(inbox).type = "data"
  /\ cur' = Head(inbox)
  /\ inbox' = Tail(inbox)
  /\ pc' = "ack"
  /\ UNCHANGED <<reconnected, completed, file, confirmed, inLedger,
                 bound, attached, outbox, toPeer, uploader>>

ReceiveEnd ==
  /\ pc = "recv"
  /\ inbox # <<>> /\ Head(inbox).type = "END"
  /\ inbox' = Tail(inbox)
  /\ completed' = TRUE
  /\ pc' = "finish"
  /\ UNCHANGED <<reconnected, cur, file, confirmed, inLedger,
                 bound, attached, outbox, toPeer, uploader>>

(* The acknowledgement goes out before the chunk is written.               *)
SendAck ==
  /\ pc = "ack"
  /\ HostSends(ACK)
  /\ pc' = "write"
  /\ UNCHANGED <<reconnected, cur, completed, file, confirmed, inLedger, uploader>>

(* Mutant: the handle does not stand at the end of the file.               *)
AppendToFile_InPlace(n) ==
  /\ good' = IF good = size /\ cur.from = size THEN good + n ELSE good
  /\ UNCHANGED <<size, flushed, linked>>

(* The first n units of the frame are added to the file.                   *)
AppendToFile(n) ==
  /\ size' = size + n
  /\ good' = IF good = size /\ cur.from = size THEN good + n ELSE good
  /\ flushed' \in flushed .. size'
  /\ UNCHANGED linked

Write ==
  /\ pc = "write"
  /\ AppendToFile(cur.to - cur.from)
  /\ pc' = "recv"
  /\ UNCHANGED <<reconnected, cur, completed, confirmed, inLedger, wire, uploader>>

(* The disk is full: part of the frame may have been written.              *)
WriteFails ==
  /\ Faults
  /\ pc = "write"
  /\ \E n \in 0 .. cur.to - cur.from : AppendToFile(n)
  /\ pc' = "lost"
  /\ UNCHANGED <<reconnected, cur, completed, confirmed, inLedger, wire, uploader>>

(* recv() or the send of an ACK raises zmq.Again after chunk_timeout.      *)
ChunkTimesOut ==
  /\ Unreliable
  /\ \/ pc = "recv" /\ inbox = <<>>
     \/ pc = "ack" /\ ~attached
  /\ pc' = "lost"
  /\ UNCHANGED <<reconnected, cur, completed, file, confirmed, inLedger, wire, uploader>>

-----------------------------------------------------------------------------
(* _attempt_reconnect: once per call of receive_data.                      *)

CloseFile == flushed' = size /\ UNCHANGED <<linked, size, good>>

(* Mutant: the file is still open, and what it buffers not written, when   *)
(* its size is taken.                                                      *)
Reset_LeavesFileOpen ==
  /\ pc = "lost" /\ ~reconnected
  /\ reconnected' = TRUE
  /\ inbox' = <<>>
  /\ Detach
  /\ pc' = "restart"
  /\ UNCHANGED <<cur, completed, file, confirmed, inLedger, bound, uploader>>

(* Mutant: it reconnects as often as the connection is lost.               *)
Reset_Always ==
  /\ pc = "lost"
  /\ CloseFile
  /\ inbox' = <<>>
  /\ Detach
  /\ pc' = "restart"
  /\ UNCHANGED <<reconnected, cur, completed, confirmed, inLedger, bound, uploader>>

(* session.reset() closes the socket and binds a new one at once.          *)
Reset ==
  /\ pc = "lost" /\ ~reconnected
  /\ reconnected' = TRUE
  /\ CloseFile
  /\ inbox' = <<>>
  /\ Detach
  /\ pc' = "restart"
  /\ UNCHANGED <<cur, completed, confirmed, inLedger, bound, uploader>>

(* The old socket is closed in the background: its port may still be taken *)
(* when the new one binds, and ZMQError is not a socket.error.             *)
ResetFails ==
  /\ Unreliable
  /\ pc = "lost" /\ ~reconnected
  /\ CloseFile
  /\ CloseSocket
  /\ pc' = "dead"
  /\ UNCHANGED <<reconnected, cur, completed, confirmed, inLedger, uploader>>

GiveUp ==
  /\ pc = "lost" /\ reconnected
  /\ pc' = "finish"
  /\ UNCHANGED <<reconnected, cur, completed, file, confirmed, inLedger, wire, uploader>>

EmitStartAgain ==
  /\ pc = "restart"
  /\ HostSends(Start)
  /\ pc' = "offset"
  /\ UNCHANGED <<reconnected, cur, completed, file, confirmed, inLedger, uploader>>

(* Mutant: the offset is the position of a handle just opened.             *)
SendOffset_Zero ==
  /\ pc = "offset" /\ linked
  /\ HostSends(Resume(0))
  /\ pc' = "append"
  /\ UNCHANGED <<reconnected, cur, completed, file, confirmed, inLedger, uploader>>

SendOffset ==
  /\ pc = "offset" /\ linked
  /\ HostSends(Resume(flushed))
  /\ pc' = "append"
  /\ UNCHANGED <<reconnected, cur, completed, file, confirmed, inLedger, uploader>>

(* The uploader does not come back within disconnected_timeout, or goes    *)
(* again: zmq.Again is not a socket.error either.                          *)
ReconnectTimesOut ==
  /\ Unreliable
  /\ pc \in {"restart", "offset"} /\ ~attached
  /\ pc = "offset" => linked    \* otherwise see UploadUnderPurge
  /\ Die

-----------------------------------------------------------------------------
(* The end of receive_data.                                                *)

(* Mutant: the backend is told whether or not END was received.            *)
Finish_Unchecked ==
  /\ pc = "finish"
  /\ CloseFile
  /\ CloseSocket
  /\ pc' = "confirm"
  /\ UNCHANGED <<reconnected, cur, completed, confirmed, inLedger, uploader>>

Finish ==
  /\ pc = "finish"
  /\ CloseFile
  /\ CloseSocket
  /\ pc' = IF completed THEN "confirm" ELSE "unregister"
  /\ UNCHANGED <<reconnected, cur, completed, confirmed, inLedger, uploader>>

(* fh.close() cannot write what is left in the buffer, and raises.         *)
CloseFails ==
  /\ Faults
  /\ pc = "finish" \/ (pc = "lost" /\ ~reconnected)
  /\ flushed < size
  /\ Die

DoneUploading ==
  /\ pc = "confirm"
  /\ confirmed' = TRUE
  /\ pc' = "unregister"
  /\ UNCHANGED <<reconnected, cur, completed, file, inLedger, wire, uploader>>

(* The backend cannot be reached: done_uploading returns False, and        *)
(* receive_data goes on as if it had not.                                  *)
DoneUploadingFails ==
  /\ Unreliable
  /\ pc = "confirm"
  /\ pc' = "unregister"
  /\ UNCHANGED <<reconnected, cur, completed, file, confirmed, inLedger, wire, uploader>>

(* Mutant: nothing is unregistered once the upload is confirmed.           *)
Unregister_Forgotten ==
  /\ pc = "unregister"
  /\ IF confirmed THEN UNCHANGED inLedger ELSE inLedger' = FALSE
  /\ pc' = "end"
  /\ UNCHANGED <<reconnected, cur, completed, file, confirmed, wire, uploader>>

Unregister ==
  /\ pc = "unregister"
  /\ inLedger' = FALSE \/ (Faults /\ UNCHANGED inLedger)
  /\ pc' = "end"
  /\ UNCHANGED <<reconnected, cur, completed, file, confirmed, wire, uploader>>

-----------------------------------------------------------------------------
(* The host process dies and is started again; SessionRecovery dispatches  *)
(* what the ledger holds.                                                  *)

Crash ==
  /\ Faults
  /\ pc # "down"
  /\ pc' = "down"
  /\ size' = flushed
  /\ good' = IF good < flushed THEN good ELSE flushed
  /\ CloseSocket
  /\ UNCHANGED <<reconnected, cur, completed, linked, flushed, confirmed, inLedger, uploader>>

Recover ==
  /\ pc = "down"
  /\ pc' = IF inLedger THEN "bind" ELSE "end"
  /\ reconnected' = FALSE
  /\ completed' = FALSE
  /\ UNCHANGED <<cur, file, confirmed, inLedger, wire, uploader>>

-----------------------------------------------------------------------------
(* The uploader (external).  Any frame it does not expect, and any silence *)
(* that lasts, make it open a new socket and ask to resume.                *)

PeerConnects ==
  /\ peer = "closed"
  /\ peer' = "start"
  /\ UNCHANGED <<host, file, confirmed, inLedger, wire, fresh, pos>>

(* It sends what follows the first n units of the shard.                   *)
PeerSendsFrom(n) ==
  IF n < ShardLength
    THEN LET to == IF n + ChunkSize < ShardLength THEN n + ChunkSize ELSE ShardLength
         IN /\ outbox' = Append(outbox, Data(n, to))
            /\ pos' = to
            /\ peer' = "ack"
    ELSE /\ outbox' = Append(outbox, END)
         /\ pos' = n
         /\ peer' = "done"

PeerReads(type) ==
  /\ toPeer # <<>> /\ Head(toPeer).type = type
  /\ toPeer' = Tail(toPeer)
  /\ UNCHANGED <<host, file, confirmed, inLedger, bound, attached, inbox>>

PeerStarts ==
  /\ peer = "start" /\ fresh
  /\ PeerReads("start")
  /\ PeerSendsFrom(0)
  /\ UNCHANGED fresh

PeerAwaitsOffset ==
  /\ peer = "start" /\ ~fresh
  /\ PeerReads("start")
  /\ peer' = "resume"
  /\ UNCHANGED <<outbox, fresh, pos>>

PeerResumes ==
  /\ peer = "resume"
  /\ PeerReads("resume")
  /\ PeerSendsFrom(Head(toPeer).from)
  /\ UNCHANGED fresh

PeerContinues ==
  /\ peer = "ack"
  /\ PeerReads("ACK")
  /\ PeerSendsFrom(pos)
  /\ UNCHANGED fresh

Expected == CASE peer = "start" -> "start" [] peer = "resume" -> "resume" [] OTHER -> "ACK"

PeerGivesUp ==
  /\ peer \in {"start", "resume", "ack"}
  /\ \/ Unreliable
     \/ toPeer # <<>> /\ Head(toPeer).type # Expected
  /\ peer' = "closed"
  /\ fresh' = FALSE
  /\ attached' = FALSE
  /\ outbox' = <<>>
  /\ toPeer' = <<>>
  /\ UNCHANGED <<host, file, confirmed, inLedger, bound, inbox, pos>>

-----------------------------------------------------------------------------

Host ==
  \/ Bind \/ BindFails \/ EmitStart
  \/ OpenNew \/ OpenExisting \/ OpenToAppend \/ OpenFails \/ ReopenFails
  \/ ReceiveData \/ ReceiveEnd \/ SendAck \/ Write \/ WriteFails \/ ChunkTimesOut
  \/ Reset \/ ResetFails \/ GiveUp \/ EmitStartAgain \/ SendOffset
  \/ ReconnectTimesOut
  \/ Finish \/ CloseFails \/ DoneUploading \/ DoneUploadingFails \/ Unregister

Wire == Attach \/ Deliver

Peer == PeerConnects \/ PeerStarts \/ PeerAwaitsOffset \/ PeerResumes \/ PeerContinues

Next == Host \/ Wire \/ Peer \/ Break \/ PeerGivesUp \/ Crash \/ Recover

Spec == Init /\ [][Next]_vars

(* The host's thread runs, and its timeouts expire.                        *)
HostFairSpec == Spec /\ WF_vars(Host)

-----------------------------------------------------------------------------

TypeOK ==
  /\ pc \in Running \cup {"dead", "down", "end"}
  /\ reconnected \in BOOLEAN /\ completed \in BOOLEAN /\ linked \in BOOLEAN
  /\ confirmed \in BOOLEAN /\ inLedger \in BOOLEAN /\ fresh \in BOOLEAN
  /\ bound \in BOOLEAN /\ attached \in BOOLEAN
  /\ cur \in Frame
  /\ size \in Nat /\ good \in 0 .. size /\ flushed \in 0 .. size /\ pos \in Nat
  /\ inbox \in Seq(Frame) /\ outbox \in Seq(Frame) /\ toPeer \in Seq(Frame)
  /\ peer \in {"closed", "start", "resume", "ack", "done"}

(* The file is always a prefix of the shard: through lost frames, lost     *)
(* acknowledgements and reconnections no unit is missed, repeated or out   *)
(* of place, although frames do not say where they belong.                 *)
ShardIsPrefix == linked => good = size /\ size <= ShardLength

(* backend_client.py:192, done_uploading: "Confirms to the backend that a  *)
(* shard has been fully received and saved to disk."                       *)
ConfirmedMeansStored ==
  confirmed => linked /\ good = ShardLength /\ size = ShardLength /\ flushed = ShardLength

(* An uploader that acts on a resume offset continues exactly where the    *)
(* file ends, and no frame that it, or an earlier socket of it, has sent   *)
(* can still be appended first.                                            *)
NothingInFlight == inbox = <<>> /\ outbox = <<>> /\ pc \notin {"ack", "write"}

ResumeIsExact ==
  [][PeerResumes => Head(toPeer).from = size /\ NothingInFlight]_vars

(* Once it has an uploader and a file, the thread ends: it cannot be kept  *)
(* in a cycle of reconnections, or waiting for a frame or for an uploader  *)
(* that does not come.                                                     *)
ReceiveReturns == pc = "recv" ~> pc \in {"end", "dead", "down"}

(* Something has gone wrong that is not the host's doing: a connection was *)
(* lost, a timeout has expired, or the backend could not be told.          *)
Disturbed ==
  \/ pc \in {"lost", "dead", "down"} \/ ~fresh
  \/ bound /\ ~attached /\ pc \notin {"bind", "start"}
  \/ pc = "unregister" /\ ~confirmed

(* An upload that nothing disturbs is confirmed and leaves the ledger, if  *)
(* the uploader does its part and the connection, which may go and come    *)
(* back any number of times before it is used, stays in the end.           *)
UploadCompletes ==
  WF_vars(Wire) /\ WF_vars(Peer) /\ <>[][~Break]_vars =>
    <>(Disturbed \/ (confirmed /\ ~inLedger /\ pc = "end"))

Upload == INSTANCE TransferPromise
  WITH stored <- good,
       status <- IF confirmed THEN "confirmed"
                 ELSE IF pc \in {"end", "dead"} THEN "abandoned"
                 ELSE "open"

(* Receiving an upload is growing a prefix of the shard, and confirming it *)
(* once it is whole.                                                       *)
Promise == Upload!Spec

-----------------------------------------------------------------------------
(* The inductive invariant, for an upload of a shard the host has nothing  *)
(* of, when neither the host process nor its disk fails.                   *)

Handling == pc \in {"ack", "write"}

(* The size of the file once what has been acknowledged is written.        *)
Acknowledged == IF pc = "write" THEN cur.to ELSE size

Fits(frame) ==
  \/ frame.type = "data" /\ frame.from = Acknowledged
       /\ frame.from < frame.to /\ frame.to <= ShardLength
  \/ frame.type = "END" /\ Acknowledged = ShardLength

(* The protocol is stop and wait: of all that the uploader has sent, at    *)
(* most one frame is not acknowledged and can still have an effect, and it *)
(* fits the end of the file, whichever socket sent it.                     *)
StopAndWait ==
  /\ Len(inbox) + Len(outbox) <= 1
  /\ pc = "ack" => inbox = <<>> /\ outbox = <<>>
  /\ \A i \in DOMAIN inbox : Fits(inbox[i])
  /\ \A i \in DOMAIN outbox : Fits(outbox[i])
  /\ Handling => /\ cur.type = "data" /\ cur.from = size
                 /\ cur.from < cur.to /\ cur.to <= ShardLength

(* What is known of the file at each point of receive_data.                *)
FileInv ==
  /\ good = size /\ size <= ShardLength
  /\ pc # "down"
  /\ pc \in {"bind", "start", "open"} => ~linked
  /\ pc \notin {"bind", "start", "open", "dead"} => linked
  /\ ~linked => size = 0
  /\ pc \in {"restart", "offset", "append"} => flushed = size
  /\ completed => /\ size = ShardLength
                  /\ pc \in {"finish", "confirm", "unregister", "end"}
  /\ pc = "confirm" => completed
  /\ pc \in {"confirm", "unregister", "end"} => flushed = size
  /\ confirmed => completed /\ pc \in {"unregister", "end"}

(* An uploader that has just connected has nothing on the wire, and learns *)
(* of the file only what is still true of it.                              *)
ConnectInv ==
  /\ peer \in {"closed", "start", "resume"} => outbox = <<>>
  /\ peer = "closed" => ~attached /\ toPeer = <<>>
  /\ fresh /\ peer \in {"closed", "start"} => size = 0 /\ inbox = <<>> /\ ~Handling
  /\ peer \in {"start", "resume"} /\ attached => inbox = <<>>
  /\ peer = "resume" => inbox = <<>> /\ ~Handling
  /\ peer = "start" /\ (\E i \in DOMAIN toPeer : toPeer[i].type \in {"start", "resume"})
       => inbox = <<>> /\ ~Handling
  /\ peer \in {"start", "resume"} =>
       \A i \in DOMAIN toPeer : toPeer[i].type = "resume" => toPeer[i].from = size

(* An acknowledgement that the uploader will act on is for its last frame, *)
(* and that frame is in the file, or about to be.                          *)
AckInv ==
  /\ peer = "resume" => \A i \in DOMAIN toPeer : toPeer[i].type # "ACK"
  /\ peer = "start" =>
       \A i, j \in DOMAIN toPeer :
         i < j /\ toPeer[i].type \in {"start", "resume"} => toPeer[j].type # "ACK"
  /\ peer = "ack" =>
       /\ \A i, j \in DOMAIN toPeer :
            toPeer[i].type = "ACK" /\ toPeer[j].type = "ACK" => i = j
       /\ (\E i \in DOMAIN toPeer : toPeer[i].type = "ACK") =>
            /\ inbox = <<>> /\ outbox = <<>> /\ pc # "ack"
            /\ pos = Acknowledged
       /\ \A i \in DOMAIN inbox : inbox[i].to = pos
       /\ \A i \in DOMAIN outbox : outbox[i].to = pos
       /\ pc = "ack" => cur.to = pos

IInv == TypeOK /\ StopAndWait /\ FileInv /\ ConnectInv /\ AckInv

-----------------------------------------------------------------------------
(* The inductive invariant for a host that may crash, and whose disk may   *)
(* fail, if an uploader that loses its connection takes a new socket.  A   *)
(* frame in a socket that is not connected can then be anything, as can    *)
(* one that the host will not receive: what is known is known of the       *)
(* connection there is, while the host listens.                            *)

Listening == pc \in {"start", "open", "append", "recv", "ack", "write", "restart", "offset"}

OnLine == attached /\ Listening

(* What is known of the file, whatever became of the process.              *)
StoredInv ==
  /\ good = size /\ size <= ShardLength
  /\ ~linked => size = 0
  /\ pc \in {"append", "recv", "ack", "write", "lost", "restart", "offset",
             "finish", "confirm", "unregister"} => linked
  /\ pc \in {"bind", "start", "open", "restart", "offset", "append", "confirm", "down"} =>
       flushed = size
  /\ completed => ~Listening /\ pc \notin {"bind", "lost"}
  /\ completed /\ pc \in {"finish", "confirm"} => size = ShardLength
  /\ pc = "confirm" => completed
  /\ confirmed => linked /\ size = ShardLength /\ flushed = size

(* StopAndWait, of the connection there is.                                *)
LineInv ==
  /\ attached => bound /\ peer # "closed"
  /\ pc \in {"bind", "down"} => ~bound
  /\ pc \in {"bind", "start", "restart", "down"} => inbox = <<>>
  /\ pc \in {"start", "restart"} /\ attached => peer = "start" /\ toPeer = <<>>
  /\ Len(inbox) <= 1
  /\ attached => Len(inbox) + Len(outbox) <= 1
  /\ pc = "ack" => inbox = <<>> /\ (attached => outbox = <<>>)
  /\ Listening => \A i \in DOMAIN inbox : Fits(inbox[i])
  /\ OnLine => \A i \in DOMAIN outbox : Fits(outbox[i])
  /\ Handling => /\ cur.type = "data" /\ cur.from = size
                 /\ cur.from < cur.to /\ cur.to <= ShardLength

(* ConnectInv, in the same way.                                            *)
MeetInv ==
  /\ peer \in {"closed", "start", "resume"} => outbox = <<>>
  /\ peer = "closed" => toPeer = <<>>
  /\ fresh /\ peer \in {"closed", "start"} => size = 0 /\ inbox = <<>> /\ ~Handling
  /\ attached /\ peer \in {"start", "resume"} => inbox = <<>>
  /\ attached /\ peer = "resume" => ~Handling
  /\ attached /\ peer = "start" /\ (\E i \in DOMAIN toPeer : toPeer[i].type \in {"start", "resume"})
       => ~Handling
  /\ attached /\ peer \in {"start", "resume"} =>
       \A i \in DOMAIN toPeer : toPeer[i].type = "resume" => toPeer[i].from = size

(* AckInv, in the same way.                                                *)
AnswerInv ==
  /\ attached /\ peer = "resume" => \A i \in DOMAIN toPeer : toPeer[i].type # "ACK"
  /\ attached /\ peer = "start" /\ toPeer # <<>> /\ toPeer[1].type = "start" =>
       \A i \in DOMAIN toPeer : toPeer[i].type # "ACK"
  /\ attached /\ peer = "ack" =>
       /\ \A i, j \in DOMAIN toPeer :
            toPeer[i].type = "ACK" /\ toPeer[j].type = "ACK" => i = j
       /\ (\E i \in DOMAIN toPeer : toPeer[i].type = "ACK") =>
            /\ inbox = <<>> /\ outbox = <<>> /\ pc # "ack"
            /\ Listening => pos = Acknowledged
       /\ Listening => \A i \in DOMAIN inbox : inbox[i].to = pos
       /\ Listening => \A i \in DOMAIN outbox : outbox[i].to = pos
       /\ pc = "ack" => cur.to = pos

CrashInv == TypeOK /\ StoredInv /\ LineInv /\ MeetInv /\ AnswerInv

(* An offset that an uploader can still read, even from a connection that  *)
(* has gone, is the end of the file, which nothing can move: no frame is   *)
(* left that could be appended, and no crash can take a unit back.         *)
ResumeInv ==
  peer \in {"start", "resume"} =>
    \A i \in DOMAIN toPeer : toPeer[i].type = "resume" =>
      toPeer[i].from = size /\ flushed = size /\ inbox = <<>> /\ ~Handling
=============================================================================
