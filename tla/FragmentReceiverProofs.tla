----------------------- MODULE FragmentReceiverProofs -----------------------
(* Proofs about FragmentReceiver, for shards and chunks of any length.     *)
EXTENDS FragmentReceiver, SequenceFacts

USE DEF Running

(* The theorems are about a new upload of a shard, on a host that does not *)
(* fail; the network, its timeouts and the uploader do what they like.     *)
Healthy == Existing = 0 /\ Faults = FALSE

-----------------------------------------------------------------------------
(* What is left of the frames when a connection goes.                      *)

Detached ==
  /\ outbox' \in {outbox, <<>>}
  /\ toPeer' \in Seq(Frame)
  /\ \A i \in DOMAIN toPeer' : i \in DOMAIN toPeer /\ toPeer'[i] = toPeer[i]

LEMMA DetachFacts ==
  ASSUME outbox \in Seq(Frame), toPeer \in Seq(Frame), Len(outbox) <= 1, Detach
  PROVE  Detached /\ attached' = FALSE
<1>1. outbox' \in {outbox, <<>>}
  BY SuffixOfShort DEF Detach
<1>2. /\ toPeer' \in Seq(Frame)
      /\ \A i \in DOMAIN toPeer' : i \in DOMAIN toPeer /\ toPeer'[i] = toPeer[i]
  BY PrefixFacts DEF Detach
<1>3. QED
  BY <1>1, <1>2 DEF Detach, Detached

LEMMA FramesTyped ==
  /\ Start \in Frame /\ ACK \in Frame /\ END \in Frame
  /\ \A n \in Nat : Resume(n) \in Frame
  /\ \A n, m \in Nat : Data(n, m) \in Frame
  BY DEF Start, ACK, END, Resume, Data, Frame

LEMMA OutboxShort == IInv => outbox \in Seq(Frame) /\ toPeer \in Seq(Frame) /\ Len(outbox) <= 1
  BY DEF IInv, TypeOK, StopAndWait

-----------------------------------------------------------------------------
(* Every action preserves every part of the invariant.                     *)

LEMMA BindInv == ASSUME Healthy, IInv, Bind PROVE IInv'
<1> USE DEF IInv, Healthy, Handling, Acknowledged, Fits
<1>1. TypeOK'
  BY DEF Bind, TypeOK, file, uploader
<1>2. StopAndWait'
  BY DEF Bind, TypeOK, StopAndWait, file, uploader
<1>3. FileInv'
  BY DEF Bind, TypeOK, FileInv, file, uploader
<1>4. ConnectInv'
  BY DEF Bind, TypeOK, ConnectInv, file, uploader
<1>5. AckInv'
  BY DEF Bind, TypeOK, AckInv, file, uploader
<1>6. QED
  BY <1>1, <1>2, <1>3, <1>4, <1>5

LEMMA OpenNewInv == ASSUME Healthy, IInv, OpenNew PROVE IInv'
<1> USE DEF IInv, Healthy, Handling, Acknowledged, Fits
<1>1. TypeOK'
  BY DEF OpenNew, TypeOK, StopAndWait, FileInv, wire, uploader
<1>2. StopAndWait'
  BY DEF OpenNew, TypeOK, StopAndWait, FileInv, wire, uploader
<1>3. FileInv'
  BY DEF OpenNew, TypeOK, FileInv, StopAndWait, wire, uploader
<1>4. ConnectInv'
  BY DEF OpenNew, TypeOK, ConnectInv, StopAndWait, FileInv, wire, uploader
<1>5. AckInv'
  BY DEF OpenNew, TypeOK, AckInv, StopAndWait, FileInv, wire, uploader
<1>6. QED
  BY <1>1, <1>2, <1>3, <1>4, <1>5

LEMMA OpenToAppendInv == ASSUME Healthy, IInv, OpenToAppend PROVE IInv'
<1> USE DEF IInv, Healthy, Handling, Acknowledged, Fits
<1>1. TypeOK'
  BY DEF OpenToAppend, TypeOK, FileInv, file, wire, uploader
<1>2. StopAndWait'
  BY DEF OpenToAppend, TypeOK, StopAndWait, FileInv, file, wire, uploader
<1>3. FileInv'
  BY DEF OpenToAppend, TypeOK, FileInv, file, wire, uploader
<1>4. ConnectInv'
  BY DEF OpenToAppend, TypeOK, ConnectInv, FileInv, file, wire, uploader
<1>5. AckInv'
  BY DEF OpenToAppend, TypeOK, AckInv, FileInv, file, wire, uploader
<1>6. QED
  BY <1>1, <1>2, <1>3, <1>4, <1>5

LEMMA WriteInv == ASSUME Healthy, IInv, Write PROVE IInv'
<1> USE DEF IInv, Healthy, Handling, Acknowledged, Fits
<1>1. TypeOK'
  BY DEF Write, AppendToFile, Frame, TypeOK, StopAndWait, FileInv, wire, uploader
<1>2. StopAndWait'
  BY DEF Write, AppendToFile, Frame, TypeOK, StopAndWait, FileInv, wire, uploader
<1>3. FileInv'
  BY DEF Write, AppendToFile, Frame, TypeOK, FileInv, StopAndWait, wire, uploader
<1>4. ConnectInv'
  BY DEF Write, AppendToFile, Frame, TypeOK, ConnectInv, StopAndWait, FileInv, wire, uploader
<1>5. AckInv'
  <2>1. /\ cur.from \in Nat /\ cur.to \in Nat /\ size \in Nat
        /\ cur.from = size /\ size' = size + (cur.to - cur.from)
        /\ pc = "write" /\ pc' = "recv"
    BY DEF Write, AppendToFile, Frame, TypeOK, StopAndWait
  <2>2. Acknowledged' = Acknowledged
    BY <2>1
  <2>3. QED
    BY <2>1, <2>2 DEF Write, AckInv, wire, uploader
<1>6. QED
  BY <1>1, <1>2, <1>3, <1>4, <1>5

LEMMA ChunkTimesOutInv == ASSUME Healthy, IInv, ChunkTimesOut PROVE IInv'
<1> USE DEF IInv, Healthy, Handling, Acknowledged, Fits
<1>1. TypeOK'
  BY DEF ChunkTimesOut, TypeOK, file, wire, uploader
<1>2. StopAndWait'
  BY DEF ChunkTimesOut, TypeOK, StopAndWait, file, wire, uploader
<1>3. FileInv'
  BY DEF ChunkTimesOut, TypeOK, FileInv, StopAndWait, file, wire, uploader
<1>4. ConnectInv'
  BY DEF ChunkTimesOut, TypeOK, ConnectInv, StopAndWait, file, wire, uploader
<1>5. AckInv'
  BY DEF ChunkTimesOut, TypeOK, AckInv, StopAndWait, file, wire, uploader
<1>6. QED
  BY <1>1, <1>2, <1>3, <1>4, <1>5

LEMMA GiveUpInv == ASSUME Healthy, IInv, GiveUp PROVE IInv'
<1> USE DEF IInv, Healthy, Handling, Acknowledged, Fits
<1>1. TypeOK'
  BY DEF GiveUp, TypeOK, file, wire, uploader
<1>2. StopAndWait'
  BY DEF GiveUp, TypeOK, StopAndWait, file, wire, uploader
<1>3. FileInv'
  BY DEF GiveUp, TypeOK, FileInv, file, wire, uploader
<1>4. ConnectInv'
  BY DEF GiveUp, TypeOK, ConnectInv, file, wire, uploader
<1>5. AckInv'
  BY DEF GiveUp, TypeOK, AckInv, file, wire, uploader
<1>6. QED
  BY <1>1, <1>2, <1>3, <1>4, <1>5

LEMMA DoneUploadingInv == ASSUME Healthy, IInv, DoneUploading PROVE IInv'
<1> USE DEF IInv, Healthy, Handling, Acknowledged, Fits
<1>1. TypeOK'
  BY DEF DoneUploading, TypeOK, FileInv, file, wire, uploader
<1>2. StopAndWait'
  BY DEF DoneUploading, TypeOK, StopAndWait, FileInv, file, wire, uploader
<1>3. FileInv'
  BY DEF DoneUploading, TypeOK, FileInv, file, wire, uploader
<1>4. ConnectInv'
  BY DEF DoneUploading, TypeOK, ConnectInv, FileInv, file, wire, uploader
<1>5. AckInv'
  BY DEF DoneUploading, TypeOK, AckInv, FileInv, file, wire, uploader
<1>6. QED
  BY <1>1, <1>2, <1>3, <1>4, <1>5

LEMMA DoneUploadingFailsInv == ASSUME Healthy, IInv, DoneUploadingFails PROVE IInv'
<1> USE DEF IInv, Healthy, Handling, Acknowledged, Fits
<1>1. TypeOK'
  BY DEF DoneUploadingFails, TypeOK, file, wire, uploader
<1>2. StopAndWait'
  BY DEF DoneUploadingFails, TypeOK, StopAndWait, file, wire, uploader
<1>3. FileInv'
  BY DEF DoneUploadingFails, TypeOK, FileInv, file, wire, uploader
<1>4. ConnectInv'
  BY DEF DoneUploadingFails, TypeOK, ConnectInv, file, wire, uploader
<1>5. AckInv'
  BY DEF DoneUploadingFails, TypeOK, AckInv, file, wire, uploader
<1>6. QED
  BY <1>1, <1>2, <1>3, <1>4, <1>5

LEMMA UnregisterInv == ASSUME Healthy, IInv, Unregister PROVE IInv'
<1> USE DEF IInv, Healthy, Handling, Acknowledged, Fits
<1>1. TypeOK'
  BY DEF Unregister, TypeOK, file, wire, uploader
<1>2. StopAndWait'
  BY DEF Unregister, TypeOK, StopAndWait, file, wire, uploader
<1>3. FileInv'
  BY DEF Unregister, TypeOK, FileInv, file, wire, uploader
<1>4. ConnectInv'
  BY DEF Unregister, TypeOK, ConnectInv, file, wire, uploader
<1>5. AckInv'
  BY DEF Unregister, TypeOK, AckInv, file, wire, uploader
<1>6. QED
  BY <1>1, <1>2, <1>3, <1>4, <1>5

LEMMA AttachInv == ASSUME Healthy, IInv, Attach PROVE IInv'
<1> USE DEF IInv, Healthy, Handling, Acknowledged, Fits
<1>1. TypeOK'
  BY DEF Attach, TypeOK, host, file, uploader
<1>2. StopAndWait'
  BY DEF Attach, TypeOK, StopAndWait, host, file, uploader
<1>3. FileInv'
  BY DEF Attach, TypeOK, FileInv, host, file, uploader
<1>4. ConnectInv'
  <2>1. UNCHANGED <<pc, size, inbox, outbox, toPeer, peer, fresh>> /\ inbox = <<>>
    BY DEF Attach, host, file, uploader
  <2>2. peer # "closed"
    BY DEF Attach, PeerSocket
  <2>3. QED
    BY <2>1, <2>2 DEF ConnectInv
<1>5. AckInv'
  BY DEF Attach, TypeOK, AckInv, host, file, uploader
<1>6. QED
  BY <1>1, <1>2, <1>3, <1>4, <1>5

LEMMA PeerConnectsInv == ASSUME Healthy, IInv, PeerConnects PROVE IInv'
<1> USE DEF IInv, Healthy, Handling, Acknowledged, Fits
<1>1. TypeOK'
  BY DEF PeerConnects, TypeOK, host, file, wire
<1>2. StopAndWait'
  BY DEF PeerConnects, TypeOK, StopAndWait, host, file, wire
<1>3. FileInv'
  BY DEF PeerConnects, TypeOK, FileInv, host, file, wire
<1>4. ConnectInv'
  BY DEF PeerConnects, TypeOK, ConnectInv, host, file, wire
<1>5. AckInv'
  BY DEF PeerConnects, TypeOK, AckInv, ConnectInv, host, file, wire
<1>6. QED
  BY <1>1, <1>2, <1>3, <1>4, <1>5

LEMMA PeerGivesUpInv == ASSUME Healthy, IInv, PeerGivesUp PROVE IInv'
<1> USE DEF IInv, Healthy, Handling, Acknowledged, Fits
<1>1. TypeOK'
  BY EmptySeq DEF PeerGivesUp, TypeOK, host, file
<1>2. StopAndWait'
  BY DEF PeerGivesUp, TypeOK, StopAndWait, host, file
<1>3. FileInv'
  BY DEF PeerGivesUp, TypeOK, FileInv, host, file
<1>4. ConnectInv'
  BY DEF PeerGivesUp, TypeOK, ConnectInv, host, file
<1>5. AckInv'
  BY DEF PeerGivesUp, TypeOK, AckInv, host, file
<1>6. QED
  BY <1>1, <1>2, <1>3, <1>4, <1>5

LEMMA EmitStartInv == ASSUME Healthy, IInv, EmitStart PROVE IInv'
<1> USE DEF IInv, Healthy, Handling, Acknowledged, Fits
<1> DEFINE sent == Start
<1>1. sent \in Frame
  BY FramesTyped DEF TypeOK
<1>2. /\ attached
      /\ toPeer \in Seq(Frame)
      /\ toPeer' = Append(toPeer, sent)
      /\ UNCHANGED <<bound, attached, inbox, outbox>>
  BY DEF EmitStart, HostSends, TypeOK
<1>3. /\ toPeer' \in Seq(Frame)
      /\ toPeer'[Len(toPeer) + 1] = sent
      /\ \A i \in DOMAIN toPeer : i \in DOMAIN toPeer' /\ toPeer'[i] = toPeer[i] /\ i < Len(toPeer) + 1
      /\ \A i \in DOMAIN toPeer' : i \in DOMAIN toPeer \/ i = Len(toPeer) + 1
  BY <1>1, <1>2, AppendFacts
<1>4. DOMAIN toPeer \subseteq Nat /\ Len(toPeer) \in Nat
  BY <1>2
<1>5. sent.type = "start" /\ sent.from = 0
  BY DEF Start
<1> HIDE DEF sent
<1>6. TypeOK'
  BY <1>2, <1>3, <1>4, <1>5 DEF EmitStart, TypeOK, ConnectInv, file, uploader
<1>7. StopAndWait'
  BY <1>2, <1>3, <1>4, <1>5 DEF EmitStart, TypeOK, StopAndWait, ConnectInv, file, uploader
<1>8. FileInv'
  BY <1>2, <1>3, <1>4, <1>5 DEF EmitStart, TypeOK, FileInv, ConnectInv, file, uploader
<1>9. ConnectInv'
  BY <1>2, <1>3, <1>4, <1>5 DEF EmitStart, TypeOK, ConnectInv, file, uploader
<1>10. AckInv'
  BY <1>2, <1>3, <1>4, <1>5 DEF EmitStart, TypeOK, AckInv, ConnectInv, file, uploader
<1>11. QED
  BY <1>6, <1>7, <1>8, <1>9, <1>10

\* Nothing of the shard is on disk, so a first start is never answered.
LEMMA OpenExistingInv == ASSUME Healthy, IInv, OpenExisting PROVE IInv'
  BY DEF IInv, FileInv, OpenExisting

LEMMA SendAckInv == ASSUME Healthy, IInv, SendAck PROVE IInv'
<1> USE DEF IInv, Healthy, Handling, Acknowledged, Fits
<1> DEFINE sent == ACK
<1>1. sent \in Frame
  BY FramesTyped DEF TypeOK
<1>2. /\ attached
      /\ toPeer \in Seq(Frame)
      /\ toPeer' = Append(toPeer, sent)
      /\ UNCHANGED <<bound, attached, inbox, outbox>>
  BY DEF SendAck, HostSends, TypeOK
<1>3. /\ toPeer' \in Seq(Frame)
      /\ toPeer'[Len(toPeer) + 1] = sent
      /\ \A i \in DOMAIN toPeer : i \in DOMAIN toPeer' /\ toPeer'[i] = toPeer[i] /\ i < Len(toPeer) + 1
      /\ \A i \in DOMAIN toPeer' : i \in DOMAIN toPeer \/ i = Len(toPeer) + 1
  BY <1>1, <1>2, AppendFacts
<1>4. DOMAIN toPeer \subseteq Nat /\ Len(toPeer) \in Nat
  BY <1>2
<1>5. sent.type = "ACK" /\ sent.from = 0
  BY DEF ACK
<1> HIDE DEF sent
<1>6. TypeOK'
  BY <1>2, <1>3, <1>4, <1>5 DEF SendAck, TypeOK, StopAndWait, ConnectInv, file, uploader
<1>7. StopAndWait'
  BY <1>2, <1>3, <1>4, <1>5 DEF SendAck, TypeOK, StopAndWait, ConnectInv, file, uploader
<1>8. FileInv'
  BY <1>2, <1>3, <1>4, <1>5 DEF SendAck, TypeOK, FileInv, StopAndWait, ConnectInv, file, uploader
<1>9. ConnectInv'
  BY <1>2, <1>3, <1>4, <1>5 DEF SendAck, TypeOK, ConnectInv, StopAndWait, file, uploader
<1>10. AckInv'
  BY <1>2, <1>3, <1>4, <1>5 DEF SendAck, TypeOK, AckInv, StopAndWait, ConnectInv, file, uploader
<1>11. QED
  BY <1>6, <1>7, <1>8, <1>9, <1>10

LEMMA EmitStartAgainInv == ASSUME Healthy, IInv, EmitStartAgain PROVE IInv'
<1> USE DEF IInv, Healthy, Handling, Acknowledged, Fits
<1> DEFINE sent == Start
<1>1. sent \in Frame
  BY FramesTyped DEF TypeOK
<1>2. /\ attached
      /\ toPeer \in Seq(Frame)
      /\ toPeer' = Append(toPeer, sent)
      /\ UNCHANGED <<bound, attached, inbox, outbox>>
  BY DEF EmitStartAgain, HostSends, TypeOK
<1>3. /\ toPeer' \in Seq(Frame)
      /\ toPeer'[Len(toPeer) + 1] = sent
      /\ \A i \in DOMAIN toPeer : i \in DOMAIN toPeer' /\ toPeer'[i] = toPeer[i] /\ i < Len(toPeer) + 1
      /\ \A i \in DOMAIN toPeer' : i \in DOMAIN toPeer \/ i = Len(toPeer) + 1
  BY <1>1, <1>2, AppendFacts
<1>4. DOMAIN toPeer \subseteq Nat /\ Len(toPeer) \in Nat
  BY <1>2
<1>5. sent.type = "start" /\ sent.from = 0
  BY DEF Start
<1> HIDE DEF sent
<1>6. TypeOK'
  BY <1>2, <1>3, <1>4, <1>5 DEF EmitStartAgain, TypeOK, ConnectInv, file, uploader
<1>7. StopAndWait'
  BY <1>2, <1>3, <1>4, <1>5 DEF EmitStartAgain, TypeOK, StopAndWait, ConnectInv, file, uploader
<1>8. FileInv'
  BY <1>2, <1>3, <1>4, <1>5 DEF EmitStartAgain, TypeOK, FileInv, ConnectInv, file, uploader
<1>9. ConnectInv'
  BY <1>2, <1>3, <1>4, <1>5 DEF EmitStartAgain, TypeOK, ConnectInv, file, uploader
<1>10. AckInv'
  BY <1>2, <1>3, <1>4, <1>5 DEF EmitStartAgain, TypeOK, AckInv, ConnectInv, file, uploader
<1>11. QED
  BY <1>6, <1>7, <1>8, <1>9, <1>10

LEMMA SendOffsetInv == ASSUME Healthy, IInv, SendOffset PROVE IInv'
<1> USE DEF IInv, Healthy, Handling, Acknowledged, Fits
<1> DEFINE sent == Resume(flushed)
<1>1. sent \in Frame
  BY FramesTyped DEF TypeOK, FileInv
<1>2. /\ attached
      /\ toPeer \in Seq(Frame)
      /\ toPeer' = Append(toPeer, sent)
      /\ UNCHANGED <<bound, attached, inbox, outbox>>
  BY DEF SendOffset, HostSends, TypeOK
<1>3. /\ toPeer' \in Seq(Frame)
      /\ toPeer'[Len(toPeer) + 1] = sent
      /\ \A i \in DOMAIN toPeer : i \in DOMAIN toPeer' /\ toPeer'[i] = toPeer[i] /\ i < Len(toPeer) + 1
      /\ \A i \in DOMAIN toPeer' : i \in DOMAIN toPeer \/ i = Len(toPeer) + 1
  BY <1>1, <1>2, AppendFacts
<1>4. DOMAIN toPeer \subseteq Nat /\ Len(toPeer) \in Nat
  BY <1>2
<1>5. sent.type = "resume" /\ sent.from = flushed
  BY DEF Resume
<1> HIDE DEF sent
<1>6. TypeOK'
  BY <1>2, <1>3, <1>4, <1>5 DEF SendOffset, TypeOK, ConnectInv, FileInv, file, uploader
<1>7. StopAndWait'
  BY <1>2, <1>3, <1>4, <1>5 DEF SendOffset, TypeOK, StopAndWait, ConnectInv, FileInv, file, uploader
<1>8. FileInv'
  BY <1>2, <1>3, <1>4, <1>5 DEF SendOffset, TypeOK, FileInv, ConnectInv, file, uploader
<1>9. ConnectInv'
  BY <1>2, <1>3, <1>4, <1>5 DEF SendOffset, TypeOK, ConnectInv, FileInv, file, uploader
<1>10. AckInv'
  BY <1>2, <1>3, <1>4, <1>5 DEF SendOffset, TypeOK, AckInv, ConnectInv, FileInv, file, uploader
<1>11. QED
  BY <1>6, <1>7, <1>8, <1>9, <1>10

LEMMA BindFailsInv == ASSUME Healthy, IInv, BindFails PROVE IInv'
<1> USE DEF IInv, Healthy, Handling, Acknowledged, Fits
<1>1. Detach
  BY DEF BindFails, Die, CloseSocket
<1>2. Detached /\ attached' = FALSE
  BY <1>1, OutboxShort, DetachFacts
<1> USE DEF Detached
<1>3. TypeOK'
  BY <1>2, EmptySeq DEF BindFails, Die, CloseSocket, TypeOK, file, uploader
<1>4. StopAndWait'
  BY <1>2 DEF BindFails, Die, CloseSocket, TypeOK, StopAndWait, file, uploader
<1>5. FileInv'
  BY <1>2 DEF BindFails, Die, CloseSocket, TypeOK, FileInv, file, uploader
<1>6. ConnectInv'
  BY <1>2 DEF BindFails, Die, CloseSocket, TypeOK, ConnectInv, file, uploader
<1>7. AckInv'
  BY <1>2 DEF BindFails, Die, CloseSocket, TypeOK, AckInv, file, uploader
<1>8. QED
  BY <1>3, <1>4, <1>5, <1>6, <1>7

LEMMA ReconnectTimesOutInv == ASSUME Healthy, IInv, ReconnectTimesOut PROVE IInv'
<1> USE DEF IInv, Healthy, Handling, Acknowledged, Fits
<1>1. Detach
  BY DEF ReconnectTimesOut, Die, CloseSocket
<1>2. Detached /\ attached' = FALSE
  BY <1>1, OutboxShort, DetachFacts
<1> USE DEF Detached
<1>3. TypeOK'
  BY <1>2, EmptySeq DEF ReconnectTimesOut, Die, CloseSocket, TypeOK, file, uploader
<1>4. StopAndWait'
  BY <1>2 DEF ReconnectTimesOut, Die, CloseSocket, TypeOK, StopAndWait, file, uploader
<1>5. FileInv'
  BY <1>2 DEF ReconnectTimesOut, Die, CloseSocket, TypeOK, FileInv, file, uploader
<1>6. ConnectInv'
  BY <1>2 DEF ReconnectTimesOut, Die, CloseSocket, TypeOK, ConnectInv, file, uploader
<1>7. AckInv'
  BY <1>2 DEF ReconnectTimesOut, Die, CloseSocket, TypeOK, AckInv, file, uploader
<1>8. QED
  BY <1>3, <1>4, <1>5, <1>6, <1>7

LEMMA ResetInv == ASSUME Healthy, IInv, Reset PROVE IInv'
<1> USE DEF IInv, Healthy, Handling, Acknowledged, Fits
<1>1. Detach
  BY DEF Reset
<1>2. Detached /\ attached' = FALSE
  BY <1>1, OutboxShort, DetachFacts
<1> USE DEF Detached
<1>3. TypeOK'
  BY <1>2, EmptySeq DEF Reset, CloseFile, TypeOK, FileInv, uploader
<1>4. StopAndWait'
  BY <1>2 DEF Reset, CloseFile, TypeOK, StopAndWait, FileInv, uploader
<1>5. FileInv'
  BY <1>2 DEF Reset, CloseFile, TypeOK, FileInv, uploader
<1>6. ConnectInv'
  BY <1>2 DEF Reset, CloseFile, TypeOK, ConnectInv, FileInv, uploader
<1>7. AckInv'
  BY <1>2 DEF Reset, CloseFile, TypeOK, AckInv, FileInv, uploader
<1>8. QED
  BY <1>3, <1>4, <1>5, <1>6, <1>7

LEMMA ResetFailsInv == ASSUME Healthy, IInv, ResetFails PROVE IInv'
<1> USE DEF IInv, Healthy, Handling, Acknowledged, Fits
<1>1. Detach
  BY DEF ResetFails, CloseSocket
<1>2. Detached /\ attached' = FALSE
  BY <1>1, OutboxShort, DetachFacts
<1> USE DEF Detached
<1>3. TypeOK'
  BY <1>2, EmptySeq DEF ResetFails, CloseFile, CloseSocket, TypeOK, FileInv, uploader
<1>4. StopAndWait'
  BY <1>2 DEF ResetFails, CloseFile, CloseSocket, TypeOK, StopAndWait, FileInv, uploader
<1>5. FileInv'
  BY <1>2 DEF ResetFails, CloseFile, CloseSocket, TypeOK, FileInv, uploader
<1>6. ConnectInv'
  BY <1>2 DEF ResetFails, CloseFile, CloseSocket, TypeOK, ConnectInv, FileInv, uploader
<1>7. AckInv'
  BY <1>2 DEF ResetFails, CloseFile, CloseSocket, TypeOK, AckInv, FileInv, uploader
<1>8. QED
  BY <1>3, <1>4, <1>5, <1>6, <1>7

LEMMA FinishInv == ASSUME Healthy, IInv, Finish PROVE IInv'
<1> USE DEF IInv, Healthy, Handling, Acknowledged, Fits
<1>1. Detach
  BY DEF Finish, CloseSocket
<1>2. Detached /\ attached' = FALSE
  BY <1>1, OutboxShort, DetachFacts
<1> USE DEF Detached
<1>3. TypeOK'
  BY <1>2, EmptySeq DEF Finish, CloseFile, CloseSocket, TypeOK, FileInv, uploader
<1>4. StopAndWait'
  BY <1>2 DEF Finish, CloseFile, CloseSocket, TypeOK, StopAndWait, FileInv, uploader
<1>5. FileInv'
  BY <1>2 DEF Finish, CloseFile, CloseSocket, TypeOK, FileInv, uploader
<1>6. ConnectInv'
  BY <1>2 DEF Finish, CloseFile, CloseSocket, TypeOK, ConnectInv, FileInv, uploader
<1>7. AckInv'
  BY <1>2 DEF Finish, CloseFile, CloseSocket, TypeOK, AckInv, FileInv, uploader
<1>8. QED
  BY <1>3, <1>4, <1>5, <1>6, <1>7

LEMMA StillTyped ==
  ASSUME TypeOK, attached' \in BOOLEAN, outbox' \in Seq(Frame), toPeer' \in Seq(Frame),
         UNCHANGED <<pc, reconnected, cur, completed, linked, size, good, flushed,
                     confirmed, inLedger, bound, inbox, peer, fresh, pos>>
  PROVE  TypeOK'
  BY DEF TypeOK

LEMMA BreakInv == ASSUME Healthy, IInv, Break PROVE IInv'
<1> USE DEF IInv, Healthy, Handling, Acknowledged, Fits
<1>1. Detach
  BY DEF Break
<1>2. Detached /\ attached' = FALSE
  BY <1>1, OutboxShort, DetachFacts
<1> USE DEF Detached
<1>3. TypeOK'
  <2>1. outbox' \in Seq(Frame)
    BY <1>2, EmptySeq DEF TypeOK
  <2>2. toPeer' \in Seq(Frame) /\ attached' = FALSE
    BY <1>2
  <2>3. UNCHANGED <<pc, reconnected, cur, completed, linked, size, good, flushed,
                    confirmed, inLedger, bound, inbox, peer, fresh, pos>>
    BY DEF Break, host, file, uploader
  <2>4. QED
    BY <2>1, <2>2, <2>3, StillTyped
<1>4. StopAndWait'
  BY <1>2 DEF Break, TypeOK, StopAndWait, host, file, uploader
<1>5. FileInv'
  BY <1>2 DEF Break, TypeOK, FileInv, host, file, uploader
<1>6. ConnectInv'
  BY <1>2 DEF Break, TypeOK, ConnectInv, host, file, uploader
<1>7. AckInv'
  BY <1>2 DEF Break, TypeOK, AckInv, host, file, uploader
<1>8. QED
  BY <1>3, <1>4, <1>5, <1>6, <1>7

\* What is left of the inbox, and of what the uploader has to read.
TailOf(s, t) ==
  /\ t \in Seq(Frame)
  /\ Len(t) = Len(s) - 1
  /\ \A i \in DOMAIN t : i \in Nat /\ i + 1 \in DOMAIN s /\ t[i] = s[i + 1]

HeadOf(s, f) == f = s[1] /\ 1 \in DOMAIN s /\ f \in Frame

LEMMA HeadAndTail ==
  ASSUME NEW s \in Seq(Frame), s # <<>>
  PROVE  TailOf(s, Tail(s)) /\ HeadOf(s, Head(s))
  BY TailFacts DEF TailOf, HeadOf

\* A sequence of at most one element is empty once that one is taken.
LEMMA OnlyOne ==
  ASSUME IInv, inbox # <<>>
  PROVE  Tail(inbox) = <<>> /\ outbox = <<>>
<1>1. Len(inbox) + Len(outbox) <= 1 /\ inbox \in Seq(Frame) /\ outbox \in Seq(Frame)
  BY DEF IInv, StopAndWait, TypeOK
<1>2. TailOf(inbox, Tail(inbox))
  BY <1>1, HeadAndTail
<1>3. Len(inbox) = 1 /\ Len(outbox) = 0
  <2>1. Len(inbox) \in Nat /\ Len(inbox) > 0 /\ Len(outbox) \in Nat
    BY <1>1
  <2>2. \A a, b \in Nat : a + b <= 1 /\ a > 0 => a = 1 /\ b = 0
    OBVIOUS
  <2>3. QED
    BY <1>1, <2>1, <2>2
<1>4. QED
  BY <1>1, <1>2, <1>3 DEF TailOf

LEMMA OnlyOneOut ==
  ASSUME IInv, outbox # <<>>
  PROVE  Tail(outbox) = <<>> /\ inbox = <<>> /\ pc # "ack"
<1>1. Len(inbox) + Len(outbox) <= 1 /\ inbox \in Seq(Frame) /\ outbox \in Seq(Frame)
  BY DEF IInv, StopAndWait, TypeOK
<1>2. TailOf(outbox, Tail(outbox))
  BY <1>1, HeadAndTail
<1>3. Len(outbox) = 1 /\ Len(inbox) = 0
  <2>1. Len(outbox) \in Nat /\ Len(outbox) > 0 /\ Len(inbox) \in Nat
    BY <1>1
  <2>2. \A a, b \in Nat : b + a <= 1 /\ a > 0 => a = 1 /\ b = 0
    OBVIOUS
  <2>3. QED
    BY <1>1, <2>1, <2>2
<1>4. QED
  BY <1>1, <1>2, <1>3 DEF TailOf, IInv, StopAndWait

LEMMA ReceiveDataInv == ASSUME Healthy, IInv, ReceiveData PROVE IInv'
<1> USE DEF IInv, Healthy, Handling, Acknowledged, Fits
<1>1. inbox # <<>> /\ Tail(inbox) = <<>> /\ outbox = <<>> /\ HeadOf(inbox, Head(inbox))
  BY OnlyOne, HeadAndTail DEF ReceiveData, TypeOK
<1>2. inbox' = <<>> /\ UNCHANGED <<outbox, toPeer, attached, bound>>
  BY <1>1 DEF ReceiveData
<1> USE DEF HeadOf
<1>3. TypeOK'
  BY <1>1, <1>2, EmptySeq DEF ReceiveData, TypeOK, StopAndWait, ConnectInv, FileInv, file, uploader
<1>4. StopAndWait'
  BY <1>1, <1>2 DEF ReceiveData, TypeOK, StopAndWait, ConnectInv, FileInv, file, uploader
<1>5. FileInv'
  BY <1>1, <1>2 DEF ReceiveData, TypeOK, FileInv, StopAndWait, ConnectInv, file, uploader
<1>6. ConnectInv'
  BY <1>1, <1>2 DEF ReceiveData, TypeOK, ConnectInv, StopAndWait, FileInv, file, uploader
<1>7. AckInv'
  BY <1>1, <1>2 DEF ReceiveData, TypeOK, AckInv, StopAndWait, ConnectInv, FileInv, file, uploader
<1>8. QED
  BY <1>3, <1>4, <1>5, <1>6, <1>7

LEMMA ReceiveEndInv == ASSUME Healthy, IInv, ReceiveEnd PROVE IInv'
<1> USE DEF IInv, Healthy, Handling, Acknowledged, Fits
<1>1. inbox # <<>> /\ Tail(inbox) = <<>> /\ outbox = <<>> /\ HeadOf(inbox, Head(inbox))
  BY OnlyOne, HeadAndTail DEF ReceiveEnd, TypeOK
<1>2. inbox' = <<>> /\ UNCHANGED <<outbox, toPeer, attached, bound>>
  BY <1>1 DEF ReceiveEnd
<1> USE DEF HeadOf
<1>3. TypeOK'
  BY <1>1, <1>2, EmptySeq DEF ReceiveEnd, TypeOK, StopAndWait, ConnectInv, FileInv, file, uploader
<1>4. StopAndWait'
  BY <1>1, <1>2 DEF ReceiveEnd, TypeOK, StopAndWait, ConnectInv, FileInv, file, uploader
<1>5. FileInv'
  BY <1>1, <1>2 DEF ReceiveEnd, TypeOK, FileInv, StopAndWait, ConnectInv, file, uploader
<1>6. ConnectInv'
  BY <1>1, <1>2 DEF ReceiveEnd, TypeOK, ConnectInv, StopAndWait, FileInv, file, uploader
<1>7. AckInv'
  BY <1>1, <1>2 DEF ReceiveEnd, TypeOK, AckInv, StopAndWait, ConnectInv, FileInv, file, uploader
<1>8. QED
  BY <1>3, <1>4, <1>5, <1>6, <1>7

LEMMA DeliverInv == ASSUME Healthy, IInv, Deliver PROVE IInv'
<1> USE DEF IInv, Healthy, Handling, Acknowledged, Fits
<1>1. outbox # <<>> /\ Tail(outbox) = <<>> /\ inbox = <<>> /\ pc # "ack" /\ HeadOf(outbox, Head(outbox))
  BY OnlyOneOut, HeadAndTail DEF Deliver, TypeOK
<1>2. inbox' = <<Head(outbox)>> /\ outbox' = <<>>
  BY <1>1 DEF Deliver, HeadOf
<1>3. /\ inbox' \in Seq(Frame) /\ Len(inbox') = 1 /\ Len(outbox') = 0
      /\ DOMAIN inbox' = {1} /\ inbox'[1] = outbox[1] /\ 1 \in DOMAIN outbox
  BY <1>1, <1>2 DEF HeadOf
<1>4. peer \in {"ack", "done"}
  BY <1>1 DEF ConnectInv, TypeOK
<1>5. UNCHANGED <<host, file, confirmed, inLedger, bound, attached, toPeer, uploader>>
  BY DEF Deliver
<1>6. TypeOK'
  BY <1>2, <1>3, <1>5, EmptySeq DEF Deliver, TypeOK, StopAndWait, host, file, uploader
<1>7. StopAndWait'
  BY <1>1, <1>2, <1>3, <1>4, <1>5 DEF Deliver, TypeOK, StopAndWait, host, file, uploader
<1>8. FileInv'
  BY <1>1, <1>2, <1>3, <1>4, <1>5 DEF Deliver, TypeOK, FileInv, StopAndWait, host, file, uploader
<1>9. ConnectInv'
  BY <1>1, <1>2, <1>3, <1>4, <1>5 DEF Deliver, TypeOK, ConnectInv, StopAndWait, host, file, uploader
<1>10. AckInv'
  BY <1>1, <1>2, <1>3, <1>4, <1>5 DEF Deliver, TypeOK, AckInv, StopAndWait, host, file, uploader
<1>11. QED
  BY <1>6, <1>7, <1>8, <1>9, <1>10

-----------------------------------------------------------------------------
(* The uploader's own steps.                                               *)

\* What it sends next fits the end of the file, if that is where it stands.
SentFrom(n) ==
  /\ outbox' \in Seq(Frame) /\ Len(outbox') = 1 /\ DOMAIN outbox' = {1}
  /\ pos' \in Nat
  /\ \/ /\ outbox'[1].type = "data" /\ outbox'[1].from = n /\ outbox'[1].to = pos'
        /\ n < pos' /\ pos' <= ShardLength
        /\ peer' = "ack"
     \/ /\ outbox'[1].type = "END" /\ n = ShardLength
        /\ peer' = "done"

LEMMA SendsFits ==
  ASSUME NEW n \in Nat, n <= ShardLength, outbox = <<>>, PeerSendsFrom(n)
  PROVE  SentFrom(n)
<1> DEFINE to == IF n + ChunkSize < ShardLength THEN n + ChunkSize ELSE ShardLength
<1>1. CASE n < ShardLength
  <2>1. to \in Nat /\ n < to /\ to <= ShardLength
    BY <1>1, ChunkAssumption, LengthAssumption
  <2>2. Data(n, to) \in Frame
    BY <2>1, FramesTyped
  <2>3. outbox' = <<Data(n, to)>> /\ pos' = to /\ peer' = "ack"
    BY <1>1, <2>2, EmptySeq DEF PeerSendsFrom
  <2>4. QED
    BY <2>1, <2>2, <2>3 DEF SentFrom, Data
<1>2. CASE ~(n < ShardLength)
  <2>1. n = ShardLength
    BY <1>2, LengthAssumption
  <2>2. outbox' = <<END>> /\ pos' = n /\ peer' = "done"
    BY <1>2 DEF PeerSendsFrom
  <2>3. QED
    BY <2>1, <2>2, FramesTyped DEF SentFrom, END
<1>3. QED
  BY <1>1, <1>2

LEMMA PeerStartsInv == ASSUME Healthy, IInv, PeerStarts PROVE IInv'
<1> USE DEF IInv, Healthy, Handling, Acknowledged, Fits
<1>1. /\ TailOf(toPeer, toPeer') /\ HeadOf(toPeer, Head(toPeer))
      /\ UNCHANGED <<host, file, confirmed, inLedger, bound, attached, inbox, fresh>>
  BY HeadAndTail DEF PeerStarts, PeerReads, TypeOK
<1>2. 0 = Acknowledged /\ Acknowledged \in Nat /\ Acknowledged <= ShardLength
      /\ outbox = <<>> /\ inbox = <<>> /\ pc # "ack"
  BY LengthAssumption DEF PeerStarts, ConnectInv, FileInv, TypeOK
<1>3. SentFrom(Acknowledged)
  BY <1>2, SendsFits DEF PeerStarts
<1>4. \A i \in DOMAIN toPeer' : toPeer'[i].type # "ACK"
  BY <1>1 DEF PeerStarts, PeerReads, AckInv, TailOf, HeadOf
<1>5. Acknowledged' = Acknowledged
  BY <1>1 DEF host, file
<1> HIDE DEF Acknowledged
<1> USE DEF TailOf, SentFrom
<1>6. TypeOK'
  BY <1>1, <1>2, <1>3, <1>4, <1>5 DEF PeerStarts, TypeOK, host, file
<1>7. StopAndWait'
  BY <1>1, <1>2, <1>3, <1>4, <1>5 DEF PeerStarts, TypeOK, StopAndWait, host, file
<1>8. FileInv'
  BY <1>1, <1>2, <1>3, <1>4, <1>5 DEF PeerStarts, TypeOK, FileInv, host, file
<1>9. ConnectInv'
  BY <1>1, <1>2, <1>3, <1>4, <1>5 DEF PeerStarts, TypeOK, ConnectInv, host, file
<1>10. AckInv'
  BY <1>1, <1>2, <1>3, <1>4, <1>5 DEF PeerStarts, TypeOK, AckInv, host, file
<1>11. QED
  BY <1>6, <1>7, <1>8, <1>9, <1>10

LEMMA PeerResumesInv == ASSUME Healthy, IInv, PeerResumes PROVE IInv'
<1> USE DEF IInv, Healthy, Handling, Acknowledged, Fits
<1>1. /\ TailOf(toPeer, toPeer') /\ HeadOf(toPeer, Head(toPeer))
      /\ UNCHANGED <<host, file, confirmed, inLedger, bound, attached, inbox, fresh>>
  BY HeadAndTail DEF PeerResumes, PeerReads, TypeOK
<1>2. Head(toPeer).from = Acknowledged /\ Acknowledged \in Nat /\ Acknowledged <= ShardLength
      /\ outbox = <<>> /\ inbox = <<>> /\ pc # "ack"
  BY <1>1 DEF PeerResumes, PeerReads, ConnectInv, FileInv, TypeOK, HeadOf
<1>3. SentFrom(Acknowledged)
  BY <1>2, SendsFits DEF PeerResumes
<1>4. \A i \in DOMAIN toPeer' : toPeer'[i].type # "ACK"
  BY <1>1 DEF PeerResumes, PeerReads, AckInv, TailOf, HeadOf
<1>5. Acknowledged' = Acknowledged
  BY <1>1 DEF host, file
<1> HIDE DEF Acknowledged
<1> USE DEF TailOf, SentFrom
<1>6. TypeOK'
  BY <1>1, <1>2, <1>3, <1>4, <1>5 DEF PeerResumes, TypeOK, host, file
<1>7. StopAndWait'
  BY <1>1, <1>2, <1>3, <1>4, <1>5 DEF PeerResumes, TypeOK, StopAndWait, host, file
<1>8. FileInv'
  BY <1>1, <1>2, <1>3, <1>4, <1>5 DEF PeerResumes, TypeOK, FileInv, host, file
<1>9. ConnectInv'
  BY <1>1, <1>2, <1>3, <1>4, <1>5 DEF PeerResumes, TypeOK, ConnectInv, host, file
<1>10. AckInv'
  BY <1>1, <1>2, <1>3, <1>4, <1>5 DEF PeerResumes, TypeOK, AckInv, host, file
<1>11. QED
  BY <1>6, <1>7, <1>8, <1>9, <1>10

LEMMA PeerContinuesInv == ASSUME Healthy, IInv, PeerContinues PROVE IInv'
<1> USE DEF IInv, Healthy, Handling, Acknowledged, Fits
<1>1. /\ TailOf(toPeer, toPeer') /\ HeadOf(toPeer, Head(toPeer))
      /\ UNCHANGED <<host, file, confirmed, inLedger, bound, attached, inbox, fresh>>
  BY HeadAndTail DEF PeerContinues, PeerReads, TypeOK
<1>2. pos = Acknowledged /\ Acknowledged \in Nat /\ Acknowledged <= ShardLength
      /\ outbox = <<>> /\ inbox = <<>> /\ pc # "ack"
  BY <1>1 DEF PeerContinues, PeerReads, AckInv, FileInv, StopAndWait, TypeOK, Frame, HeadOf
<1>3. SentFrom(Acknowledged)
  BY <1>2, SendsFits DEF PeerContinues
<1>4. \A i \in DOMAIN toPeer' : toPeer'[i].type # "ACK"
  BY <1>1 DEF PeerContinues, PeerReads, AckInv, TailOf, HeadOf
<1>5. Acknowledged' = Acknowledged
  BY <1>1 DEF host, file
<1> HIDE DEF Acknowledged
<1> USE DEF TailOf, SentFrom
<1>6. TypeOK'
  BY <1>1, <1>2, <1>3, <1>4, <1>5 DEF PeerContinues, TypeOK, host, file
<1>7. StopAndWait'
  BY <1>1, <1>2, <1>3, <1>4, <1>5 DEF PeerContinues, TypeOK, StopAndWait, host, file
<1>8. FileInv'
  BY <1>1, <1>2, <1>3, <1>4, <1>5 DEF PeerContinues, TypeOK, FileInv, host, file
<1>9. ConnectInv'
  BY <1>1, <1>2, <1>3, <1>4, <1>5 DEF PeerContinues, TypeOK, ConnectInv, host, file
<1>10. AckInv'
  BY <1>1, <1>2, <1>3, <1>4, <1>5 DEF PeerContinues, TypeOK, AckInv, host, file
<1>11. QED
  BY <1>6, <1>7, <1>8, <1>9, <1>10

LEMMA PeerAwaitsOffsetInv == ASSUME Healthy, IInv, PeerAwaitsOffset PROVE IInv'
<1> USE DEF IInv, Healthy, Handling, Acknowledged, Fits
<1>1. /\ TailOf(toPeer, toPeer') /\ HeadOf(toPeer, Head(toPeer)) /\ Head(toPeer).type = "start"
      /\ UNCHANGED <<host, file, confirmed, inLedger, bound, attached, inbox>>
  BY HeadAndTail DEF PeerAwaitsOffset, PeerReads, TypeOK
<1>2. \A i \in DOMAIN toPeer' : toPeer'[i].type # "ACK"
  BY <1>1 DEF PeerAwaitsOffset, AckInv, TailOf, HeadOf
<1> USE DEF TailOf, HeadOf
<1>3. TypeOK'
  BY <1>1, <1>2 DEF PeerAwaitsOffset, TypeOK, host, file
<1>4. StopAndWait'
  BY <1>1, <1>2 DEF PeerAwaitsOffset, TypeOK, StopAndWait, host, file
<1>5. FileInv'
  BY <1>1, <1>2 DEF PeerAwaitsOffset, TypeOK, FileInv, host, file
<1>6. ConnectInv'
  BY <1>1, <1>2 DEF PeerAwaitsOffset, TypeOK, ConnectInv, host, file
<1>7. AckInv'
  BY <1>1, <1>2 DEF PeerAwaitsOffset, TypeOK, AckInv, ConnectInv, host, file
<1>8. QED
  BY <1>3, <1>4, <1>5, <1>6, <1>7

-----------------------------------------------------------------------------
(* IInv is an invariant of every healthy behaviour.                        *)

LEMMA InitIInv == Healthy /\ Init => IInv
<1> SUFFICES ASSUME Healthy, Init PROVE IInv
  OBVIOUS
<1> USE DEF Healthy, Init
<1>0. linked = FALSE /\ size = 0 /\ good = 0 /\ flushed = 0
  OBVIOUS
<1>1. TypeOK
  <2>1. cur \in Frame /\ inbox \in Seq(Frame) /\ outbox \in Seq(Frame) /\ toPeer \in Seq(Frame)
    BY FramesTyped, EmptySeq
  <2>2. size \in Nat /\ good \in 0 .. size /\ flushed \in 0 .. size /\ pos \in Nat
    BY <1>0
  <2>3. pc = "bind" /\ peer = "closed"
    OBVIOUS
  <2>4. /\ reconnected = FALSE /\ completed = FALSE /\ confirmed = FALSE /\ inLedger = TRUE
        /\ fresh = TRUE /\ bound = FALSE /\ attached = FALSE
    OBVIOUS
  <2> HIDE DEF Init
  <2>5. QED
    BY <1>0, <2>1, <2>2, <2>3, <2>4 DEF TypeOK
<1>2. StopAndWait
  BY EmptySeq DEF StopAndWait, Handling
<1>3. FileInv
  BY <1>0, LengthAssumption DEF FileInv
<1>4. ConnectInv /\ AckInv
  BY DEF ConnectInv, AckInv, Handling
<1>5. QED
  BY <1>1, <1>2, <1>3, <1>4 DEF IInv

LEMMA StepIInv == Healthy /\ IInv /\ [Next]_vars => IInv'
<1> SUFFICES ASSUME Healthy, IInv, [Next]_vars PROVE IInv'
  OBVIOUS
<1>1. CASE UNCHANGED vars
  BY <1>1 DEF vars, host, file, wire, uploader, IInv, TypeOK, StopAndWait, Fits,
              Handling, Acknowledged, FileInv, ConnectInv, AckInv
<1>2. CASE Host
  BY <1>2, BindInv, BindFailsInv, EmitStartInv, OpenNewInv, OpenExistingInv,
     OpenToAppendInv, ReceiveDataInv, ReceiveEndInv, SendAckInv, WriteInv,
     ChunkTimesOutInv, ResetInv, ResetFailsInv, GiveUpInv, EmitStartAgainInv,
     SendOffsetInv, ReconnectTimesOutInv, FinishInv,
     DoneUploadingInv, DoneUploadingFailsInv, UnregisterInv
     DEF Host, Healthy, OpenFails, ReopenFails, WriteFails, CloseFails
<1>3. CASE Wire \/ Break
  BY <1>3, AttachInv, DeliverInv, BreakInv DEF Wire
<1>4. CASE Peer \/ PeerGivesUp
  BY <1>4, PeerConnectsInv, PeerStartsInv, PeerAwaitsOffsetInv, PeerResumesInv,
     PeerContinuesInv, PeerGivesUpInv DEF Peer
<1>5. CASE Crash \/ Recover
  BY <1>5 DEF Crash, Recover, Healthy, IInv, FileInv
<1>6. QED
  BY <1>1, <1>2, <1>3, <1>4, <1>5 DEF Next

LEMMA Invariance == Healthy => (Spec => []IInv)
<1> SUFFICES ASSUME Healthy PROVE Spec => []IInv
  OBVIOUS
<1>1. Init => IInv
  BY InitIInv
<1>2. IInv /\ [Next]_vars => IInv'
  BY StepIInv
<1>3. QED
  BY <1>1, <1>2, PTL DEF Spec

(* Every variable keeps its type, and the counters of units their order.   *)
THEOREM TypeCorrect == Healthy => (Spec => []TypeOK)
  BY Invariance, PTL DEF IInv

(* Whatever the network loses and however often the uploader reconnects,   *)
(* the file of an upload is at every moment a prefix of the shard.         *)
THEOREM AlwaysPrefix == Healthy => (Spec => []ShardIsPrefix)
<1>1. IInv => ShardIsPrefix
  BY DEF IInv, FileInv, ShardIsPrefix
<1>2. QED
  BY <1>1, Invariance, PTL

(* The backend is told of an upload only when the whole shard, and nothing *)
(* else, is in the file and out of the buffers.                            *)
THEOREM ConfirmedIsStored == Healthy => (Spec => []ConfirmedMeansStored)
<1>1. IInv => ConfirmedMeansStored
  BY DEF IInv, FileInv, ConfirmedMeansStored
<1>2. QED
  BY <1>1, Invariance, PTL

(* At most one frame that can still be written is on its way, and it is    *)
(* the one that the file goes on with, even if a socket that the uploader  *)
(* has given up had sent it.                                               *)
THEOREM OneFrameInFlight == Healthy => (Spec => []StopAndWait)
  BY Invariance, PTL DEF IInv

(* An uploader never acts on an offset that is not the end of the file.    *)
THEOREM ResumesExactly == Healthy => (Spec => ResumeIsExact)
<1>1. IInv /\ [Next]_vars =>
        [PeerResumes => Head(toPeer).from = size /\ NothingInFlight]_vars
  <2> SUFFICES ASSUME IInv, PeerResumes
               PROVE  Head(toPeer).from = size /\ NothingInFlight
    OBVIOUS
  <2>1. HeadOf(toPeer, Head(toPeer))
    BY HeadAndTail DEF IInv, TypeOK, PeerResumes, PeerReads
  <2>2. QED
    BY <2>1 DEF IInv, ConnectInv, PeerResumes, PeerReads, HeadOf, NothingInFlight, Handling
<1>2. QED
  BY <1>1, Invariance, PTL DEF Spec, ResumeIsExact

-----------------------------------------------------------------------------
(* Receiving an upload implements TransferPromise.                         *)

LEMMA StepRefines == Healthy /\ IInv /\ IInv' /\ [Next]_vars => [Upload!Next]_(Upload!vars)
<1> SUFFICES ASSUME Healthy, IInv, IInv', [Next]_vars
             PROVE  Upload!Next \/ UNCHANGED Upload!vars
  OBVIOUS
<1> USE DEF Upload!Next, Upload!vars, Upload!Grow, Upload!Confirm, Upload!Abandon
<1>1. CASE UNCHANGED vars \/ Wire \/ Break \/ Peer \/ PeerGivesUp
  <2>1. UNCHANGED <<host, file, confirmed>>
    BY <1>1 DEF vars, Wire, Attach, Deliver, Break, Peer, PeerConnects, PeerStarts,
       PeerAwaitsOffset, PeerResumes, PeerContinues, PeerReads, PeerGivesUp
  <2>2. QED
    BY <2>1 DEF host, file
<1>2. CASE Write
  <2>1. /\ good \in Nat /\ good' \in Nat /\ good' > good /\ good' <= ShardLength
        /\ UNCHANGED confirmed /\ pc = "write" /\ pc' = "recv" /\ ~confirmed
    BY <1>2 DEF Write, AppendToFile, IInv, TypeOK, FileInv, StopAndWait, Handling, Frame
  <2>2. QED
    BY <2>1, LengthAssumption
<1>3. CASE DoneUploading
  BY <1>3 DEF DoneUploading, file, IInv, FileInv
<1>4. CASE Host /\ ~Write /\ ~DoneUploading
  <2>1. UNCHANGED <<good, confirmed>>
    BY <1>4 DEF Host, Healthy, Bind, BindFails, Die, EmitStart, OpenNew, OpenExisting,
       OpenToAppend, OpenFails, ReopenFails, ReceiveData, ReceiveEnd, SendAck, WriteFails,
       ChunkTimesOut, Reset,
       ResetFails, CloseFile, GiveUp, EmitStartAgain, SendOffset,
       ReconnectTimesOut, Finish, CloseFails, DoneUploadingFails, Unregister, file,
       IInv, TypeOK, FileInv
  <2>2. pc \notin {"end", "dead"}
    BY <1>4 DEF Host, Healthy, Bind, BindFails, Die, EmitStart, OpenNew, OpenExisting,
       OpenToAppend, OpenFails, ReopenFails, ReceiveData, ReceiveEnd, SendAck, WriteFails,
       ChunkTimesOut, Reset,
       ResetFails, GiveUp, EmitStartAgain, SendOffset,
       ReconnectTimesOut, Finish, CloseFails, DoneUploadingFails, Unregister
  <2>3. QED
    BY <2>1, <2>2
<1>5. CASE Crash \/ Recover
  BY <1>5 DEF Crash, Recover, Healthy, IInv, FileInv
<1>6. QED
  BY <1>1, <1>2, <1>3, <1>4, <1>5 DEF Next

(* A healthy host's upload is the growing of a prefix, confirmed once it   *)
(* is whole and left alone once it is confirmed or abandoned.              *)
THEOREM UploadKeepsPromise == Healthy => (Spec => Promise)
<1> SUFFICES ASSUME Healthy PROVE Spec => Promise
  OBVIOUS
<1>1. Init => Upload!Init
  BY DEF Healthy, Init, Upload!Init
<1>2. IInv /\ IInv' /\ [Next]_vars => [Upload!Next]_(Upload!vars)
  BY StepRefines
<1>3. Spec => []IInv
  BY Invariance
<1>4. QED
  BY <1>1, <1>2, <1>3, PTL DEF Spec, Promise, Upload!Spec

-----------------------------------------------------------------------------
(* The same upload on a host that crashes, or whose disk fails, if no socket of  *)
(* an uploader reconnects by itself.                                       *)

Crashing == Existing = 0 /\ Reconnects = FALSE

LEMMA DetachOnce ==
  ASSUME TypeOK, LineInv, Detach
  PROVE  Detached /\ attached' = FALSE
<1>1. outbox \in Seq(Frame) /\ toPeer \in Seq(Frame) /\ inbox \in Seq(Frame)
  BY DEF TypeOK
<1>2. CASE attached
  <2>1. Len(outbox) <= 1
    BY <1>2 DEF LineInv
  <2>2. QED
    BY <1>1, <2>1, DetachFacts
<1>3. CASE ~attached
  BY <1>1, <1>3 DEF Detach, Detached
<1>4. QED
  BY <1>2, <1>3

LEMMA BindKeeps == ASSUME Crashing, CrashInv, Bind PROVE CrashInv'
<1> USE DEF CrashInv, Handling, Acknowledged, Fits, Listening, OnLine
<1>1. TypeOK'
  BY DEF Bind, file, uploader, TypeOK
<1>2. StoredInv'
  BY DEF Bind, file, StoredInv
<1>3. LineInv'
  BY DEF Bind, LineInv
<1>4. MeetInv'
  BY DEF Bind, file, uploader, MeetInv
<1>5. AnswerInv'
  BY DEF Bind, LineInv, AnswerInv
<1>6. QED
  BY <1>1, <1>2, <1>3, <1>4, <1>5

LEMMA OpenNewKeeps == ASSUME Crashing, CrashInv, OpenNew PROVE CrashInv'
<1> USE DEF CrashInv, Handling, Acknowledged, Fits, Listening, OnLine
<1>1. TypeOK'
  BY DEF OpenNew, wire, uploader, TypeOK
<1>2. StoredInv'
  BY DEF OpenNew, StoredInv
<1>3. LineInv'
  BY DEF OpenNew, wire, uploader, StoredInv, LineInv
<1>4. MeetInv'
  BY DEF OpenNew, wire, uploader, StoredInv, MeetInv
<1>5. AnswerInv'
  BY DEF OpenNew, wire, uploader, StoredInv, AnswerInv
<1>6. QED
  BY <1>1, <1>2, <1>3, <1>4, <1>5

LEMMA OpenToAppendKeeps == ASSUME Crashing, CrashInv, OpenToAppend PROVE CrashInv'
<1> USE DEF CrashInv, Handling, Acknowledged, Fits, Listening, OnLine
<1>1. TypeOK'
  BY DEF OpenToAppend, file, wire, uploader, TypeOK, StoredInv
<1>2. StoredInv'
  BY DEF OpenToAppend, file, StoredInv
<1>3. LineInv'
  BY DEF OpenToAppend, file, wire, uploader, StoredInv, LineInv
<1>4. MeetInv'
  BY DEF OpenToAppend, file, wire, uploader, StoredInv, MeetInv
<1>5. AnswerInv'
  BY DEF OpenToAppend, file, wire, uploader, StoredInv, AnswerInv
<1>6. QED
  BY <1>1, <1>2, <1>3, <1>4, <1>5

LEMMA ChunkTimesOutKeeps == ASSUME Crashing, CrashInv, ChunkTimesOut PROVE CrashInv'
<1> USE DEF CrashInv, Handling, Acknowledged, Fits, Listening, OnLine
<1>1. TypeOK'
  BY DEF ChunkTimesOut, file, wire, uploader, TypeOK
<1>2. StoredInv'
  BY DEF ChunkTimesOut, file, StoredInv
<1>3. LineInv'
  BY DEF ChunkTimesOut, wire, uploader, LineInv
<1>4. MeetInv'
  BY DEF ChunkTimesOut, file, wire, uploader, MeetInv
<1>5. AnswerInv'
  BY DEF ChunkTimesOut, wire, uploader, AnswerInv
<1>6. QED
  BY <1>1, <1>2, <1>3, <1>4, <1>5

LEMMA GiveUpKeeps == ASSUME Crashing, CrashInv, GiveUp PROVE CrashInv'
<1> USE DEF CrashInv, Handling, Acknowledged, Fits, Listening, OnLine
<1>1. TypeOK'
  BY DEF GiveUp, file, wire, uploader, TypeOK
<1>2. StoredInv'
  BY DEF GiveUp, file, StoredInv
<1>3. LineInv'
  BY DEF GiveUp, wire, uploader, LineInv
<1>4. MeetInv'
  BY DEF GiveUp, file, wire, uploader, MeetInv
<1>5. AnswerInv'
  BY DEF GiveUp, wire, uploader, AnswerInv
<1>6. QED
  BY <1>1, <1>2, <1>3, <1>4, <1>5

LEMMA ReopenFailsKeeps == ASSUME Crashing, CrashInv, ReopenFails PROVE CrashInv'
<1> USE DEF CrashInv, Handling, Acknowledged, Fits, Listening, OnLine
<1>1. TypeOK'
  BY DEF ReopenFails, file, wire, uploader, TypeOK
<1>2. StoredInv'
  BY DEF ReopenFails, file, StoredInv
<1>3. LineInv'
  BY DEF ReopenFails, wire, uploader, LineInv
<1>4. MeetInv'
  BY DEF ReopenFails, file, wire, uploader, MeetInv
<1>5. AnswerInv'
  BY DEF ReopenFails, wire, uploader, AnswerInv
<1>6. QED
  BY <1>1, <1>2, <1>3, <1>4, <1>5

LEMMA DoneUploadingKeeps == ASSUME Crashing, CrashInv, DoneUploading PROVE CrashInv'
<1> USE DEF CrashInv, Handling, Acknowledged, Fits, Listening, OnLine
<1>1. TypeOK'
  BY DEF DoneUploading, file, wire, uploader, TypeOK
<1>2. StoredInv'
  BY DEF DoneUploading, file, StoredInv
<1>3. LineInv'
  BY DEF DoneUploading, wire, uploader, LineInv
<1>4. MeetInv'
  BY DEF DoneUploading, file, wire, uploader, MeetInv
<1>5. AnswerInv'
  BY DEF DoneUploading, wire, uploader, AnswerInv
<1>6. QED
  BY <1>1, <1>2, <1>3, <1>4, <1>5

LEMMA DoneUploadingFailsKeeps == ASSUME Crashing, CrashInv, DoneUploadingFails PROVE CrashInv'
<1> USE DEF CrashInv, Handling, Acknowledged, Fits, Listening, OnLine
<1>1. TypeOK'
  BY DEF DoneUploadingFails, file, wire, uploader, TypeOK
<1>2. StoredInv'
  BY DEF DoneUploadingFails, file, StoredInv
<1>3. LineInv'
  BY DEF DoneUploadingFails, wire, uploader, LineInv
<1>4. MeetInv'
  BY DEF DoneUploadingFails, file, wire, uploader, MeetInv
<1>5. AnswerInv'
  BY DEF DoneUploadingFails, wire, uploader, AnswerInv
<1>6. QED
  BY <1>1, <1>2, <1>3, <1>4, <1>5

LEMMA UnregisterKeeps == ASSUME Crashing, CrashInv, Unregister PROVE CrashInv'
<1> USE DEF CrashInv, Handling, Acknowledged, Fits, Listening, OnLine
<1>1. TypeOK'
  BY DEF Unregister, file, wire, uploader, TypeOK
<1>2. StoredInv'
  BY DEF Unregister, file, StoredInv
<1>3. LineInv'
  BY DEF Unregister, wire, uploader, LineInv
<1>4. MeetInv'
  BY DEF Unregister, file, wire, uploader, MeetInv
<1>5. AnswerInv'
  BY DEF Unregister, wire, uploader, AnswerInv
<1>6. QED
  BY <1>1, <1>2, <1>3, <1>4, <1>5

LEMMA RecoverKeeps == ASSUME Crashing, CrashInv, Recover PROVE CrashInv'
<1> USE DEF CrashInv, Handling, Acknowledged, Fits, Listening, OnLine
<1>1. TypeOK'
  BY DEF Recover, file, wire, uploader, TypeOK
<1>2. StoredInv'
  BY DEF Recover, file, StoredInv
<1>3. LineInv'
  BY DEF Recover, wire, LineInv
<1>4. MeetInv'
  BY DEF Recover, file, wire, uploader, MeetInv
<1>5. AnswerInv'
  BY DEF Recover, wire, uploader, AnswerInv
<1>6. QED
  BY <1>1, <1>2, <1>3, <1>4, <1>5

LEMMA PeerConnectsKeeps == ASSUME Crashing, CrashInv, PeerConnects PROVE CrashInv'
<1> USE DEF CrashInv, Handling, Acknowledged, Fits, Listening, OnLine
<1>1. TypeOK'
  BY DEF PeerConnects, host, file, wire, TypeOK
<1>2. StoredInv'
  BY DEF PeerConnects, host, file, StoredInv
<1>3. LineInv'
  BY DEF PeerConnects, host, file, wire, LineInv
<1>4. MeetInv'
  BY DEF PeerConnects, host, file, wire, LineInv, MeetInv
<1>5. AnswerInv'
  BY DEF PeerConnects, wire, LineInv, AnswerInv
<1>6. QED
  BY <1>1, <1>2, <1>3, <1>4, <1>5

LEMMA AttachKeeps == ASSUME Crashing, CrashInv, Attach PROVE CrashInv'
<1> USE DEF CrashInv, Handling, Acknowledged, Fits, Listening, OnLine
<1>1. TypeOK'
  BY DEF Attach, host, file, uploader, TypeOK
<1>2. StoredInv'
  BY DEF Attach, host, file, StoredInv
<1>3. LineInv'
  BY DEF Attach, host, file, uploader, Crashing, LineInv, MeetInv
<1>4. MeetInv'
  BY DEF Attach, host, file, uploader, Crashing, MeetInv
<1>5. AnswerInv'
  BY DEF Attach, uploader, Crashing, AnswerInv
<1>6. QED
  BY <1>1, <1>2, <1>3, <1>4, <1>5

LEMMA PeerGivesUpKeeps == ASSUME Crashing, CrashInv, PeerGivesUp PROVE CrashInv'
<1> USE DEF CrashInv, Handling, Acknowledged, Fits, Listening, OnLine
<1>1. TypeOK'
  BY EmptySeq DEF PeerGivesUp, host, file, TypeOK
<1>2. StoredInv'
  BY DEF PeerGivesUp, host, file, StoredInv
<1>3. LineInv'
  BY DEF PeerGivesUp, host, file, LineInv
<1>4. MeetInv'
  BY DEF PeerGivesUp, MeetInv
<1>5. AnswerInv'
  BY DEF PeerGivesUp, AnswerInv
<1>6. QED
  BY <1>1, <1>2, <1>3, <1>4, <1>5

LEMMA DieKeeps == ASSUME Crashing, CrashInv, Die PROVE CrashInv'
<1> USE DEF CrashInv, Handling, Acknowledged, Fits, Listening, OnLine
<1>1. Detached /\ attached' = FALSE
  BY DetachOnce DEF Die, CloseSocket
<1> USE DEF Detached
<1>2. TypeOK'
  BY <1>1, EmptySeq DEF Die, CloseSocket, file, uploader, TypeOK
<1>3. StoredInv'
  BY DEF Die, file, StoredInv
<1>4. LineInv'
  BY <1>1 DEF Die, CloseSocket, LineInv
<1>5. MeetInv'
  BY <1>1 DEF Die, CloseSocket, file, uploader, MeetInv
<1>6. AnswerInv'
  BY <1>1 DEF AnswerInv
<1>7. QED
  BY <1>2, <1>3, <1>4, <1>5, <1>6

LEMMA ResetKeeps == ASSUME Crashing, CrashInv, Reset PROVE CrashInv'
<1> USE DEF CrashInv, Handling, Acknowledged, Fits, Listening, OnLine
<1>1. Detached /\ attached' = FALSE
  BY DetachOnce DEF Reset
<1> USE DEF Detached
<1>2. TypeOK'
  BY <1>1, EmptySeq DEF Reset, CloseFile, uploader, TypeOK, StoredInv
<1>3. StoredInv'
  BY DEF Reset, CloseFile, StoredInv
<1>4. LineInv'
  BY <1>1 DEF Reset, LineInv
<1>5. MeetInv'
  BY <1>1 DEF Reset, CloseFile, uploader, MeetInv
<1>6. AnswerInv'
  BY <1>1 DEF AnswerInv
<1>7. QED
  BY <1>2, <1>3, <1>4, <1>5, <1>6

LEMMA ResetFailsKeeps == ASSUME Crashing, CrashInv, ResetFails PROVE CrashInv'
<1> USE DEF CrashInv, Handling, Acknowledged, Fits, Listening, OnLine
<1>1. Detached /\ attached' = FALSE
  BY DetachOnce DEF ResetFails, CloseSocket
<1> USE DEF Detached
<1>2. TypeOK'
  BY <1>1, EmptySeq DEF ResetFails, CloseFile, CloseSocket, uploader, TypeOK, StoredInv
<1>3. StoredInv'
  BY DEF ResetFails, CloseFile, StoredInv
<1>4. LineInv'
  BY <1>1 DEF ResetFails, CloseSocket, LineInv
<1>5. MeetInv'
  BY <1>1 DEF ResetFails, CloseFile, CloseSocket, uploader, MeetInv
<1>6. AnswerInv'
  BY <1>1 DEF AnswerInv
<1>7. QED
  BY <1>2, <1>3, <1>4, <1>5, <1>6

LEMMA FinishKeeps == ASSUME Crashing, CrashInv, Finish PROVE CrashInv'
<1> USE DEF CrashInv, Handling, Acknowledged, Fits, Listening, OnLine
<1>1. Detached /\ attached' = FALSE
  BY DetachOnce DEF Finish, CloseSocket
<1> USE DEF Detached
<1>2. TypeOK'
  BY <1>1, EmptySeq DEF Finish, CloseFile, CloseSocket, uploader, TypeOK, StoredInv
<1>3. StoredInv'
  BY DEF Finish, CloseFile, StoredInv
<1>4. LineInv'
  BY <1>1 DEF Finish, CloseSocket, LineInv
<1>5. MeetInv'
  BY <1>1 DEF Finish, CloseFile, CloseSocket, uploader, MeetInv
<1>6. AnswerInv'
  BY <1>1 DEF AnswerInv
<1>7. QED
  BY <1>2, <1>3, <1>4, <1>5, <1>6

LEMMA BreakKeeps == ASSUME Crashing, CrashInv, Break PROVE CrashInv'
<1> USE DEF CrashInv, Handling, Acknowledged, Fits, Listening, OnLine
<1>1. Detached /\ attached' = FALSE
  BY DetachOnce DEF Break
<1> USE DEF Detached
<1>2. TypeOK'
  <2>1. outbox' \in Seq(Frame)
    BY <1>1, EmptySeq DEF TypeOK
  <2>2. toPeer' \in Seq(Frame) /\ attached' = FALSE
    BY <1>1
  <2>3. UNCHANGED <<pc, reconnected, cur, completed, linked, size, good, flushed,
                    confirmed, inLedger, bound, inbox, peer, fresh, pos>>
    BY DEF Break, host, file, uploader
  <2>4. QED
    BY <2>1, <2>2, <2>3, StillTyped
<1>3. StoredInv'
  BY DEF Break, host, file, StoredInv
<1>4. LineInv'
  BY <1>1 DEF Break, host, file, LineInv
<1>5. MeetInv'
  BY <1>1 DEF Break, host, file, uploader, MeetInv
<1>6. AnswerInv'
  BY <1>1 DEF AnswerInv
<1>7. QED
  BY <1>2, <1>3, <1>4, <1>5, <1>6

LEMMA CrashKeeps == ASSUME Crashing, CrashInv, Crash PROVE CrashInv'
<1> USE DEF CrashInv, Handling, Acknowledged, Fits, Listening, OnLine
<1>1. Detached /\ attached' = FALSE
  BY DetachOnce DEF Crash, CloseSocket
<1>2. size' = flushed /\ good' = flushed /\ flushed \in Nat /\ flushed <= size /\ flushed <= ShardLength
  BY LengthAssumption DEF Crash, TypeOK, StoredInv
<1> USE DEF Detached
<1>3. TypeOK'
  <2>1. outbox' \in Seq(Frame) /\ toPeer' \in Seq(Frame) /\ inbox' \in Seq(Frame)
    BY <1>1, EmptySeq DEF Crash, CloseSocket, TypeOK
  <2>2. size' \in Nat /\ good' \in 0 .. size' /\ flushed' \in 0 .. size' /\ flushed' = flushed
    BY <1>2 DEF Crash
  <2>3. pc' = "down" /\ bound' = FALSE
    BY DEF Crash, CloseSocket
  <2>4. UNCHANGED <<reconnected, cur, completed, linked, confirmed, inLedger, peer, fresh, pos>>
    BY DEF Crash, uploader
  <2>5. QED
    BY <1>1, <2>1, <2>2, <2>3, <2>4 DEF TypeOK
<1>4. StoredInv'
  <2>1. /\ pc' = "down" /\ UNCHANGED <<linked, flushed, completed, confirmed>>
    BY DEF Crash
  <2>2. (~linked => size' = 0) /\ (confirmed => size' = size)
    BY <1>2 DEF StoredInv
  <2>3. QED
    BY <1>2, <2>1 DEF StoredInv
<1>5. LineInv'
  <2>1. /\ pc' = "down" /\ bound' = FALSE /\ inbox' = <<>>
    BY DEF Crash, CloseSocket
  <2>2. QED
    BY <1>1, <2>1 DEF LineInv
<1>6. MeetInv'
  BY <1>1, <1>2 DEF Crash, CloseSocket, uploader, MeetInv
<1>7. AnswerInv'
  BY <1>1 DEF AnswerInv
<1>8. QED
  BY <1>3, <1>4, <1>5, <1>6, <1>7

-----------------------------------------------------------------------------
(* The steps of that host that send, receive and write.                    *)

LEMMA EmitStartKeeps == ASSUME Crashing, CrashInv, EmitStart PROVE CrashInv'
<1> USE DEF CrashInv, Handling, Acknowledged, Fits, Listening, OnLine
<1> DEFINE sent == Start
<1>1. sent \in Frame
  BY FramesTyped
<1>2. /\ attached
      /\ toPeer \in Seq(Frame)
      /\ toPeer' = Append(toPeer, sent)
      /\ UNCHANGED <<bound, attached, inbox, outbox>>
  BY DEF EmitStart, HostSends, TypeOK
<1>3. /\ toPeer' \in Seq(Frame) /\ toPeer' # <<>>
      /\ toPeer'[Len(toPeer) + 1] = sent
      /\ \A i \in DOMAIN toPeer : i \in DOMAIN toPeer' /\ toPeer'[i] = toPeer[i] /\ i < Len(toPeer) + 1
      /\ \A i \in DOMAIN toPeer' : i \in DOMAIN toPeer \/ i = Len(toPeer) + 1
  BY <1>1, <1>2
<1>4. DOMAIN toPeer = 1 .. Len(toPeer) /\ Len(toPeer) \in Nat
  OBVIOUS
<1>5. sent.type = "start" /\ sent.from = 0
  BY DEF Start
<1> HIDE DEF sent
<1>6. TypeOK'
  BY <1>1, <1>2 DEF EmitStart, file, uploader, TypeOK
<1>7. StoredInv'
  BY DEF EmitStart, file, StoredInv
<1>8. LineInv'
  BY <1>2 DEF EmitStart, file, uploader, LineInv
<1>9. MeetInv'
  BY <1>2, <1>5 DEF EmitStart, file, uploader, LineInv, MeetInv
<1>10. AnswerInv'
  BY <1>2, <1>5 DEF EmitStart, file, uploader, AnswerInv
<1>11. QED
  BY <1>6, <1>7, <1>8, <1>9, <1>10

LEMMA EmitStartAgainKeeps == ASSUME Crashing, CrashInv, EmitStartAgain PROVE CrashInv'
<1> USE DEF CrashInv, Handling, Acknowledged, Fits, Listening, OnLine
<1> DEFINE sent == Start
<1>1. sent \in Frame
  BY FramesTyped
<1>2. /\ attached
      /\ toPeer \in Seq(Frame)
      /\ toPeer' = Append(toPeer, sent)
      /\ UNCHANGED <<bound, attached, inbox, outbox>>
  BY DEF EmitStartAgain, HostSends, TypeOK
<1>3. /\ toPeer' \in Seq(Frame) /\ toPeer' # <<>>
      /\ toPeer'[Len(toPeer) + 1] = sent
      /\ \A i \in DOMAIN toPeer : i \in DOMAIN toPeer' /\ toPeer'[i] = toPeer[i] /\ i < Len(toPeer) + 1
      /\ \A i \in DOMAIN toPeer' : i \in DOMAIN toPeer \/ i = Len(toPeer) + 1
  BY <1>1, <1>2
<1>4. DOMAIN toPeer = 1 .. Len(toPeer) /\ Len(toPeer) \in Nat
  OBVIOUS
<1>5. sent.type = "start" /\ sent.from = 0
  BY DEF Start
<1> HIDE DEF sent
<1>6. TypeOK'
  BY <1>1, <1>2 DEF EmitStartAgain, file, uploader, TypeOK
<1>7. StoredInv'
  BY DEF EmitStartAgain, file, StoredInv
<1>8. LineInv'
  BY <1>2 DEF EmitStartAgain, file, uploader, LineInv
<1>9. MeetInv'
  BY <1>2, <1>5 DEF EmitStartAgain, file, uploader, LineInv, MeetInv
<1>10. AnswerInv'
  BY <1>2, <1>5 DEF EmitStartAgain, file, uploader, AnswerInv
<1>11. QED
  BY <1>6, <1>7, <1>8, <1>9, <1>10

LEMMA OpenExistingKeeps == ASSUME Crashing, CrashInv, OpenExisting PROVE CrashInv'
<1> USE DEF CrashInv, Handling, Acknowledged, Fits, Listening, OnLine
<1> DEFINE sent == Resume(flushed)
<1>1. sent \in Frame
  BY FramesTyped DEF TypeOK
<1>2. /\ attached
      /\ toPeer \in Seq(Frame)
      /\ toPeer' = Append(toPeer, sent)
      /\ UNCHANGED <<bound, attached, inbox, outbox>>
  BY DEF OpenExisting, HostSends, TypeOK
<1>3. /\ toPeer' \in Seq(Frame) /\ toPeer' # <<>>
      /\ toPeer'[Len(toPeer) + 1] = sent
      /\ \A i \in DOMAIN toPeer : i \in DOMAIN toPeer' /\ toPeer'[i] = toPeer[i] /\ i < Len(toPeer) + 1
      /\ \A i \in DOMAIN toPeer' : i \in DOMAIN toPeer \/ i = Len(toPeer) + 1
  BY <1>1, <1>2
<1>4. DOMAIN toPeer = 1 .. Len(toPeer) /\ Len(toPeer) \in Nat
  OBVIOUS
<1>5. sent.type = "resume" /\ sent.from = flushed
  BY DEF Resume
<1> HIDE DEF sent
<1>6. TypeOK'
  BY <1>1, <1>2 DEF OpenExisting, file, uploader, TypeOK
<1>7. StoredInv'
  BY DEF OpenExisting, file, StoredInv
<1>8. LineInv'
  BY <1>2 DEF OpenExisting, file, uploader, LineInv
<1>9. MeetInv'
  BY <1>2, <1>5 DEF OpenExisting, file, uploader, StoredInv, LineInv, MeetInv
<1>10. AnswerInv'
  BY <1>2, <1>5 DEF OpenExisting, file, uploader, AnswerInv
<1>11. QED
  BY <1>6, <1>7, <1>8, <1>9, <1>10

LEMMA SendOffsetKeeps == ASSUME Crashing, CrashInv, SendOffset PROVE CrashInv'
<1> USE DEF CrashInv, Handling, Acknowledged, Fits, Listening, OnLine
<1> DEFINE sent == Resume(flushed)
<1>1. sent \in Frame
  BY FramesTyped DEF TypeOK
<1>2. /\ attached
      /\ toPeer \in Seq(Frame)
      /\ toPeer' = Append(toPeer, sent)
      /\ UNCHANGED <<bound, attached, inbox, outbox>>
  BY DEF SendOffset, HostSends, TypeOK
<1>3. /\ toPeer' \in Seq(Frame) /\ toPeer' # <<>>
      /\ toPeer'[Len(toPeer) + 1] = sent
      /\ \A i \in DOMAIN toPeer : i \in DOMAIN toPeer' /\ toPeer'[i] = toPeer[i] /\ i < Len(toPeer) + 1
      /\ \A i \in DOMAIN toPeer' : i \in DOMAIN toPeer \/ i = Len(toPeer) + 1
  BY <1>1, <1>2
<1>4. DOMAIN toPeer = 1 .. Len(toPeer) /\ Len(toPeer) \in Nat
  OBVIOUS
<1>5. sent.type = "resume" /\ sent.from = flushed
  BY DEF Resume
<1> HIDE DEF sent
<1>6. TypeOK'
  BY <1>1, <1>2 DEF SendOffset, file, uploader, TypeOK
<1>7. StoredInv'
  BY DEF SendOffset, file, StoredInv
<1>8. LineInv'
  BY <1>2 DEF SendOffset, file, uploader, LineInv
<1>9. MeetInv'
  BY <1>2, <1>5 DEF SendOffset, file, uploader, StoredInv, LineInv, MeetInv
<1>10. AnswerInv'
  BY <1>2, <1>5 DEF SendOffset, file, uploader, AnswerInv
<1>11. QED
  BY <1>6, <1>7, <1>8, <1>9, <1>10

LEMMA SendAckKeeps == ASSUME Crashing, CrashInv, SendAck PROVE CrashInv'
<1> USE DEF CrashInv, Handling, Acknowledged, Fits, Listening, OnLine
<1> DEFINE sent == ACK
<1>1. sent \in Frame
  BY FramesTyped
<1>2. /\ attached
      /\ toPeer \in Seq(Frame)
      /\ toPeer' = Append(toPeer, sent)
      /\ UNCHANGED <<bound, attached, inbox, outbox>>
  BY DEF SendAck, HostSends, TypeOK
<1>3. /\ toPeer' \in Seq(Frame) /\ toPeer' # <<>>
      /\ toPeer'[Len(toPeer) + 1] = sent
      /\ \A i \in DOMAIN toPeer : i \in DOMAIN toPeer' /\ toPeer'[i] = toPeer[i] /\ i < Len(toPeer) + 1
      /\ \A i \in DOMAIN toPeer' : i \in DOMAIN toPeer \/ i = Len(toPeer) + 1
  BY <1>1, <1>2
<1>4. DOMAIN toPeer = 1 .. Len(toPeer) /\ Len(toPeer) \in Nat
  OBVIOUS
<1>5. sent.type = "ACK" /\ sent.from = 0
  BY DEF ACK
<1> HIDE DEF sent
<1>6. TypeOK'
  BY <1>1, <1>2 DEF SendAck, file, uploader, TypeOK
<1>7. StoredInv'
  BY DEF SendAck, file, StoredInv
<1>8. LineInv'
  BY <1>2 DEF SendAck, file, uploader, LineInv
<1>9. MeetInv'
  BY <1>2, <1>5 DEF SendAck, uploader, LineInv, MeetInv
<1>10. AnswerInv'
  BY <1>2 DEF SendAck, uploader, LineInv, AnswerInv, MeetInv
<1>11. QED
  BY <1>6, <1>7, <1>8, <1>9, <1>10

(* The only frame of a sequence, and what is left when it is taken.        *)
LEMMA TakeOnly ==
  ASSUME NEW s \in Seq(Frame), Len(s) <= 1, s # <<>>
  PROVE  Tail(s) = <<>> /\ Len(s) = 1 /\ HeadOf(s, Head(s))
<1>1. TailOf(s, Tail(s)) /\ HeadOf(s, Head(s)) /\ Len(s) \in Nat /\ Len(s) # 0
  BY HeadAndTail
<1>2. Len(s) = 1
  <2>1. \A a \in Nat : a <= 1 /\ a # 0 => a = 1
    OBVIOUS
  <2>2. QED
    BY <2>1
<1>3. Len(Tail(s)) = 0 /\ Tail(s) \in Seq(Frame)
  BY <1>2
<1>4. Tail(s) = <<>>
  OBVIOUS
<1>5. QED
  BY <1>1, <1>2, <1>4

LEMMA ReceiveDataKeeps == ASSUME Crashing, CrashInv, ReceiveData PROVE CrashInv'
<1> USE DEF CrashInv, Handling, Acknowledged, Fits, Listening, OnLine
<1>1. inbox # <<>> /\ Tail(inbox) = <<>> /\ Len(inbox) = 1 /\ HeadOf(inbox, Head(inbox))
  BY TakeOnly DEF ReceiveData, TypeOK, LineInv
<1>2. inbox' = <<>> /\ UNCHANGED <<outbox, toPeer, attached, bound>> /\ (attached => outbox = <<>>)
  <2>1. attached => Len(outbox) = 0
    BY <1>1 DEF LineInv
  <2>2. QED
    BY <1>1, <2>1 DEF ReceiveData
<1> USE DEF HeadOf
<1>3. TypeOK'
  BY DEF ReceiveData, file, uploader, TypeOK
<1>4. StoredInv'
  BY DEF ReceiveData, file, StoredInv
<1>5. LineInv'
  <2>1. /\ Fits(inbox[1]) /\ pc = "recv" /\ size \in Nat
        /\ pc' = "ack" /\ UNCHANGED <<size, peer>>
    BY DEF ReceiveData, TypeOK, LineInv, file, uploader
  <2>2. Len(inbox') = 0 /\ (attached => Len(outbox') = 0) /\ DOMAIN inbox' = {}
    BY <1>2
  <2>3. Handling' => /\ cur'.type = "data" /\ cur'.from = size'
                     /\ cur'.from < cur'.to /\ cur'.to <= ShardLength
    BY <2>1 DEF ReceiveData
  <2>4. QED
    BY <1>2, <2>1, <2>3 DEF LineInv
<1>6. MeetInv'
  BY DEF ReceiveData, uploader, MeetInv
<1>7. AnswerInv'
  BY <1>1, <1>2 DEF ReceiveData, uploader, AnswerInv
<1>8. QED
  BY <1>3, <1>4, <1>5, <1>6, <1>7

LEMMA ReceiveEndKeeps == ASSUME Crashing, CrashInv, ReceiveEnd PROVE CrashInv'
<1> USE DEF CrashInv, Handling, Acknowledged, Fits, Listening, OnLine
<1>1. inbox # <<>> /\ Tail(inbox) = <<>> /\ Len(inbox) = 1 /\ HeadOf(inbox, Head(inbox))
  BY TakeOnly DEF ReceiveEnd, TypeOK, LineInv
<1>2. inbox' = <<>> /\ UNCHANGED <<outbox, toPeer, attached, bound>> /\ (attached => outbox = <<>>)
  <2>1. attached => Len(outbox) = 0
    BY <1>1 DEF LineInv
  <2>2. QED
    BY <1>1, <2>1 DEF ReceiveEnd
<1> USE DEF HeadOf
<1>3. TypeOK'
  BY DEF ReceiveEnd, file, uploader, TypeOK
<1>4. StoredInv'
  BY DEF ReceiveEnd, file, StoredInv, LineInv
<1>5. LineInv'
  <2>1. /\ Fits(inbox[1]) /\ pc = "recv" /\ size \in Nat
        /\ pc' = "finish" /\ UNCHANGED <<size, peer>>
    BY DEF ReceiveEnd, TypeOK, LineInv, file, uploader
  <2>2. Len(inbox') = 0 /\ (attached => Len(outbox') = 0) /\ DOMAIN inbox' = {}
    BY <1>2
  <2>3. ~Handling'
    BY <2>1
  <2>4. QED
    BY <1>2, <2>1 DEF LineInv
<1>6. MeetInv'
  BY DEF ReceiveEnd, uploader, MeetInv
<1>7. AnswerInv'
  BY DEF ReceiveEnd, uploader, AnswerInv
<1>8. QED
  BY <1>3, <1>4, <1>5, <1>6, <1>7

LEMMA DeliverKeeps == ASSUME Crashing, CrashInv, Deliver PROVE CrashInv'
<1> USE DEF CrashInv, Handling, Acknowledged, Fits, Listening, OnLine
<1>1. /\ attached /\ outbox # <<>> /\ Tail(outbox) = <<>> /\ Len(outbox) = 1 /\ HeadOf(outbox, Head(outbox))
      /\ inbox = <<>>
  <2>1. attached /\ outbox \in Seq(Frame) /\ inbox \in Seq(Frame) /\ outbox # <<>>
    BY DEF Deliver, TypeOK
  <2>2. Len(outbox) <= 1 /\ Len(inbox) = 0
    BY <2>1 DEF LineInv
  <2>3. QED
    BY <2>1, <2>2, TakeOnly
<1>2. inbox' = <<Head(outbox)>> /\ outbox' = <<>> /\ pc \notin {"ack", "bind", "start", "restart", "down"}
  BY <1>1 DEF Deliver, LineInv, MeetInv
<1>3. /\ inbox' \in Seq(Frame) /\ Len(inbox') = 1 /\ Len(outbox') = 0
      /\ DOMAIN inbox' = {1} /\ inbox'[1] = outbox[1] /\ 1 \in DOMAIN outbox
  BY <1>1, <1>2 DEF HeadOf
<1>4. peer \in {"ack", "done"}
  BY <1>1 DEF MeetInv, TypeOK
<1>5. UNCHANGED <<host, file, confirmed, inLedger, bound, attached, toPeer, uploader>>
  BY DEF Deliver
<1>6. TypeOK'
  BY <1>1, <1>2, <1>5 DEF host, file, uploader, TypeOK
<1>7. StoredInv'
  BY <1>5 DEF host, file, StoredInv
<1>8. LineInv'
  <2>1. UNCHANGED <<pc, cur, size, bound, attached, peer, toPeer>>
    BY <1>5 DEF host, file, uploader
  <2>2. Listening => Fits(outbox[1])
    BY <1>1 DEF LineInv
  <2>3. (Listening => \A i \in DOMAIN inbox : Fits(inbox[i]))'
    BY <1>3, <2>1, <2>2
  <2>4. DOMAIN outbox' = {} /\ Len(inbox') <= 1 /\ Len(inbox') + Len(outbox') <= 1
    BY <1>2
  <2>5. QED
    BY <1>2, <2>1, <2>3 DEF LineInv
<1>9. MeetInv'
  BY <1>1, <1>5 DEF uploader, MeetInv
<1>10. AnswerInv'
  BY <1>1, <1>2, <1>5 DEF host, uploader, AnswerInv
<1>11. QED
  BY <1>6, <1>7, <1>8, <1>9, <1>10

LEMMA WriteKeeps == ASSUME Crashing, CrashInv, Write PROVE CrashInv'
<1> USE DEF CrashInv, Handling, Acknowledged, Fits, Listening, OnLine
<1>1. /\ cur.from \in Nat /\ cur.to \in Nat /\ cur.from = size /\ size < cur.to /\ cur.to <= ShardLength
      /\ pc = "write" /\ pc' = "recv" /\ linked /\ ~confirmed
  BY DEF Write, Frame, TypeOK, StoredInv, LineInv
<1>2. size' = cur.to /\ good' = cur.to /\ flushed' \in 0 .. size'
  BY <1>1 DEF Write, AppendToFile, TypeOK, StoredInv
<1>3. UNCHANGED <<reconnected, cur, completed, linked, confirmed, inLedger, wire, uploader>>
  BY DEF Write, AppendToFile
<1>4. Acknowledged' = Acknowledged
  BY <1>1, <1>2
<1> HIDE DEF Acknowledged
<1>5. TypeOK'
  BY <1>1, <1>2, <1>3 DEF wire, uploader, TypeOK
<1>6. StoredInv'
  BY <1>1, <1>2, <1>3 DEF StoredInv
<1>7. LineInv'
  BY <1>1, <1>3, <1>4 DEF wire, uploader, LineInv
<1>8. MeetInv'
  BY <1>1, <1>3 DEF wire, uploader, MeetInv
<1>9. AnswerInv'
  BY <1>1, <1>3, <1>4 DEF wire, uploader, AnswerInv
<1>10. QED
  BY <1>5, <1>6, <1>7, <1>8, <1>9

LEMMA WriteFailsKeeps == ASSUME Crashing, CrashInv, WriteFails PROVE CrashInv'
<1> USE DEF CrashInv, Handling, Acknowledged, Fits, Listening, OnLine
<1>1. /\ cur.from \in Nat /\ cur.to \in Nat /\ cur.from = size /\ size < cur.to /\ cur.to <= ShardLength
      /\ pc = "write" /\ pc' = "lost" /\ linked /\ ~confirmed
  BY DEF WriteFails, Frame, TypeOK, StoredInv, LineInv
<1>2. PICK n \in 0 .. cur.to - cur.from : AppendToFile(n)
  BY DEF WriteFails
<1>3. size' \in Nat /\ size' <= ShardLength /\ good' = size' /\ flushed' \in 0 .. size' /\ UNCHANGED linked
  BY <1>1, <1>2, LengthAssumption DEF AppendToFile, TypeOK, StoredInv
<1>4. UNCHANGED <<reconnected, cur, completed, confirmed, inLedger, wire, uploader>>
  BY DEF WriteFails
<1>5. TypeOK'
  BY <1>1, <1>3, <1>4 DEF wire, uploader, TypeOK
<1>6. StoredInv'
  BY <1>1, <1>3, <1>4 DEF StoredInv
<1>7. LineInv'
  BY <1>1, <1>4 DEF wire, uploader, LineInv
<1>8. MeetInv'
  BY <1>1, <1>4 DEF wire, uploader, MeetInv
<1>9. AnswerInv'
  BY <1>1, <1>4 DEF wire, uploader, AnswerInv
<1>10. QED
  BY <1>5, <1>6, <1>7, <1>8, <1>9

-----------------------------------------------------------------------------
(* The steps of its uploader.                                              *)

(* Whatever an uploader sends, its socket holds nothing else if it is      *)
(* connected.                                                              *)
SentOnly(n) ==
  /\ outbox' \in Seq(Frame) /\ pos' \in Nat /\ peer' \in {"ack", "done"}
  /\ outbox = <<>> => Len(outbox') = 1
  /\ n <= ShardLength /\ outbox = <<>> => SentFrom(n)

LEMMA SendsOnly ==
  ASSUME outbox \in Seq(Frame), NEW n \in Nat, PeerSendsFrom(n)
  PROVE  SentOnly(n)
<1> DEFINE to == IF n + ChunkSize < ShardLength THEN n + ChunkSize ELSE ShardLength
<1>1. to \in Nat
  BY ChunkAssumption, LengthAssumption
<1>2. \/ outbox' = Append(outbox, Data(n, to)) /\ pos' = to /\ peer' = "ack"
      \/ outbox' = Append(outbox, END) /\ pos' = n /\ peer' = "done"
  BY DEF PeerSendsFrom
<1>3. Data(n, to) \in Frame /\ END \in Frame
  BY <1>1, FramesTyped
<1>4. \E f \in Frame : outbox' = Append(outbox, f)
  BY <1>2, <1>3
<1>5. outbox' \in Seq(Frame) /\ Len(outbox') = Len(outbox) + 1
  BY <1>4
<1>6. outbox = <<>> => Len(outbox') = 1
  BY <1>5
<1>7. n <= ShardLength /\ outbox = <<>> => SentFrom(n)
  BY SendsFits
<1>8. QED
  BY <1>1, <1>2, <1>5, <1>7 DEF SentOnly

(* The three steps with which an uploader sends: when it is connected, and *)
(* the host listens, what it sends fits the file.                          *)
LEMMA SendingKeeps ==
  ASSUME Crashing, CrashInv, NEW n \in Nat, SentOnly(n), TailOf(toPeer, toPeer'),
         toPeer # <<>>,
         attached => outbox = <<>> /\ inbox = <<>> /\ pc # "ack",
         OnLine => n = Acknowledged,
         attached => \A i \in DOMAIN toPeer' : toPeer'[i].type # "ACK",
         UNCHANGED <<host, file, confirmed, inLedger, bound, attached, inbox, fresh>>
  PROVE  CrashInv'
<1> USE DEF CrashInv
<1>1. /\ UNCHANGED <<pc, cur, size, bound, attached, inbox>>
      /\ UNCHANGED <<Acknowledged, Listening, OnLine, Handling>>
  BY DEF host, file, Acknowledged, Listening, OnLine, Handling
<1>2. /\ outbox' \in Seq(Frame) /\ pos' \in Nat /\ peer' \in {"ack", "done"} /\ toPeer' \in Seq(Frame)
      /\ attached => Len(outbox') = 1
  BY DEF SentOnly, TailOf
<1>3. OnLine => SentFrom(n) /\ n = Acknowledged
  BY DEF SentOnly, StoredInv, LineInv, OnLine, Acknowledged, Handling
<1>4. TypeOK'
  BY <1>2 DEF TypeOK, host, file
<1>5. StoredInv'
  BY <1>1 DEF StoredInv, host, file
<1>6. LineInv'
  <2>1. pc \in {"start", "restart"} => ~attached
    BY DEF LineInv
  <2>2. (OnLine => \A i \in DOMAIN outbox : Fits(outbox[i]))'
    BY <1>1, <1>3 DEF SentFrom, Fits
  <2>3. (Listening => \A i \in DOMAIN inbox : Fits(inbox[i]))'
    BY <1>1 DEF LineInv, Fits
  <2>4. Len(inbox') <= 1 /\ (attached => Len(inbox') + Len(outbox') <= 1)
    <3>1. ASSUME attached PROVE Len(inbox') + Len(outbox') <= 1
      <4>1. inbox' = <<>> /\ Len(outbox') = 1
        BY <1>2, <3>1
      <4>2. Len(inbox') = 0
        BY <4>1
      <4>3. QED
        BY <4>1
    <3>2. Len(inbox') <= 1
      BY DEF LineInv
    <3>3. QED
      BY <3>1, <3>2
  <2>5. Handling' => /\ cur'.type = "data" /\ cur'.from = size'
                     /\ cur'.from < cur'.to /\ cur'.to <= ShardLength
    BY <1>1 DEF LineInv
  <2>6. pc = "ack" => ~attached /\ inbox = <<>>
    BY DEF LineInv
  <2>7. QED
    BY <1>1, <1>2, <2>2, <2>3, <2>4 DEF LineInv
<1>7. MeetInv'
  BY <1>2 DEF MeetInv
<1>8. AnswerInv'
  <2>1. OnLine /\ peer' = "ack" => \A i \in DOMAIN outbox' : outbox'[i].to = pos'
    BY <1>3 DEF SentFrom
  <2>2. attached => inbox' = <<>> /\ pc' # "ack"
    BY <1>1
  <2>3. QED
    BY <1>1, <2>1 DEF AnswerInv, OnLine
<1>9. QED
  BY <1>4, <1>5, <1>6, <1>7, <1>8

LEMMA PeerStartsKeeps == ASSUME Crashing, CrashInv, PeerStarts PROVE CrashInv'
<1> USE DEF CrashInv
<1>1. /\ toPeer # <<>> /\ TailOf(toPeer, toPeer') /\ HeadOf(toPeer, Head(toPeer))
      /\ UNCHANGED <<host, file, confirmed, inLedger, bound, attached, inbox, fresh>>
  BY HeadAndTail DEF PeerStarts, PeerReads, TypeOK
<1>2. 0 \in Nat /\ outbox \in Seq(Frame)
  BY DEF TypeOK
<1>3. SentOnly(0)
  BY <1>2, SendsOnly DEF PeerStarts
<1>4. attached => outbox = <<>> /\ inbox = <<>> /\ pc # "ack" /\ ~Handling
  BY DEF PeerStarts, MeetInv, Handling
<1>5. OnLine => 0 = Acknowledged
  BY DEF PeerStarts, MeetInv, Acknowledged, Handling
<1>6. attached => \A i \in DOMAIN toPeer' : toPeer'[i].type # "ACK"
  BY <1>1 DEF PeerStarts, PeerReads, AnswerInv, TailOf
<1>7. QED
  BY <1>1, <1>3, <1>4, <1>5, <1>6, SendingKeeps

LEMMA PeerResumesKeeps == ASSUME Crashing, CrashInv, PeerResumes PROVE CrashInv'
<1> USE DEF CrashInv
<1>1. /\ toPeer # <<>> /\ TailOf(toPeer, toPeer') /\ HeadOf(toPeer, Head(toPeer))
      /\ UNCHANGED <<host, file, confirmed, inLedger, bound, attached, inbox, fresh>>
  BY HeadAndTail DEF PeerResumes, PeerReads, TypeOK
<1>2. Head(toPeer).from \in Nat /\ outbox \in Seq(Frame)
  BY <1>1 DEF TypeOK, HeadOf, Frame
<1>3. SentOnly(Head(toPeer).from)
  BY <1>2, SendsOnly DEF PeerResumes
<1>4. attached => outbox = <<>> /\ inbox = <<>> /\ pc # "ack" /\ ~Handling
  BY DEF PeerResumes, MeetInv, Handling
<1>5. OnLine => Head(toPeer).from = Acknowledged
  BY DEF PeerResumes, PeerReads, MeetInv, OnLine, Acknowledged, Handling
<1>6. attached => \A i \in DOMAIN toPeer' : toPeer'[i].type # "ACK"
  BY <1>1 DEF PeerResumes, AnswerInv, TailOf
<1>7. QED
  BY <1>1, <1>2, <1>3, <1>4, <1>5, <1>6, SendingKeeps

LEMMA PeerContinuesKeeps == ASSUME Crashing, CrashInv, PeerContinues PROVE CrashInv'
<1> USE DEF CrashInv
<1>1. /\ toPeer # <<>> /\ TailOf(toPeer, toPeer') /\ HeadOf(toPeer, Head(toPeer))
      /\ UNCHANGED <<host, file, confirmed, inLedger, bound, attached, inbox, fresh>>
  BY HeadAndTail DEF PeerContinues, PeerReads, TypeOK
<1>2. pos \in Nat /\ outbox \in Seq(Frame)
  BY DEF TypeOK
<1>3. SentOnly(pos)
  BY <1>2, SendsOnly DEF PeerContinues
<1>4. attached => outbox = <<>> /\ inbox = <<>> /\ pc # "ack"
  BY DEF PeerContinues, PeerReads, AnswerInv
<1>5. OnLine => pos = Acknowledged
  BY DEF PeerContinues, PeerReads, AnswerInv, OnLine
<1>6. attached => \A i \in DOMAIN toPeer' : toPeer'[i].type # "ACK"
  BY DEF PeerContinues, PeerReads, AnswerInv
<1>7. QED
  BY <1>1, <1>2, <1>3, <1>4, <1>5, <1>6, SendingKeeps

LEMMA PeerAwaitsOffsetKeeps == ASSUME Crashing, CrashInv, PeerAwaitsOffset PROVE CrashInv'
<1> USE DEF CrashInv, Handling, Acknowledged, Fits, Listening, OnLine
<1>1. /\ TailOf(toPeer, toPeer') /\ HeadOf(toPeer, Head(toPeer)) /\ Head(toPeer).type = "start"
      /\ toPeer # <<>>
      /\ UNCHANGED <<host, file, confirmed, inLedger, bound, attached, inbox>>
  BY HeadAndTail DEF PeerAwaitsOffset, PeerReads, TypeOK
<1>2. attached => \A i \in DOMAIN toPeer' : toPeer'[i].type # "ACK"
  BY <1>1 DEF PeerAwaitsOffset, AnswerInv, TailOf
<1> USE DEF TailOf, HeadOf
<1>3. TypeOK'
  BY <1>1 DEF PeerAwaitsOffset, host, file, TypeOK
<1>4. StoredInv'
  BY <1>1 DEF host, file, StoredInv
<1>5. LineInv'
  <2>1. pc \in {"start", "restart"} => ~attached
    BY <1>1 DEF LineInv
  <2>2. UNCHANGED <<pc, cur, size, bound, attached, inbox, outbox>> /\ peer' = "resume"
    BY <1>1 DEF PeerAwaitsOffset, host, file
  <2>3. /\ (Listening => \A i \in DOMAIN inbox : Fits(inbox[i]))'
        /\ (OnLine => \A i \in DOMAIN outbox : Fits(outbox[i]))'
    BY <2>2 DEF LineInv
  <2>4. UNCHANGED <<Listening, OnLine, Handling>>
    BY <2>2
  <2> HIDE DEF Listening, OnLine, Handling, Acknowledged, Fits
  <2>5. QED
    BY <2>1, <2>2, <2>3, <2>4 DEF LineInv
<1>6. MeetInv'
  <2>1. /\ UNCHANGED <<pc, size, attached, inbox, outbox, fresh>> /\ peer' = "resume"
        /\ peer = "start" /\ toPeer[1].type = "start" /\ 1 \in DOMAIN toPeer
    BY <1>1 DEF PeerAwaitsOffset, host, file
  <2>2. outbox = <<>> /\ (attached => inbox = <<>> /\ ~Handling)
    BY <2>1 DEF MeetInv
  <2>3. attached => \A i \in DOMAIN toPeer' : toPeer'[i].type = "resume" => toPeer'[i].from = size
    BY <1>1, <2>1 DEF MeetInv
  <2>4. Handling' <=> Handling
    BY <2>1
  <2> HIDE DEF Handling
  <2>5. QED
    BY <2>1, <2>3, <2>4 DEF MeetInv
<1>7. AnswerInv'
  BY <1>1 DEF PeerAwaitsOffset, AnswerInv
<1>8. QED
  BY <1>3, <1>4, <1>5, <1>6, <1>7

-----------------------------------------------------------------------------
(* CrashInv is an invariant of every behaviour of such a host.             *)

LEMMA InitCrashInv == Crashing /\ Init => CrashInv
<1> SUFFICES ASSUME Crashing, Init PROVE CrashInv
  OBVIOUS
<1>1. TypeOK
  <2>1. cur \in Frame /\ inbox \in Seq(Frame) /\ outbox \in Seq(Frame) /\ toPeer \in Seq(Frame)
    BY FramesTyped DEF Init
  <2>2. size \in Nat /\ good \in 0 .. size /\ flushed \in 0 .. size /\ pos \in Nat
    BY DEF Init, Crashing
  <2>3. /\ pc = "bind" /\ peer = "closed" /\ linked \in BOOLEAN
        /\ reconnected = FALSE /\ completed = FALSE /\ confirmed = FALSE /\ inLedger = TRUE
        /\ fresh = TRUE /\ bound = FALSE /\ attached = FALSE
    BY DEF Init
  <2>4. QED
    BY <2>1, <2>2, <2>3 DEF TypeOK
<1>2. StoredInv
  BY LengthAssumption DEF Init, Crashing, StoredInv
<1>3. LineInv
  BY DEF Init, LineInv, Handling
<1>4. MeetInv /\ AnswerInv
  BY DEF Init, Crashing, MeetInv, AnswerInv, Handling
<1>5. QED
  BY <1>1, <1>2, <1>3, <1>4 DEF CrashInv

LEMMA StepCrashInv == Crashing /\ CrashInv /\ [Next]_vars => CrashInv'
<1> SUFFICES ASSUME Crashing, CrashInv, [Next]_vars PROVE CrashInv'
  OBVIOUS
<1>1. CASE UNCHANGED vars
  BY <1>1 DEF vars, host, file, wire, uploader, CrashInv, TypeOK, StoredInv, LineInv, MeetInv,
     AnswerInv, Fits, Handling, Acknowledged, Listening, OnLine
<1>2. CASE Host
  BY <1>2, BindKeeps, DieKeeps, EmitStartKeeps, OpenNewKeeps, OpenExistingKeeps,
     OpenToAppendKeeps, ReceiveDataKeeps, ReceiveEndKeeps, SendAckKeeps, WriteKeeps,
     ReopenFailsKeeps, WriteFailsKeeps, ChunkTimesOutKeeps, ResetKeeps, ResetFailsKeeps, GiveUpKeeps,
     EmitStartAgainKeeps, SendOffsetKeeps, FinishKeeps, DoneUploadingKeeps,
     DoneUploadingFailsKeeps, UnregisterKeeps
     DEF Host, BindFails, OpenFails, ReconnectTimesOut, CloseFails
<1>3. CASE Wire \/ Break
  BY <1>3, AttachKeeps, DeliverKeeps, BreakKeeps DEF Wire
<1>4. CASE Peer \/ PeerGivesUp
  BY <1>4, PeerConnectsKeeps, PeerStartsKeeps, PeerAwaitsOffsetKeeps, PeerResumesKeeps,
     PeerContinuesKeeps, PeerGivesUpKeeps DEF Peer
<1>5. CASE Crash \/ Recover
  BY <1>5, CrashKeeps, RecoverKeeps
<1>6. QED
  BY <1>1, <1>2, <1>3, <1>4, <1>5 DEF Next

LEMMA CrashInvariance == Crashing => (Spec => []CrashInv)
<1> SUFFICES ASSUME Crashing PROVE Spec => []CrashInv
  OBVIOUS
<1>1. Init => CrashInv
  BY InitCrashInv
<1>2. CrashInv /\ [Next]_vars => CrashInv'
  BY StepCrashInv
<1>3. QED
  BY <1>1, <1>2, PTL DEF Spec

(* The file stays a prefix of the shard through crashes, writes that fail  *)
(* half way and any number of restarts, which resume what the last process *)
(* left, if no old socket of an uploader comes back.                       *)
THEOREM PrefixSurvivesCrashes == Crashing => (Spec => []ShardIsPrefix)
<1>1. CrashInv => ShardIsPrefix
  BY DEF CrashInv, StoredInv, ShardIsPrefix
<1>2. QED
  BY <1>1, CrashInvariance, PTL

(* What such a host has confirmed is whole and on the disk, also when it   *)
(* crashes later, or resumes the upload again because unregistering it     *)
(* failed.                                                                 *)
THEOREM ConfirmedSurvivesCrashes == Crashing => (Spec => []ConfirmedMeansStored)
<1>1. CrashInv => ConfirmedMeansStored
  BY DEF CrashInv, StoredInv, ConfirmedMeansStored
<1>2. QED
  BY <1>1, CrashInvariance, PTL
-----------------------------------------------------------------------------
(* An offset that is on its way is, and stays, the end of the file.        *)

Awaiting == peer \in {"start", "resume"}

Settled == flushed = size /\ inbox = <<>> /\ ~Handling

(* No step but those that send an offset puts one on its way, and none     *)
(* moves the end of the file while an offset is.                           *)
OffsetsFrom(t) ==
  \A i \in DOMAIN t : t[i].type = "resume" => \E j \in DOMAIN toPeer : toPeer[j] = t[i]

LEMMA OffsetsStay ==
  ASSUME ResumeInv,
         Awaiting /\ Settled => Settled' /\ size' = size,
         Awaiting' /\ toPeer' # <<>> => Awaiting /\ OffsetsFrom(toPeer')
  PROVE  ResumeInv'
<1> SUFFICES ASSUME Awaiting', NEW i \in DOMAIN toPeer', toPeer'[i].type = "resume"
             PROVE  toPeer'[i].from = size' /\ Settled'
  BY DEF ResumeInv, Awaiting, Settled
<1>1. toPeer' # <<>>
  OBVIOUS
<1>2. Awaiting /\ \E j \in DOMAIN toPeer : toPeer[j] = toPeer'[i]
  BY DEF OffsetsFrom
<1>3. toPeer'[i].from = size /\ Settled
  BY <1>2 DEF ResumeInv, Awaiting, Settled
<1>4. QED
  BY <1>3

(* What a connection that goes leaves, and what else is sent, brings none. *)
LEMMA OffsetsDetached == ASSUME CrashInv, Detach PROVE OffsetsFrom(toPeer')
  BY DetachOnce DEF CrashInv, Detached, OffsetsFrom

LEMMA OffsetsSent ==
  ASSUME CrashInv, NEW f \in {Start, ACK}, HostSends(f)
  PROVE  OffsetsFrom(toPeer')
<1>1. toPeer \in Seq(Frame) /\ f \in Frame /\ toPeer' = Append(toPeer, f) /\ f.type # "resume"
  BY FramesTyped DEF CrashInv, TypeOK, HostSends, Start, ACK
<1>2. \A i \in DOMAIN toPeer' : \/ i \in DOMAIN toPeer /\ toPeer'[i] = toPeer[i]
                                \/ toPeer'[i] = f
  BY <1>1
<1>3. QED
  BY <1>1 DEF OffsetsFrom

LEMMA OffsetsRead ==
  ASSUME CrashInv, NEW type, PeerReads(type)
  PROVE  OffsetsFrom(toPeer')
<1>1. TailOf(toPeer, toPeer')
  BY HeadAndTail DEF CrashInv, TypeOK, PeerReads
<1>2. QED
  BY <1>1 DEF TailOf, OffsetsFrom

(* The offset that the host sends is the end of the file.                  *)
LEMMA OffsetIsEnd ==
  ASSUME CrashInv, ResumeInv, OpenExisting \/ SendOffset
  PROVE  ResumeInv'
<1>1. /\ pc \in {"open", "offset"} /\ pc' = "append" /\ attached
      /\ toPeer \in Seq(Frame) /\ flushed \in Nat /\ toPeer' = Append(toPeer, Resume(flushed))
      /\ UNCHANGED <<linked, size, good, flushed, inbox, peer, fresh, pos>>
  BY DEF OpenExisting, SendOffset, HostSends, CrashInv, TypeOK, file, uploader
<1>2. flushed = size /\ (Awaiting => inbox = <<>>)
  BY <1>1 DEF CrashInv, StoredInv, MeetInv, Awaiting
<1>3. \A i \in DOMAIN toPeer' : \/ i \in DOMAIN toPeer /\ toPeer'[i] = toPeer[i]
                                \/ toPeer'[i] = Resume(flushed)
  BY <1>1
<1>4. \A i \in DOMAIN toPeer' : Awaiting /\ toPeer'[i].type = "resume" => toPeer'[i].from = size
  BY <1>2, <1>3 DEF ResumeInv, Awaiting, Resume
<1>5. QED
  BY <1>1, <1>2, <1>4 DEF ResumeInv, Awaiting, Handling

LEMMA HostKeepsOffsets == ASSUME CrashInv, ResumeInv, Host PROVE ResumeInv'
<1>1. CASE OpenNew \/ OpenToAppend \/ ReceiveData \/ ReceiveEnd \/ Write \/ WriteFails
           \/ ReopenFails \/ ChunkTimesOut \/ GiveUp \/ DoneUploading \/ DoneUploadingFails \/ Unregister \/ Bind
  <2>1. UNCHANGED <<toPeer, peer>>
    BY <1>1 DEF OpenNew, OpenToAppend, ReceiveData, ReceiveEnd, Write, WriteFails, ChunkTimesOut,
       ReopenFails, GiveUp, DoneUploading, DoneUploadingFails, Unregister, Bind, wire, uploader
  <2>2. Settled => Settled' /\ size' = size
    <3>1. CASE OpenNew
      BY <3>1 DEF OpenNew, Settled, Handling, CrashInv, StoredInv, wire
    <3>2. CASE OpenToAppend
      BY <3>2 DEF OpenToAppend, Settled, Handling, CrashInv, StoredInv, wire, file
    <3>3. CASE ReceiveData \/ ReceiveEnd \/ Write \/ WriteFails
      BY <3>3 DEF ReceiveData, ReceiveEnd, Write, WriteFails, Settled, Handling
    <3>4. CASE \/ ReopenFails \/ ChunkTimesOut \/ GiveUp
               \/ DoneUploading \/ DoneUploadingFails \/ Unregister \/ Bind
      BY <3>4 DEF ReopenFails, ChunkTimesOut, GiveUp, DoneUploading, DoneUploadingFails, Unregister, Bind,
         Settled, Handling, wire, file
    <3>5. QED
      BY <1>1, <3>1, <3>2, <3>3, <3>4
  <2>3. QED
    BY <2>1, <2>2, OffsetsStay DEF Awaiting, OffsetsFrom
<1>2. CASE BindFails \/ OpenFails \/ Reset \/ ResetFails \/ ReconnectTimesOut \/ Finish \/ CloseFails
  <2>1. Detach /\ UNCHANGED <<peer, size>> /\ inbox' = <<>> /\ flushed' \in {flushed, size}
        /\ pc' \notin {"ack", "write"}
    BY <1>2 DEF BindFails, OpenFails, Reset, ResetFails, ReconnectTimesOut, Finish, CloseFails, Die,
       CloseFile, CloseSocket, file, uploader
  <2>2. OffsetsFrom(toPeer')
    BY <2>1, OffsetsDetached
  <2>3. QED
    BY <2>1, <2>2, OffsetsStay DEF Awaiting, Settled, Handling
<1>3. CASE EmitStart \/ EmitStartAgain \/ SendAck
  <2>1. PICK f \in {Start, ACK} : HostSends(f)
    BY <1>3 DEF EmitStart, EmitStartAgain, SendAck
  <2>2. UNCHANGED <<peer, size, flushed, inbox>> /\ (pc' = "write" => pc = "ack") /\ pc' # "ack"
    BY <1>3 DEF EmitStart, EmitStartAgain, SendAck, HostSends, file, uploader
  <2>3. OffsetsFrom(toPeer')
    BY <2>1, OffsetsSent
  <2>4. QED
    BY <2>2, <2>3, OffsetsStay DEF Awaiting, Settled, Handling
<1>4. CASE OpenExisting \/ SendOffset
  BY <1>4, OffsetIsEnd
<1>5. QED
  BY <1>1, <1>2, <1>3, <1>4 DEF Host

LEMMA OthersKeepOffsets ==
  ASSUME CrashInv, ResumeInv, Wire \/ Peer \/ Break \/ PeerGivesUp \/ Crash \/ Recover
  PROVE  ResumeInv'
<1>1. CASE Attach \/ PeerConnects \/ PeerGivesUp
  BY <1>1, OffsetsStay DEF Attach, PeerConnects, PeerGivesUp, host, file, wire, uploader,
     Awaiting, Settled, Handling, OffsetsFrom, CrashInv, MeetInv
<1>2. CASE Deliver
  <2>1. ~Awaiting /\ UNCHANGED peer
    BY <1>2 DEF Deliver, CrashInv, MeetInv, Awaiting, uploader
  <2>2. QED
    BY <2>1 DEF ResumeInv, Awaiting
<1>3. CASE PeerStarts \/ PeerResumes \/ PeerContinues
  <2>1. peer' \in {"ack", "done"}
    BY <1>3 DEF PeerStarts, PeerResumes, PeerContinues, PeerSendsFrom
  <2>2. QED
    BY <2>1 DEF ResumeInv
<1>4. CASE PeerAwaitsOffset
  <2>1. OffsetsFrom(toPeer')
    BY <1>4, OffsetsRead DEF PeerAwaitsOffset
  <2>2. Awaiting /\ UNCHANGED <<pc, size, flushed, inbox>>
    BY <1>4 DEF PeerAwaitsOffset, PeerReads, Awaiting, host, file
  <2>3. QED
    BY <2>1, <2>2, OffsetsStay DEF Settled, Handling
<1>5. CASE Break \/ Crash
  <2>1. Detach /\ UNCHANGED peer /\ inbox' \in {inbox, <<>>} /\ UNCHANGED flushed
        /\ (UNCHANGED <<size, pc>> \/ (size' = flushed /\ pc' = "down"))
    BY <1>5 DEF Break, Crash, CloseSocket, host, file, uploader
  <2>2. OffsetsFrom(toPeer')
    BY <2>1, OffsetsDetached
  <2>3. QED
    BY <2>1, <2>2, OffsetsStay DEF Awaiting, Settled, Handling
<1>6. CASE Recover
  BY <1>6, OffsetsStay DEF Recover, file, wire, uploader, Awaiting, Settled, Handling, OffsetsFrom
<1>7. QED
  BY <1>1, <1>2, <1>3, <1>4, <1>5, <1>6 DEF Wire, Peer

(* Through crashes and restarts too, an uploader never acts on an offset   *)
(* that is not the end of the file, not even on one that it reads when the *)
(* process that sent it has long gone.                                     *)
THEOREM ResumesExactlyAfterCrashes == Crashing => (Spec => ResumeIsExact)
<1> SUFFICES ASSUME Crashing PROVE Spec => ResumeIsExact
  OBVIOUS
<1>1. Init => ResumeInv
  BY DEF Init, ResumeInv
<1>2. CrashInv /\ ResumeInv /\ [Next]_vars => ResumeInv'
  <2> SUFFICES ASSUME CrashInv, ResumeInv, [Next]_vars PROVE ResumeInv'
    OBVIOUS
  <2>1. CASE UNCHANGED vars
    BY <2>1 DEF vars, host, file, wire, uploader, ResumeInv, Handling
  <2>2. QED
    BY <2>1, HostKeepsOffsets, OthersKeepOffsets DEF Next
<1>3. CrashInv /\ ResumeInv /\ [Next]_vars =>
        [PeerResumes => Head(toPeer).from = size /\ NothingInFlight]_vars
  <2> SUFFICES ASSUME CrashInv, ResumeInv, PeerResumes
               PROVE  Head(toPeer).from = size /\ NothingInFlight
    OBVIOUS
  <2>1. HeadOf(toPeer, Head(toPeer)) /\ Head(toPeer).type = "resume" /\ peer = "resume"
    BY HeadAndTail DEF CrashInv, TypeOK, PeerResumes, PeerReads
  <2>2. outbox = <<>>
    BY <2>1 DEF CrashInv, MeetInv
  <2>3. QED
    BY <2>1, <2>2 DEF HeadOf, ResumeInv, NothingInFlight, Handling
<1>4. Spec => []CrashInv
  BY CrashInvariance
<1>5. QED
  BY <1>1, <1>2, <1>3, <1>4, PTL DEF Spec, ResumeIsExact
=============================================================================
