------------------------ MODULE FragmentSenderProofs ------------------------
(* Proofs about FragmentSender, for shards and chunks of any length, for   *)
(* every network, disk and downloader, and for a host that may crash.      *)
EXTENDS FragmentSender, SequenceFacts

LEMMA FramesTyped ==
  /\ Start \in Frame /\ ACK \in Frame /\ END \in Frame
  /\ \A n \in Nat : Resume(n) \in Frame
  /\ \A n, m \in Nat : Data(n, m) \in Frame
  BY DEF Start, ACK, END, Resume, Data, Frame

-----------------------------------------------------------------------------
(* Frames that are lost, or that the host takes, leave the stream to the   *)
(* downloader as it was, as far as it goes.                                *)

FewerFrames ==
  /\ toPeer' \in Seq(Frame) /\ Len(toPeer') <= Len(toPeer)
  /\ \A i \in DOMAIN toPeer' : i \in DOMAIN toPeer /\ toPeer'[i] = toPeer[i]
  /\ toHost' \in Seq(Frame)
  /\ \A i \in DOMAIN toHost' : \E j \in DOMAIN toHost : toHost'[i] = toHost[j]

LEMMA SameFrames == TypeOK /\ UNCHANGED <<toHost, toPeer>> => FewerFrames
  BY DEF TypeOK, FewerFrames

LEMMA DisconnectFacts ==
  ASSUME TypeOK, Disconnect
  PROVE  FewerFrames /\ attached' = FALSE /\ toHost' = <<>>
<1>1. toPeer \in Seq(Frame) /\ (toPeer' \in Prefixes(toPeer) \/ toPeer' = toPeer)
  BY DEF TypeOK, Disconnect
<1>2. /\ toPeer' \in Seq(Frame) /\ Len(toPeer') <= Len(toPeer)
      /\ \A i \in DOMAIN toPeer' : i \in DOMAIN toPeer /\ toPeer'[i] = toPeer[i]
  BY <1>1, PrefixFacts
<1>3. QED
  BY <1>2 DEF Disconnect, FewerFrames

LEMMA ReceiveFacts ==
  ASSUME TypeOK, HostReceives
  PROVE  /\ FewerFrames
         /\ Head(toHost) = toHost[1] /\ 1 \in DOMAIN toHost /\ toHost[1] \in Frame
         /\ UNCHANGED <<bound, attached, toPeer>>
<1>1. toHost \in Seq(Frame) /\ toHost # <<>> /\ toHost' = Tail(toHost)
  BY DEF TypeOK, HostReceives
<1>2. /\ toHost' \in Seq(Frame)
      /\ \A i \in DOMAIN toHost' : i + 1 \in DOMAIN toHost /\ toHost'[i] = toHost[i + 1]
      /\ Head(toHost) = toHost[1] /\ 1 \in DOMAIN toHost /\ toHost[1] \in Frame
  BY <1>1, TailFacts
<1>3. UNCHANGED <<bound, attached, toPeer>>
  BY DEF HostReceives
<1>4. QED
  BY <1>2, <1>3 DEF TypeOK, FewerFrames

LEMMA FewerIsEnough ==
  ASSUME TypeOK, FramesInv, StreamInv, FewerFrames, UNCHANGED <<peer, got, good>>
  PROVE  FramesInv' /\ StreamInv' /\ (NothingSent => NothingSent')
<1>1. DOMAIN toPeer = 1 .. Len(toPeer) /\ DOMAIN toPeer' = 1 .. Len(toPeer')
      /\ Len(toPeer) \in Nat /\ Len(toPeer') \in Nat
  BY DEF FewerFrames
<1>2. FramesInv'
  BY DEF FramesInv, FewerFrames
<1>3. StreamInv'
  <2>1. Greeted' => Greeted
    BY DEF Greeted, FewerFrames
  <2>2. \A i \in DOMAIN toPeer' : Before(i)' = Before(i)
    BY DEF Before, FewerFrames
  <2>3. peer = "closed" => toPeer' = <<>>
    BY DEF StreamInv, FewerFrames
  <2>4. QED
    BY <2>1, <2>2 DEF StreamInv, FewerFrames
<1>4. NothingSent => NothingSent'
  BY DEF NothingSent, FewerFrames
<1>5. QED
  BY <1>2, <1>3, <1>4

(* While nothing but "start" is on its way, what the downloader has is all *)
(* that it was sent.                                                       *)
LEMMA NothingSentFacts == TypeOK /\ NothingSent => Sent = got
<1> SUFFICES ASSUME TypeOK, NothingSent PROVE Sent = got
  OBVIOUS
<1>1. Len(toPeer) \in Nat /\ DOMAIN toPeer = 1 .. Len(toPeer)
  BY DEF TypeOK
<1>2. Len(toPeer) # 0 => toPeer[Len(toPeer)].type = "start"
  BY DEF NothingSent
<1>3. QED
  BY <1>2 DEF Sent, Before

LEMMA SentKept == UNCHANGED <<toPeer, got>> => UNCHANGED <<Sent, NothingSent>>
  BY DEF Sent, Before, NothingSent

-----------------------------------------------------------------------------
(* Steps of the host that leave the wire and the downloader alone.         *)

LEMMA QuietFacts ==
  ASSUME IInv, UNCHANGED <<toHost, toPeer, downloader>>
  PROVE  /\ FramesInv' /\ StreamInv'
         /\ UNCHANGED <<Sent, NothingSent, Greeted>>
<1>1. FewerFrames
  BY SameFrames DEF IInv
<1>2. FramesInv' /\ StreamInv'
  BY <1>1, FewerIsEnough DEF IInv, downloader
<1>3. UNCHANGED <<Sent, NothingSent>>
  BY SentKept DEF downloader
<1>4. UNCHANGED Greeted
  BY DEF Greeted, downloader
<1>5. QED
  BY <1>2, <1>3, <1>4

LEMMA CheckInv == ASSUME IInv, Check PROVE IInv'
<1>1. /\ FramesInv' /\ StreamInv'
      /\ UNCHANGED <<Sent, NothingSent, Greeted>>
  BY QuietFacts DEF Check, wire
<1>2. TypeOK'
  BY DEF Check, IInv, TypeOK, host, disk, wire, downloader
<1>3. PositionInv'
  BY <1>1 DEF Check, IInv, PositionInv, downloader
<1>4. ConnectionInv'
  BY DEF Check, IInv, ConnectionInv, wire, downloader
<1>5. QED
  BY <1>1, <1>2, <1>3, <1>4 DEF IInv

LEMMA BindInv == ASSUME IInv, Bind PROVE IInv'
<1>1. /\ FramesInv' /\ StreamInv'
      /\ UNCHANGED <<Sent, NothingSent, Greeted>>
  BY QuietFacts DEF Bind, wire
<1>2. TypeOK'
  BY DEF Bind, IInv, TypeOK, host, disk, wire, downloader
<1>3. PositionInv'
  BY <1>1 DEF Bind, IInv, PositionInv, wire, downloader
<1>4. ConnectionInv'
  BY DEF Bind, IInv, ConnectionInv, wire, downloader
<1>5. QED
  BY <1>1, <1>2, <1>3, <1>4 DEF IInv

LEMMA OpenInv == ASSUME IInv, Open PROVE IInv'
<1>1. /\ FramesInv' /\ StreamInv'
      /\ UNCHANGED <<Sent, NothingSent, Greeted>>
  BY QuietFacts DEF Open, wire
<1>2. TypeOK'
  BY LengthAssumption DEF Open, IInv, TypeOK, host, disk, wire, downloader
<1>3. PositionInv'
  BY <1>1, NothingSentFacts DEF Open, IInv, PositionInv, wire, downloader
<1>4. ConnectionInv'
  BY DEF Open, IInv, ConnectionInv, wire, downloader
<1>5. QED
  BY <1>1, <1>2, <1>3, <1>4 DEF IInv

LEMMA ReadInv == ASSUME IInv, Read PROVE IInv'
<1>1. /\ FramesInv' /\ StreamInv'
      /\ UNCHANGED <<Sent, NothingSent, Greeted>>
  BY QuietFacts DEF Read, wire
<1>2. TypeOK'
  BY DEF Read, Chunk, IInv, TypeOK, host, disk, wire, downloader
<1>3. PositionInv'
  BY <1>1, LengthAssumption DEF Read, Chunk, IInv, TypeOK, PositionInv, wire, downloader
<1>4. ConnectionInv'
  BY DEF Read, Chunk, IInv, ConnectionInv, wire, downloader
<1>5. QED
  BY <1>1, <1>2, <1>3, <1>4 DEF IInv

LEMMA ChunkFailsInv == ASSUME IInv, ChunkFails PROVE IInv'
<1>1. /\ FramesInv' /\ StreamInv'
      /\ UNCHANGED <<Sent, NothingSent, Greeted>>
  BY QuietFacts DEF ChunkFails, wire
<1>2. TypeOK'
  BY DEF ChunkFails, IInv, TypeOK, host, disk, wire, downloader
<1>3. PositionInv'
  BY DEF ChunkFails, PositionInv, downloader
<1>4. ConnectionInv'
  BY DEF ChunkFails, IInv, ConnectionInv, wire, downloader
<1>5. QED
  BY <1>1, <1>2, <1>3, <1>4 DEF IInv

LEMMA GiveUpInv == ASSUME IInv, GiveUp PROVE IInv'
<1>1. /\ FramesInv' /\ StreamInv'
      /\ UNCHANGED <<Sent, NothingSent, Greeted>>
  BY QuietFacts DEF GiveUp, wire
<1>2. TypeOK'
  BY DEF GiveUp, IInv, TypeOK, host, disk, wire, downloader
<1>3. PositionInv'
  BY DEF GiveUp, PositionInv, downloader
<1>4. ConnectionInv'
  BY DEF GiveUp, IInv, ConnectionInv, wire, downloader
<1>5. QED
  BY <1>1, <1>2, <1>3, <1>4 DEF IInv

LEMMA ReconnectTimesOutInv == ASSUME IInv, ReconnectTimesOut PROVE IInv'
<1>1. /\ FramesInv' /\ StreamInv'
      /\ UNCHANGED <<Sent, NothingSent, Greeted>>
  BY QuietFacts DEF ReconnectTimesOut, wire
<1>2. TypeOK'
  BY DEF ReconnectTimesOut, IInv, TypeOK, host, disk, wire, downloader
<1>3. PositionInv'
  BY DEF ReconnectTimesOut, PositionInv, downloader
<1>4. ConnectionInv'
  BY DEF ReconnectTimesOut, IInv, ConnectionInv, wire, downloader
<1>5. QED
  BY <1>1, <1>2, <1>3, <1>4 DEF IInv

LEMMA UnregisterInv == ASSUME IInv, Unregister PROVE IInv'
<1>1. /\ FramesInv' /\ StreamInv'
      /\ UNCHANGED <<Sent, NothingSent, Greeted>>
  BY QuietFacts DEF Unregister, wire
<1>2. TypeOK'
  BY DEF Unregister, IInv, TypeOK, host, disk, wire, downloader
<1>3. PositionInv'
  BY DEF Unregister, PositionInv, downloader
<1>4. ConnectionInv'
  BY DEF Unregister, IInv, ConnectionInv, host, disk, wire, downloader
<1>5. QED
  BY <1>1, <1>2, <1>3, <1>4 DEF IInv

LEMMA UnlinkInv == ASSUME IInv, Unlink PROVE IInv'
<1>1. /\ FramesInv' /\ StreamInv'
      /\ UNCHANGED <<Sent, NothingSent, Greeted>>
  BY QuietFacts DEF Unlink, wire
<1>2. TypeOK'
  BY LengthAssumption, ChunkAssumption DEF Unlink, IInv, TypeOK, PositionInv, host, disk, wire, downloader
<1>3. PositionInv'
  BY <1>1 DEF Unlink, IInv, PositionInv, ChunkEnd, host, disk, wire, downloader
<1>4. ConnectionInv'
  BY DEF Unlink, IInv, ConnectionInv, host, disk, wire, downloader
<1>5. QED
  BY <1>1, <1>2, <1>3, <1>4 DEF IInv

LEMMA RecoverInv == ASSUME IInv, Recover PROVE IInv'
<1>1. /\ FramesInv' /\ StreamInv'
      /\ UNCHANGED <<Sent, NothingSent, Greeted>>
  BY QuietFacts DEF Recover, wire
<1>2. TypeOK'
  BY DEF Recover, IInv, TypeOK, host, disk, wire, downloader
<1>3. PositionInv'
  BY DEF Recover, PositionInv, downloader
<1>4. ConnectionInv'
  BY DEF Recover, IInv, ConnectionInv, wire, downloader
<1>5. QED
  BY <1>1, <1>2, <1>3, <1>4 DEF IInv

-----------------------------------------------------------------------------
(* Steps that end a connection.                                            *)

LEMMA DieInv == ASSUME IInv, Die PROVE IInv'
<1>1. FewerFrames /\ attached' = FALSE
  BY DisconnectFacts DEF Die, CloseSocket, IInv
<1>2. UNCHANGED downloader
  BY DEF Die
<1>3. FramesInv' /\ StreamInv' /\ (NothingSent => NothingSent')
  BY <1>1, <1>2, FewerIsEnough DEF IInv, downloader
<1>4. TypeOK'
  BY <1>1 DEF Die, CloseSocket, FewerFrames, IInv, TypeOK, host, disk, downloader
<1>5. PositionInv'
  BY DEF Die, PositionInv, downloader
<1>6. ConnectionInv'
  BY <1>1 DEF Die, CloseSocket, ConnectionInv, downloader
<1>7. QED
  BY <1>3, <1>4, <1>5, <1>6 DEF IInv

LEMMA CrashInv == ASSUME IInv, Crash PROVE IInv'
<1>1. FewerFrames /\ attached' = FALSE
  BY DisconnectFacts DEF Crash, CloseSocket, IInv
<1>2. UNCHANGED downloader
  BY DEF Crash
<1>3. FramesInv' /\ StreamInv' /\ (NothingSent => NothingSent')
  BY <1>1, <1>2, FewerIsEnough DEF IInv, downloader
<1>4. TypeOK'
  BY <1>1 DEF Crash, CloseSocket, FewerFrames, IInv, TypeOK, host, disk, downloader
<1>5. PositionInv'
  BY DEF Crash, PositionInv, downloader
<1>6. ConnectionInv'
  BY <1>1 DEF Crash, CloseSocket, ConnectionInv, downloader
<1>7. QED
  BY <1>3, <1>4, <1>5, <1>6 DEF IInv

LEMMA CloseInv == ASSUME IInv, Close PROVE IInv'
<1>1. FewerFrames /\ attached' = FALSE
  BY DisconnectFacts DEF Close, CloseSocket, IInv
<1>2. UNCHANGED downloader
  BY DEF Close
<1>3. FramesInv' /\ StreamInv' /\ (NothingSent => NothingSent')
  BY <1>1, <1>2, FewerIsEnough DEF IInv, downloader
<1>4. TypeOK'
  BY <1>1 DEF Close, CloseSocket, FewerFrames, IInv, TypeOK, host, disk, downloader
<1>5. PositionInv'
  BY DEF Close, PositionInv, downloader
<1>6. ConnectionInv'
  BY <1>1 DEF Close, CloseSocket, ConnectionInv, downloader
<1>7. QED
  BY <1>3, <1>4, <1>5, <1>6 DEF IInv

LEMMA ResetFailsInv == ASSUME IInv, ResetFails PROVE IInv'
<1>1. FewerFrames /\ attached' = FALSE
  BY DisconnectFacts DEF ResetFails, CloseSocket, IInv
<1>2. UNCHANGED downloader
  BY DEF ResetFails
<1>3. FramesInv' /\ StreamInv' /\ (NothingSent => NothingSent')
  BY <1>1, <1>2, FewerIsEnough DEF IInv, downloader
<1>4. TypeOK'
  BY <1>1 DEF ResetFails, CloseSocket, FewerFrames, IInv, TypeOK, host, disk, downloader
<1>5. PositionInv'
  BY DEF ResetFails, PositionInv, downloader
<1>6. ConnectionInv'
  BY <1>1 DEF ResetFails, ConnectionInv, downloader
<1>7. QED
  BY <1>3, <1>4, <1>5, <1>6 DEF IInv

LEMMA ResetInv == ASSUME IInv, Reset PROVE IInv'
<1>1. FewerFrames /\ attached' = FALSE
  BY DisconnectFacts DEF Reset, IInv
<1>2. UNCHANGED downloader
  BY DEF Reset
<1>3. FramesInv' /\ StreamInv' /\ (NothingSent => NothingSent')
  BY <1>1, <1>2, FewerIsEnough DEF IInv, downloader
<1>4. TypeOK'
  BY <1>1 DEF Reset, CloseSocket, FewerFrames, IInv, TypeOK, host, disk, downloader
<1>5. PositionInv'
  BY DEF Reset, PositionInv, downloader
<1>6. ConnectionInv'
  BY <1>1 DEF Reset, ConnectionInv, downloader
<1>7. QED
  BY <1>3, <1>4, <1>5, <1>6 DEF IInv

LEMMA CutFacts ==
  ASSUME TypeOK, toHost' \in Prefixes(toHost) \/ toHost' = toHost,
         toPeer' \in Prefixes(toPeer) \/ toPeer' = <<>>
  PROVE  FewerFrames
<1>1. toHost \in Seq(Frame) /\ toPeer \in Seq(Frame) /\ Len(toPeer) \in Nat
  BY DEF TypeOK
<1>2. /\ toPeer' \in Seq(Frame) /\ Len(toPeer') <= Len(toPeer)
      /\ \A i \in DOMAIN toPeer' : i \in DOMAIN toPeer /\ toPeer'[i] = toPeer[i]
  <2>1. CASE toPeer' \in Prefixes(toPeer)
    BY <1>1, <2>1, PrefixFacts
  <2>2. CASE toPeer' = <<>>
    BY <2>2, EmptySeq
  <2>3. QED
    BY <2>1, <2>2
<1>3. /\ toHost' \in Seq(Frame)
      /\ \A i \in DOMAIN toHost' : i \in DOMAIN toHost /\ toHost'[i] = toHost[i]
  BY <1>1, PrefixFacts
<1>4. QED
  BY <1>2, <1>3 DEF FewerFrames

LEMMA BreakInv == ASSUME IInv, Break PROVE IInv'
<1>1. FewerFrames /\ attached' = FALSE
  BY CutFacts DEF Break, IInv
<1>2. UNCHANGED downloader
  BY DEF Break
<1>3. FramesInv' /\ StreamInv' /\ (NothingSent => NothingSent')
  BY <1>1, <1>2, FewerIsEnough DEF IInv, downloader
<1>4. TypeOK'
  BY <1>1 DEF Break, CloseSocket, FewerFrames, IInv, TypeOK, host, disk, downloader
<1>5. PositionInv'
  BY <1>3 DEF Break, IInv, PositionInv, host, downloader
<1>6. ConnectionInv'
  BY DEF Break, IInv, ConnectionInv, host, downloader
<1>7. QED
  BY <1>3, <1>4, <1>5, <1>6 DEF IInv

(* The downloader forgets what it had not read, and keeps its copy.        *)
LEMMA PeerGivesUpInv == ASSUME IInv, PeerGivesUp PROVE IInv'
<1>1. FewerFrames /\ attached' = FALSE /\ toPeer' = <<>> /\ peer' = "closed"
      /\ UNCHANGED <<pc, isNew, offset, bound, got, good>> /\ fresh' = FALSE
  BY CutFacts DEF PeerGivesUp, IInv, host
<1>2. FramesInv'
  BY <1>1 DEF FewerFrames, IInv, FramesInv
<1>3. StreamInv'
  BY <1>1 DEF IInv, StreamInv, Greeted
<1>4. TypeOK'
  BY <1>1 DEF PeerGivesUp, FewerFrames, IInv, TypeOK, host, disk
<1>5. PositionInv'
  BY <1>1 DEF IInv, PositionInv, NothingSent, FewerFrames
<1>6. ConnectionInv'
  BY <1>1 DEF IInv, ConnectionInv
<1>7. QED
  BY <1>2, <1>3, <1>4, <1>5, <1>6 DEF IInv

-----------------------------------------------------------------------------
(* Steps in which the host receives.                                       *)

(* What the host receives in answer to "start" is where the copy ends.     *)
LEMMA SeekInv ==
  ASSUME IInv, pc \in {"negotiate", "offset"}, HostReceives, Seek("read"),
         UNCHANGED <<isNew, reconnected, disk, downloader>>
  PROVE  IInv'
<1>1. /\ FewerFrames
      /\ UNCHANGED <<bound, attached, toPeer>>
      /\ offset' = toHost[1].from /\ 1 \in DOMAIN toHost /\ toHost[1] \in Frame
  BY ReceiveFacts DEF IInv, Seek
<1>2. FramesInv' /\ StreamInv' /\ UNCHANGED <<Sent, NothingSent, Greeted>>
  BY <1>1, FewerIsEnough, SentKept DEF IInv, Greeted, downloader
<1>3. offset' \in 0 .. ShardLength
  BY <1>1 DEF IInv, FramesInv, Frame
<1>4. TypeOK'
  BY <1>1, <1>3 DEF Seek, FewerFrames, IInv, TypeOK, disk, downloader
<1>5. PositionInv'
  <2>1. pc' = "read" /\ UNCHANGED <<attached, got>>
    BY <1>1 DEF Seek, downloader
  <2>2. attached /\ Greeted => Sent = offset'
    BY <1>1, NothingSentFacts DEF IInv, PositionInv
  <2>3. QED
    BY <1>2, <2>1, <2>2 DEF PositionInv
<1>6. ConnectionInv'
  BY <1>1 DEF Seek, IInv, ConnectionInv, downloader
<1>7. QED
  BY <1>2, <1>4, <1>5, <1>6 DEF IInv

LEMMA NegotiateInv == ASSUME IInv, Negotiate PROVE IInv'
<1>1. CASE toHost # <<>> /\ Head(toHost).type # "resume"
  BY <1>1, DieInv DEF Negotiate
<1>2. CASE ~(toHost # <<>> /\ Head(toHost).type # "resume")
  BY <1>2, SeekInv DEF Negotiate
<1>3. QED
  BY <1>1, <1>2

LEMMA NegotiateAgainInv == ASSUME IInv, NegotiateAgain PROVE IInv'
<1>1. CASE Head(toHost).type = "resume"
  BY <1>1, SeekInv DEF NegotiateAgain
<1>2. CASE Head(toHost).type # "resume"
  <2>1. FewerFrames /\ UNCHANGED <<bound, attached, toPeer>>
    BY ReceiveFacts DEF IInv, NegotiateAgain
  <2>2. /\ pc = "offset" /\ pc' = "close"
        /\ UNCHANGED <<offset, isNew, reconnected, disk, downloader>>
    BY <1>2 DEF NegotiateAgain
  <2>3. FramesInv' /\ StreamInv'
    BY <2>1, <2>2, FewerIsEnough DEF IInv, downloader
  <2>4. TypeOK'
    BY <2>1, <2>2 DEF FewerFrames, IInv, TypeOK, disk, downloader
  <2>5. PositionInv'
    BY <2>2 DEF PositionInv
  <2>6. ConnectionInv'
    BY <2>1, <2>2 DEF IInv, ConnectionInv, downloader
  <2>7. QED
    BY <2>3, <2>4, <2>5, <2>6 DEF IInv
<1>3. QED
  BY <1>1, <1>2

LEMMA ReceiveAckInv == ASSUME IInv, ReceiveAck PROVE IInv'
<1>1. FewerFrames /\ UNCHANGED <<bound, attached, toPeer>>
  BY ReceiveFacts DEF IInv, ReceiveAck
<1>2. FramesInv' /\ StreamInv' /\ UNCHANGED <<Sent, NothingSent, Greeted>>
  BY <1>1, FewerIsEnough, SentKept DEF IInv, ReceiveAck, Greeted, downloader
<1>3. /\ pc = "ack" /\ offset' = ChunkEnd /\ offset' \in 0 .. ShardLength
      /\ pc' \in {"send", "finish"} /\ (pc' = "send" <=> offset' < ShardLength)
      /\ UNCHANGED <<isNew, reconnected, disk, downloader>>
  BY LengthAssumption, ChunkAssumption DEF ReceiveAck, Chunk, ChunkEnd, IInv, TypeOK
<1>4. TypeOK'
  BY <1>1, <1>3 DEF FewerFrames, IInv, TypeOK, disk, downloader
<1>5. PositionInv'
  BY <1>1, <1>2, <1>3, LengthAssumption DEF IInv, PositionInv
<1>6. ConnectionInv'
  BY <1>1, <1>3 DEF IInv, ConnectionInv, downloader
<1>7. QED
  BY <1>2, <1>4, <1>5, <1>6 DEF IInv

-----------------------------------------------------------------------------
(* Steps in which the host sends.                                          *)

(* A frame that continues the stream.                                      *)
Continues(f) ==
  /\ f \in Frame
  /\ \/ f.type = "start" /\ peer = "start" /\ toPeer = <<>>
     \/ f.type = "data" /\ f.from < f.to /\ f.to <= ShardLength /\ (Greeted => f.from = Sent)
     \/ f.type = "END" /\ (Greeted => Sent = ShardLength)

LEMMA SendFacts ==
  ASSUME IInv, pc # "close", NEW f, Continues(f), HostSends(f), UNCHANGED downloader
  PROVE  /\ toPeer' \in Seq(Frame) /\ toPeer'[Len(toPeer')] = f /\ Len(toPeer') \in DOMAIN toPeer'
         /\ FramesInv' /\ StreamInv'
         /\ Greeted' /\ f.type # "start" => Greeted
         /\ Sent' = (IF f.type = "start" THEN got ELSE f.to)
         /\ UNCHANGED <<bound, attached, toHost>>
<1> DEFINE n == Len(toPeer) + 1
<1>1. /\ attached /\ toPeer \in Seq(Frame) /\ toPeer' = Append(toPeer, f) /\ f \in Frame
      /\ UNCHANGED <<bound, attached, toHost, peer, fresh, got, good>>
  BY DEF HostSends, IInv, TypeOK, Continues, downloader
<1>2. /\ toPeer' \in Seq(Frame) /\ Len(toPeer') = n /\ toPeer'[n] = f
      /\ \A i \in DOMAIN toPeer : i \in DOMAIN toPeer' /\ toPeer'[i] = toPeer[i]
      /\ \A i \in DOMAIN toPeer' : i \in DOMAIN toPeer \/ i = n
  BY <1>1, AppendFacts
<1>3. /\ DOMAIN toPeer = 1 .. Len(toPeer) /\ DOMAIN toPeer' = 1 .. n
      /\ Len(toPeer) \in Nat /\ n \in DOMAIN toPeer'
  BY <1>2
<1>4. \A i \in DOMAIN toPeer : toPeer[i].type # "END"
  BY <1>1 DEF IInv, ConnectionInv
<1>5. FramesInv'
  <2>1. \A i \in DOMAIN toPeer : toPeer[i].type # "END" /\ toPeer'[i] = toPeer[i]
    BY <1>2, <1>4
  <2>2. f.type = "start" => n = 1
    BY DEF Continues
  <2>3. QED
    BY <1>1, <2>1 DEF FramesInv, IInv, Continues
<1>6. Greeted' /\ f.type # "start" => Greeted
  BY <1>1 DEF Greeted
<1>7. \A i \in 1 .. Len(toPeer) + 1 : Before(i)' = Before(i)
  BY <1>1 DEF Before
<1>8. \A i \in DOMAIN toPeer' : i \in DOMAIN toPeer \/ Before(i)' = Sent
  BY <1>2, <1>7 DEF Sent
<1>9. StreamInv'
  <2>1. toPeer' # <<>> /\ peer # "closed"
    BY <1>1 DEF IInv, ConnectionInv
  <2>2. f.type = "start" => DOMAIN toPeer = {}
    BY DEF Continues
  <2>3. Greeted' => \A i \in DOMAIN toPeer' :
          /\ toPeer'[i].type = "data" => toPeer'[i].from = Before(i)'
          /\ toPeer'[i].type = "END" => Before(i)' = ShardLength
    <3> SUFFICES ASSUME Greeted', NEW i \in DOMAIN toPeer'
                 PROVE  /\ toPeer'[i].type = "data" => toPeer'[i].from = Before(i)'
                        /\ toPeer'[i].type = "END" => Before(i)' = ShardLength
      OBVIOUS
    <3>1. CASE i \in DOMAIN toPeer
      <4>1. f.type # "start"
        BY <2>2, <3>1
      <4>2. Greeted
        BY <1>6, <4>1
      <4>3. Before(i)' = Before(i) /\ toPeer'[i] = toPeer[i]
        BY <1>2, <1>7, <3>1
      <4>4. QED
        BY <3>1, <4>2, <4>3 DEF IInv, StreamInv
    <3>2. CASE i \notin DOMAIN toPeer
      <4>1. toPeer'[i] = f /\ Before(i)' = Sent
        BY <1>2, <1>8, <3>2
      <4>2. f.type # "start" => Greeted
        BY <1>6
      <4>3. QED
        BY <4>1, <4>2 DEF Continues
    <3>3. QED
      BY <3>1, <3>2
  <2>4. QED
    BY <1>1, <2>1, <2>3 DEF IInv, StreamInv
<1>10. Sent' = (IF f.type = "start" THEN got ELSE f.to)
  BY <1>1 DEF Sent, Before
<1>11. QED
  BY <1>1, <1>5, <1>6, <1>9, <1>10

LEMMA EmitStartInv == ASSUME IInv, EmitStart PROVE IInv'
<1>1. /\ attached /\ peer = "start" /\ toPeer = <<>> /\ toHost = <<>>
      /\ HostSends(Start) /\ pc # "close" /\ pc' = "open"
      /\ UNCHANGED <<isNew, reconnected, offset, disk, downloader>>
  BY DEF EmitStart, HostSends, IInv, ConnectionInv
<1>2. Continues(Start)
  BY <1>1, FramesTyped DEF Continues, Start
<1>3. /\ toPeer' \in Seq(Frame) /\ FramesInv' /\ StreamInv'
      /\ UNCHANGED <<bound, attached, toHost>>
  BY <1>1, <1>2, SendFacts
<1>4. \A i \in DOMAIN toPeer' : toPeer'[i].type = "start"
  BY <1>1 DEF HostSends, Start
<1>5. TypeOK'
  BY <1>1, <1>3 DEF IInv, TypeOK, disk, downloader
<1>6. PositionInv'
  BY <1>1, <1>3, <1>4 DEF EmitStart, IInv, PositionInv, NothingSent, downloader
<1>7. ConnectionInv'
  BY <1>1, <1>3, <1>4 DEF IInv, ConnectionInv, downloader
<1>8. QED
  BY <1>3, <1>5, <1>6, <1>7 DEF IInv

LEMMA EmitStartAgainInv == ASSUME IInv, EmitStartAgain PROVE IInv'
<1>1. /\ attached /\ peer = "start" /\ toPeer = <<>> /\ toHost = <<>>
      /\ HostSends(Start) /\ pc # "close" /\ pc' = "offset"
      /\ UNCHANGED <<isNew, reconnected, offset, disk, downloader>>
  BY DEF EmitStartAgain, HostSends, IInv, ConnectionInv
<1>2. Continues(Start)
  BY <1>1, FramesTyped DEF Continues, Start
<1>3. /\ toPeer' \in Seq(Frame) /\ FramesInv' /\ StreamInv'
      /\ UNCHANGED <<bound, attached, toHost>>
  BY <1>1, <1>2, SendFacts
<1>4. \A i \in DOMAIN toPeer' : toPeer'[i].type = "start"
  BY <1>1 DEF HostSends, Start
<1>5. TypeOK'
  BY <1>1, <1>3 DEF IInv, TypeOK, disk, downloader
<1>6. PositionInv'
  BY <1>1, <1>3, <1>4 DEF PositionInv, NothingSent, downloader
<1>7. ConnectionInv'
  BY <1>1, <1>3, <1>4 DEF IInv, ConnectionInv, downloader
<1>8. QED
  BY <1>3, <1>5, <1>6, <1>7 DEF IInv

LEMMA SendChunkInv == ASSUME IInv, SendChunk PROVE IInv'
<1> DEFINE f == Data(offset, ChunkEnd)
<1>1. /\ pc = "send" /\ pc' = "ack" /\ attached /\ HostSends(f)
      /\ UNCHANGED <<isNew, reconnected, offset, disk, downloader>>
  BY DEF SendChunk, HostSends
<1>2. offset \in Nat /\ ChunkEnd \in Nat /\ offset < ChunkEnd /\ ChunkEnd <= ShardLength
      /\ offset < ShardLength
  BY <1>1, LengthAssumption, ChunkAssumption DEF IInv, TypeOK, PositionInv, ChunkEnd
<1>3. f \in Frame /\ f.type = "data" /\ f.from = offset /\ f.to = ChunkEnd
  BY <1>2, FramesTyped DEF Data
<1> HIDE DEF f
<1>4. Continues(f)
  BY <1>1, <1>2, <1>3 DEF Continues, IInv, PositionInv
<1>5. /\ toPeer' \in Seq(Frame) /\ FramesInv' /\ StreamInv'
      /\ Sent' = ChunkEnd
      /\ UNCHANGED <<bound, attached, toHost>>
      /\ Len(toPeer') \in DOMAIN toPeer' /\ toPeer'[Len(toPeer')] = f
  BY <1>1, <1>3, <1>4, SendFacts
<1>6. TypeOK'
  BY <1>1, <1>5 DEF IInv, TypeOK, disk, downloader
<1>7. PositionInv'
  <2>1. ChunkEnd' = ChunkEnd
    BY <1>1 DEF ChunkEnd
  <2>2. QED
    BY <1>1, <1>2, <1>5, <2>1 DEF PositionInv
<1>8. ConnectionInv'
  <2>1. \A i \in DOMAIN toPeer' : toPeer'[i].type # "END"
    <3>1. \A i \in DOMAIN toPeer : toPeer[i].type # "END"
      BY <1>1 DEF IInv, ConnectionInv
    <3>2. toPeer \in Seq(Frame) /\ toPeer' = Append(toPeer, f)
      BY <1>1 DEF HostSends, IInv, TypeOK
    <3>3. QED
      BY <1>3, <3>1, <3>2, AppendFacts
  <2>2. QED
    BY <1>1, <1>5, <2>1 DEF IInv, ConnectionInv, downloader
<1>9. QED
  BY <1>5, <1>6, <1>7, <1>8 DEF IInv

LEMMA SendEndInv == ASSUME IInv, SendEnd PROVE IInv'
<1>1. /\ pc = "finish" /\ pc' = "close" /\ attached /\ HostSends(END)
      /\ UNCHANGED <<isNew, reconnected, offset, disk, downloader>>
  BY DEF SendEnd, HostSends
<1>2. Continues(END)
  BY <1>1, FramesTyped DEF Continues, END, IInv, PositionInv
<1>3. /\ toPeer' \in Seq(Frame) /\ FramesInv' /\ StreamInv'
      /\ UNCHANGED <<bound, attached, toHost>>
  BY <1>1, <1>2, SendFacts
<1>4. TypeOK'
  BY <1>1, <1>3 DEF IInv, TypeOK, disk, downloader
<1>5. PositionInv'
  BY <1>1 DEF PositionInv
<1>6. ConnectionInv'
  BY <1>1, <1>3 DEF IInv, ConnectionInv, downloader
<1>7. QED
  BY <1>3, <1>4, <1>5, <1>6 DEF IInv

-----------------------------------------------------------------------------
(* Steps of the downloader, and connections that are made.                 *)

LEMMA AttachInv == ASSUME IInv, Attach PROVE IInv'
<1>1. /\ bound /\ toHost = <<>> /\ toPeer = <<>> /\ peer = "start" /\ attached' = TRUE
      /\ UNCHANGED <<host, disk, bound, toHost, toPeer, downloader>>
  BY DEF Attach
<1>2. FramesInv' /\ StreamInv' /\ UNCHANGED <<Sent, NothingSent, Greeted>>
  BY <1>1, QuietFacts
<1>3. TypeOK'
  BY <1>1 DEF IInv, TypeOK, host, disk, downloader
<1>4. ~Greeted'
  BY <1>1 DEF Greeted, downloader
<1>5. PositionInv'
  BY <1>1, <1>2, <1>4 DEF IInv, PositionInv, host, downloader
<1>6. ConnectionInv'
  BY <1>1 DEF IInv, ConnectionInv, host, downloader
<1>7. QED
  BY <1>2, <1>3, <1>5, <1>6 DEF IInv

LEMMA PeerConnectsInv == ASSUME IInv, PeerConnects PROVE IInv'
<1>1. /\ peer = "closed" /\ peer' = "start" /\ toPeer = <<>> /\ ~attached
      /\ UNCHANGED <<host, disk, wire, fresh, got, good>>
  BY DEF PeerConnects, IInv, StreamInv, ConnectionInv
<1>2. FramesInv' /\ StreamInv'
  BY <1>1 DEF IInv, FramesInv, StreamInv, wire
<1>3. TypeOK'
  BY <1>1 DEF IInv, TypeOK, host, disk, wire
<1>4. PositionInv'
  BY <1>1 DEF IInv, PositionInv, NothingSent, host, wire
<1>5. ConnectionInv'
  BY <1>1 DEF IInv, ConnectionInv, host, wire
<1>6. QED
  BY <1>2, <1>3, <1>4, <1>5 DEF IInv

(* What is left when the first frame has been read, and its unit counted.  *)
ReadFirst ==
  /\ toPeer \in Seq(Frame) /\ 1 \in DOMAIN toPeer /\ toPeer[1] \in Frame
  /\ toPeer' \in Seq(Frame) /\ Len(toPeer') = Len(toPeer) - 1
  /\ \A i \in DOMAIN toPeer' : i + 1 \in DOMAIN toPeer /\ toPeer'[i] = toPeer[i + 1]

LEMMA ReadFacts ==
  ASSUME IInv, NEW type, PeerReads(type)
  PROVE  /\ ReadFirst /\ toPeer[1].type = type /\ toPeer[1] = Head(toPeer)
         /\ UNCHANGED <<host, disk, bound, attached>>
<1>1. toPeer \in Seq(Frame) /\ toPeer # <<>> /\ toPeer' = Tail(toPeer) /\ Head(toPeer).type = type
  BY DEF IInv, TypeOK, PeerReads
<1>2. /\ toPeer' \in Seq(Frame) /\ Len(toPeer') = Len(toPeer) - 1
      /\ \A i \in DOMAIN toPeer' : i + 1 \in DOMAIN toPeer /\ toPeer'[i] = toPeer[i + 1]
      /\ Head(toPeer) = toPeer[1] /\ 1 \in DOMAIN toPeer /\ toPeer[1] \in Frame
  BY <1>1, TailFacts
<1>3. QED
  BY <1>1 DEF ReadFirst, PeerReads

(* The rest of the stream fits what the downloader has then.               *)
LEMMA RestFits ==
  ASSUME IInv, ReadFirst, Greeted, peer' = "data",
         \/ toPeer[1].type = "start" /\ got' = got
         \/ toPeer[1].type = "data" /\ got' = toPeer[1].to
  PROVE  /\ \A i \in DOMAIN toPeer' :
              /\ toPeer'[i].type = "data" => toPeer'[i].from = Before(i)'
              /\ toPeer'[i].type = "END" => Before(i)' = ShardLength
         /\ \A i \in DOMAIN toPeer' : toPeer'[i].type # "start"
         /\ Sent' = Sent
<1>1. /\ DOMAIN toPeer = 1 .. Len(toPeer) /\ DOMAIN toPeer' = 1 .. Len(toPeer')
      /\ Len(toPeer) \in Nat /\ Len(toPeer') \in Nat /\ Len(toPeer) = Len(toPeer') + 1
  BY DEF ReadFirst
<1>2. \A i \in DOMAIN toPeer : i # 1 => toPeer[i].type # "start"
  BY DEF IInv, FramesInv
<1>3. \A i \in 1 .. Len(toPeer') + 1 : Before(i)' = Before(i + 1)
  <2>1. Before(1)' = Before(2)
    BY DEF Before
  <2>2. ASSUME NEW i \in 1 .. Len(toPeer') + 1, i # 1 PROVE Before(i)' = Before(i + 1)
    <3>1. i - 1 \in DOMAIN toPeer' /\ toPeer'[i - 1] = toPeer[i] /\ toPeer[i].type # "start"
      BY <1>2, <2>2 DEF ReadFirst
    <3>2. QED
      BY <3>1 DEF Before
  <2>3. QED
    BY <2>1, <2>2
<1>4. \A i \in DOMAIN toPeer' :
        /\ toPeer'[i].type = "data" => toPeer'[i].from = Before(i)'
        /\ toPeer'[i].type = "END" => Before(i)' = ShardLength
  BY <1>3 DEF IInv, StreamInv, ReadFirst
<1>5. \A i \in DOMAIN toPeer' : toPeer'[i].type # "start"
  BY <1>2 DEF ReadFirst
<1>6. Sent' = Sent
  BY <1>1, <1>3 DEF Sent
<1>7. QED
  BY <1>4, <1>5, <1>6

LEMMA PeerSendsFacts ==
  ASSUME TypeOK, NEW f \in Frame, toHost' = toHost \/ PeerSends(f)
  PROVE  /\ toHost' \in Seq(Frame)
         /\ \A i \in DOMAIN toHost' : (i \in DOMAIN toHost /\ toHost'[i] = toHost[i]) \/ toHost'[i] = f
<1>1. toHost \in Seq(Frame) /\ (toHost' = toHost \/ toHost' = Append(toHost, f))
  BY DEF TypeOK, PeerSends
<1>2. QED
  BY <1>1, AppendFacts

LEMMA PeerStartsInv == ASSUME IInv, PeerStarts PROVE IInv'
<1>1. /\ ReadFirst /\ toPeer[1].type = "start" /\ Greeted /\ peer' = "data"
      /\ peer = "start"
      /\ UNCHANGED <<host, disk, bound, attached, fresh, got, good>>
  BY ReadFacts DEF PeerStarts, Greeted, ReadFirst
<1>2. /\ \A i \in DOMAIN toPeer' :
              /\ toPeer'[i].type = "data" => toPeer'[i].from = Before(i)'
              /\ toPeer'[i].type = "END" => Before(i)' = ShardLength
      /\ \A i \in DOMAIN toPeer' : toPeer'[i].type # "start"
      /\ Sent' = Sent
  BY <1>1, RestFits
<1>3. /\ toHost' \in Seq(Frame)
      /\ \A i \in DOMAIN toHost' :
           (i \in DOMAIN toHost /\ toHost'[i] = toHost[i]) \/ toHost'[i].from = got
  <2>1. got \in Nat /\ Resume(got) \in Frame /\ Resume(got).from = got
    BY FramesTyped DEF IInv, TypeOK, Resume
  <2>2. toHost' = toHost \/ PeerSends(Resume(got))
    BY DEF PeerStarts
  <2>3. QED
    BY <2>1, <2>2, PeerSendsFacts DEF IInv
<1>4. FramesInv'
  BY <1>1, <1>2, <1>3 DEF IInv, FramesInv, StreamInv, ReadFirst
<1>5. StreamInv'
  BY <1>1, <1>2 DEF IInv, StreamInv
<1>6. TypeOK'
  BY <1>1, <1>3 DEF IInv, TypeOK, ReadFirst, host, disk
<1>7. PositionInv'
  <2>1. NothingSent => NothingSent'
    BY <1>1 DEF NothingSent, ReadFirst
  <2>2. ChunkEnd' = ChunkEnd
    BY <1>1 DEF ChunkEnd, host
  <2>3. QED
    BY <1>1, <1>2, <1>3, <2>1, <2>2 DEF IInv, PositionInv, host
<1>8. ConnectionInv'
  BY <1>1 DEF IInv, ConnectionInv, ReadFirst, host
<1>9. QED
  BY <1>4, <1>5, <1>6, <1>7, <1>8 DEF IInv

LEMMA PeerReceivesFacts ==
  ASSUME IInv, PeerReceives
  PROVE  /\ ReadFirst /\ toPeer[1].type = "data" /\ Greeted
         /\ peer = "data" /\ got < toPeer[1].to /\ toPeer[1].to <= ShardLength
         /\ got' = toPeer[1].to /\ good' = toPeer[1].to
         /\ UNCHANGED <<host, disk, bound, attached, peer, fresh>>
<1>1. /\ ReadFirst /\ toPeer[1].type = "data" /\ Greeted /\ peer = "data"
      /\ UNCHANGED <<host, disk, bound, attached, peer, fresh>>
      /\ toPeer[1] = Head(toPeer)
  BY ReadFacts DEF PeerReceives, Greeted
<1>2. toPeer[1].from = Before(1)
  BY <1>1 DEF ReadFirst, IInv, StreamInv
<1>3. toPeer[1].from = got /\ good = got
  BY <1>2 DEF Before, IInv, StreamInv
<1>4. toPeer[1].from < toPeer[1].to /\ toPeer[1].to <= ShardLength
  BY <1>1 DEF ReadFirst, IInv, FramesInv
<1>5. toPeer[1].from \in Nat /\ toPeer[1].to \in Nat
  BY <1>1 DEF ReadFirst, Frame
<1>6. got' = toPeer[1].to /\ good' = toPeer[1].to
  BY <1>3, <1>5 DEF PeerReceives
<1>7. QED
  BY <1>1, <1>3, <1>4, <1>6

LEMMA PeerReceivesInv == ASSUME IInv, PeerReceives PROVE IInv'
<1>1. /\ ReadFirst /\ toPeer[1].type = "data" /\ Greeted
      /\ peer = "data" /\ toPeer[1].to <= ShardLength
      /\ got' = toPeer[1].to /\ good' = toPeer[1].to
      /\ UNCHANGED <<host, disk, bound, attached, peer, fresh>>
  BY PeerReceivesFacts
<1>2. /\ \A i \in DOMAIN toPeer' :
              /\ toPeer'[i].type = "data" => toPeer'[i].from = Before(i)'
              /\ toPeer'[i].type = "END" => Before(i)' = ShardLength
      /\ \A i \in DOMAIN toPeer' : toPeer'[i].type # "start"
      /\ Sent' = Sent
  BY <1>1, RestFits
<1>3. /\ toHost' \in Seq(Frame)
      /\ \A i \in DOMAIN toHost' :
           (i \in DOMAIN toHost /\ toHost'[i] = toHost[i]) \/ toHost'[i].from = 0
  <2>1. ACK \in Frame /\ ACK.from = 0
    BY FramesTyped DEF ACK
  <2>2. PeerSends(ACK)
    BY DEF PeerReceives
  <2>3. QED
    BY <2>1, <2>2, PeerSendsFacts DEF IInv
<1>4. FramesInv'
  <2>1. \A i \in DOMAIN toHost' : toHost'[i].from <= ShardLength
    BY <1>3, LengthAssumption DEF IInv, FramesInv
  <2>2. ASSUME NEW i \in DOMAIN toPeer'
        PROVE  \/ toPeer'[i].type = "data" /\ toPeer'[i].from < toPeer'[i].to /\ toPeer'[i].to <= ShardLength
               \/ toPeer'[i].type = "END" /\ i = Len(toPeer')
    BY <1>1 DEF IInv, FramesInv, ReadFirst
  <2>3. QED
    BY <2>1, <2>2 DEF FramesInv
<1>5. StreamInv'
  BY <1>1, <1>2 DEF StreamInv
<1>6. TypeOK'
  BY <1>1, <1>3 DEF IInv, TypeOK, ReadFirst, Frame, host, disk
<1>7. PositionInv'
  <2>1. ~NothingSent
    BY <1>1 DEF NothingSent, ReadFirst
  <2>2. ChunkEnd' = ChunkEnd
    BY <1>1 DEF ChunkEnd, host
  <2>3. QED
    BY <1>1, <1>2, <2>1, <2>2 DEF IInv, PositionInv, host
<1>8. ConnectionInv'
  BY <1>1 DEF IInv, ConnectionInv, ReadFirst, host
<1>9. QED
  BY <1>4, <1>5, <1>6, <1>7, <1>8 DEF IInv

LEMMA PeerFinishesFacts ==
  ASSUME IInv, PeerFinishes
  PROVE  /\ ReadFirst /\ toPeer[1].type = "END" /\ toPeer' = <<>>
         /\ got = ShardLength /\ good = ShardLength
         /\ peer = "data" /\ peer' = "done"
         /\ UNCHANGED <<host, disk, bound, attached, toHost, fresh, got, good>>
<1>1. /\ ReadFirst /\ toPeer[1].type = "END" /\ Greeted /\ peer = "data" /\ peer' = "done"
      /\ UNCHANGED <<host, disk, bound, attached, toHost, fresh, got, good>>
  BY ReadFacts DEF PeerFinishes, Greeted
<1>2. Before(1) = ShardLength /\ good = got
  BY <1>1 DEF ReadFirst, IInv, StreamInv
<1>3. got = ShardLength
  BY <1>2 DEF Before
<1>4. Len(toPeer) = 1
  BY <1>1 DEF ReadFirst, IInv, FramesInv
<1>5. toPeer' = <<>>
  BY <1>1, <1>4 DEF ReadFirst
<1>6. QED
  BY <1>1, <1>2, <1>3, <1>5

LEMMA PeerFinishesInv == ASSUME IInv, PeerFinishes PROVE IInv'
<1>1. /\ ReadFirst /\ toPeer[1].type = "END" /\ toPeer' = <<>>
      /\ got = ShardLength /\ good = ShardLength
      /\ peer = "data" /\ peer' = "done"
      /\ UNCHANGED <<host, disk, bound, attached, toHost, fresh, got, good>>
  BY PeerFinishesFacts
<1>2. FramesInv'
  BY <1>1 DEF IInv, FramesInv
<1>3. StreamInv'
  BY <1>1 DEF IInv, StreamInv
<1>4. TypeOK'
  BY <1>1 DEF IInv, TypeOK, host, disk
<1>5. PositionInv'
  <2>1. ~Greeted'
    BY <1>1 DEF Greeted
  <2>2. ~NothingSent
    BY <1>1 DEF NothingSent, ReadFirst
  <2>3. QED
    BY <1>1, <2>1, <2>2 DEF IInv, PositionInv, host
<1>6. ConnectionInv'
  BY <1>1 DEF IInv, ConnectionInv, host
<1>7. QED
  BY <1>2, <1>3, <1>4, <1>5, <1>6 DEF IInv

-----------------------------------------------------------------------------
(* IInv is an invariant of every behaviour.                                *)

LEMMA InitIInv == Init => IInv
<1> SUFFICES ASSUME Init PROVE IInv
  OBVIOUS
<1>1. TypeOK
  <2>1. toHost \in Seq(Frame) /\ toPeer \in Seq(Frame)
    BY DEF Init
  <2>2. offset \in 0 .. ShardLength /\ got \in Nat /\ good \in 0 .. got
    BY LengthAssumption DEF Init
  <2>3. /\ pc = "check" /\ peer = "closed"
        /\ isNew = TRUE /\ reconnected = FALSE /\ linked \in BOOLEAN /\ inLedger = TRUE
        /\ bound = FALSE /\ attached = FALSE /\ fresh = TRUE
    BY DEF Init
  <2>4. QED
    BY <2>1, <2>2, <2>3 DEF TypeOK
<1>2. FramesInv /\ StreamInv
  BY LengthAssumption DEF Init, FramesInv, StreamInv, Greeted
<1>3. PositionInv /\ ConnectionInv
  BY DEF Init, PositionInv, ConnectionInv, NothingSent
<1>4. QED
  BY <1>1, <1>2, <1>3 DEF IInv

LEMMA StepIInv == IInv /\ [Next]_vars => IInv'
<1> SUFFICES ASSUME IInv, [Next]_vars PROVE IInv'
  OBVIOUS
<1>1. CASE UNCHANGED vars
  <2>1. FramesInv' /\ StreamInv' /\ UNCHANGED <<Sent, NothingSent, Greeted>>
    BY <1>1, QuietFacts DEF vars, wire
  <2>2. TypeOK'
    BY <1>1 DEF IInv, TypeOK, vars, host, disk, wire, downloader
  <2>3. PositionInv'
    BY <1>1, <2>1 DEF IInv, PositionInv, ChunkEnd, vars, host, wire, downloader
  <2>4. ConnectionInv'
    BY <1>1 DEF IInv, ConnectionInv, vars, host, wire, downloader
  <2>5. QED
    BY <2>1, <2>2, <2>3, <2>4 DEF IInv
<1>2. CASE Host
  BY <1>2, CheckInv, BindInv, DieInv, EmitStartInv, OpenInv, NegotiateInv, ReadInv,
     SendChunkInv, ReceiveAckInv, ChunkFailsInv, ResetInv, ResetFailsInv, GiveUpInv,
     EmitStartAgainInv, NegotiateAgainInv, ReconnectTimesOutInv, SendEndInv,
     CloseInv, UnregisterInv
     DEF Host, BindFails, OpenFails, ReadFails, SendEndTimesOut
<1>3. CASE Peer \/ PeerGivesUp
  BY <1>3, AttachInv, PeerConnectsInv, PeerStartsInv, PeerReceivesInv, PeerFinishesInv,
     PeerGivesUpInv DEF Peer
<1>4. CASE Break \/ Unlink \/ Crash \/ Recover
  BY <1>4, BreakInv, UnlinkInv, CrashInv, RecoverInv
<1>5. QED
  BY <1>1, <1>2, <1>3, <1>4 DEF Next

LEMMA Invariance == Spec => []IInv
<1>1. Init => IInv
  BY InitIInv
<1>2. IInv /\ [Next]_vars => IInv'
  BY StepIInv
<1>3. QED
  BY <1>1, <1>2, PTL DEF Spec

(* Every variable keeps its type, and no offset is beyond the file.        *)
THEOREM TypeCorrect == Spec => []TypeOK
  BY Invariance, PTL DEF IInv

(* Whatever is lost, whoever comes back and whenever the host dies, what   *)
(* the downloader has put together is a prefix of the shard.               *)
THEOREM AlwaysPrefix == Spec => []AssembledIsPrefix
<1>1. IInv => AssembledIsPrefix
  BY DEF IInv, StreamInv, AssembledIsPrefix
<1>2. QED
  BY <1>1, Invariance, PTL

-----------------------------------------------------------------------------
(* Serving a download implements TransferPromise.                          *)

LEMMA StepRefines == IInv /\ [Next]_vars => [Download!Next]_(Download!vars)
<1> SUFFICES ASSUME IInv, [Next]_vars
             PROVE  Download!Next \/ UNCHANGED Download!vars
  OBVIOUS
<1> USE DEF Download!Next, Download!vars, Download!Grow, Download!Confirm
<1>1. CASE PeerReceives
  <2>1. /\ good = got /\ got < toPeer[1].to /\ toPeer[1].to <= ShardLength
        /\ good' = toPeer[1].to /\ peer = "data" /\ UNCHANGED peer
        /\ toPeer[1] \in Frame /\ got \in Nat
    BY <1>1, PeerReceivesFacts DEF IInv, TypeOK, StreamInv, ReadFirst
  <2>2. good' \in good + 1 .. ShardLength
    BY <2>1 DEF Frame
  <2>3. QED
    BY <2>1, <2>2
<1>2. CASE PeerFinishes
  BY <1>2, PeerFinishesFacts
<1>3. CASE PeerConnects \/ PeerStarts \/ PeerGivesUp
  BY <1>3 DEF PeerConnects, PeerStarts, PeerGivesUp
<1>4. CASE UNCHANGED vars \/ Host \/ Attach \/ Break \/ Unlink \/ Crash \/ Recover
  <2>1. UNCHANGED downloader
    BY <1>4 DEF vars, Host, Check, Bind, BindFails, EmitStart, Open, OpenFails, Negotiate,
       Read, ReadFails, SendChunk, ReceiveAck, ChunkFails, Reset, ResetFails, GiveUp,
       EmitStartAgain, NegotiateAgain, ReconnectTimesOut, SendEnd, SendEndTimesOut,
       Close, Unregister, Die, Attach, Break, Unlink, Crash, Recover
  <2>2. QED
    BY <2>1 DEF downloader
<1>5. QED
  BY <1>1, <1>2, <1>3, <1>4 DEF Next, Peer

(* Serving a shard, with all its losses and restarts, is the growing of a  *)
(* prefix at the downloader, which END reaches only when it has the whole. *)
THEOREM DownloadKeepsPromise == Spec => Promise
<1>1. Init => Download!Init
  BY DEF Init, Download!Init
<1>2. IInv /\ [Next]_vars => [Download!Next]_(Download!vars)
  BY StepRefines
<1>3. QED
  BY <1>1, <1>2, Invariance, PTL DEF Spec, Promise, Download!Spec
=============================================================================
