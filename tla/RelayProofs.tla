---------------------------- MODULE RelayProofs ----------------------------
(***************************************************************************)
(* For any number of chunks: a relay whose handler has returned has closed *)
(* its sockets, and SOCKS5, CONNECT and plain requests cut nothing off.    *)
(***************************************************************************)
EXTENDS Relay, TLAPS

\* A peer sends a chunk.
LEMMA PeerSendsInv ==
  ASSUME IInv, NEW c \in Directions, PeerSends(c)
  PROVE  IInv'
<1> USE DEF Directions, Ends, Src, Dst
<1>1. TypeOK'
  BY RelayAssumption DEF IInv, PeerSends, Src, TypeOK, Accounted
<1>2. EndedIsClosed'
  BY DEF IInv, PeerSends, Src, TypeOK, EndedIsClosed
<1>3. Accounted'
  BY RelayAssumption DEF IInv, PeerSends, Src, TypeOK, Accounted
<1>4. InOrder'
  BY DEF IInv, PeerSends, Src, TypeOK, InOrder
<1>5. Lossless'
  BY RelayAssumption DEF IInv, PeerSends, Src, TypeOK, Accounted, InOrder, Lossless, Kept,
     Undisturbed
<1>6. QED
  BY <1>1, <1>2, <1>3, <1>4, <1>5 DEF IInv

\* A peer finishes.
LEMMA PeerFinishesInv ==
  ASSUME IInv, NEW e \in Ends, PeerFinishes(e)
  PROVE  IInv'
<1> USE DEF Directions, Ends, Src, Dst
<1>1. TypeOK'
  BY RelayAssumption DEF IInv, PeerFinishes, Src, TypeOK, Accounted
<1>2. EndedIsClosed'
  BY DEF IInv, PeerFinishes, Src, TypeOK, EndedIsClosed
<1>3. Accounted'
  BY RelayAssumption DEF IInv, PeerFinishes, Src, TypeOK, Accounted
<1>4. InOrder'
  BY DEF IInv, PeerFinishes, Src, TypeOK, InOrder
<1>5. Lossless'
  BY RelayAssumption DEF IInv, PeerFinishes, Src, TypeOK, Accounted, InOrder, Lossless,
     Kept, Undisturbed
<1>6. QED
  BY <1>1, <1>2, <1>3, <1>4, <1>5 DEF IInv

\* A peer leaves.
LEMMA PeerLeavesInv ==
  ASSUME IInv, NEW e \in Ends, PeerLeaves(e)
  PROVE  IInv'
<1> USE DEF Directions, Ends, Src, Dst
<1>1. TypeOK'
  BY RelayAssumption DEF IInv, PeerLeaves, TypeOK, Accounted
<1>2. EndedIsClosed'
  BY DEF IInv, PeerLeaves, TypeOK, EndedIsClosed
<1>3. Accounted'
  BY RelayAssumption DEF IInv, PeerLeaves, TypeOK, Accounted
<1>4. InOrder'
  BY DEF IInv, PeerLeaves, TypeOK, InOrder
<1>5. Lossless'
  BY RelayAssumption DEF IInv, PeerLeaves, TypeOK, Accounted, InOrder, Lossless, Kept,
     Undisturbed
<1>6. QED
  BY <1>1, <1>2, <1>3, <1>4, <1>5 DEF IInv

\* The proxy stops.
LEMMA ProxyStopsInv ==
  ASSUME IInv, ProxyStops
  PROVE  IInv'
<1> USE DEF Directions, Ends, Src, Dst
<1>1. TypeOK'
  BY RelayAssumption DEF IInv, ProxyStops, TypeOK, Accounted
<1>2. EndedIsClosed'
  BY DEF IInv, ProxyStops, TypeOK, EndedIsClosed
<1>3. Accounted'
  BY RelayAssumption DEF IInv, ProxyStops, TypeOK, Accounted
<1>4. InOrder'
  BY DEF IInv, ProxyStops, TypeOK, InOrder
<1>5. Lossless'
  BY RelayAssumption DEF IInv, ProxyStops, TypeOK, Accounted, InOrder, Lossless, Kept,
     Undisturbed
<1>6. QED
  BY <1>1, <1>2, <1>3, <1>4, <1>5 DEF IInv

\* A request is abandoned.
LEMMA RequestAbandonedInv ==
  ASSUME IInv, RequestAbandoned
  PROVE  IInv'
<1> USE DEF Directions, Ends, Src, Dst
<1>1. TypeOK'
  BY RelayAssumption DEF IInv, RequestAbandoned, TypeOK, Accounted
<1>2. EndedIsClosed'
  BY DEF IInv, RequestAbandoned, TypeOK, EndedIsClosed
<1>3. Accounted'
  BY RelayAssumption DEF IInv, RequestAbandoned, TypeOK, Accounted
<1>4. InOrder'
  BY DEF IInv, RequestAbandoned, TypeOK, InOrder
<1>5. Lossless'
  BY RelayAssumption DEF IInv, RequestAbandoned, TypeOK, Accounted, InOrder, Lossless,
     Kept, Undisturbed
<1>6. QED
  BY <1>1, <1>2, <1>3, <1>4, <1>5 DEF IInv

\* The first message of the client.
LEMMA HelloInv ==
  ASSUME IInv, Hello
  PROVE  IInv'
<1> USE DEF Directions, Ends, Src, Dst
<1>1. TypeOK'
  BY RelayAssumption DEF IInv, Hello, TypeOK, Accounted
<1>2. EndedIsClosed'
  BY DEF IInv, Hello, TypeOK, EndedIsClosed
<1>3. Accounted'
  BY RelayAssumption DEF IInv, Hello, TypeOK, Accounted
<1>4. InOrder'
  BY DEF IInv, Hello, TypeOK, InOrder
<1>5. Lossless'
  BY RelayAssumption DEF IInv, Hello, TypeOK, Accounted, InOrder, Lossless, Kept,
     Undisturbed
<1>6. QED
  BY <1>1, <1>2, <1>3, <1>4, <1>5 DEF IInv

\* The connection is refused.
LEMMA RefuseInv ==
  ASSUME IInv, Refuse
  PROVE  IInv'
<1> USE DEF Directions, Ends, Src, Dst
<1>1. TypeOK'
  BY RelayAssumption DEF IInv, Refuse, Closed, TypeOK, Accounted
<1>2. EndedIsClosed'
  BY DEF IInv, Refuse, Closed, TypeOK, EndedIsClosed
<1>3. Accounted'
  BY RelayAssumption DEF IInv, Refuse, Closed, TypeOK, Accounted
<1>4. InOrder'
  BY DEF IInv, Refuse, Closed, TypeOK, InOrder
<1>5. Lossless'
  BY RelayAssumption DEF IInv, Refuse, Closed, TypeOK, Accounted, InOrder, Lossless, Kept,
     Undisturbed
<1>6. QED
  BY <1>1, <1>2, <1>3, <1>4, <1>5 DEF IInv

\* The remote is dialled.
LEMMA DialledInv ==
  ASSUME IInv, Dialled
  PROVE  IInv'
<1> USE DEF Directions, Ends, Src, Dst
<1>1. TypeOK'
  BY RelayAssumption DEF IInv, Dialled, TypeOK, Accounted
<1>2. EndedIsClosed'
  BY DEF IInv, Dialled, TypeOK, EndedIsClosed
<1>3. Accounted'
  BY RelayAssumption DEF IInv, Dialled, TypeOK, Accounted
<1>4. InOrder'
  BY DEF IInv, Dialled, TypeOK, InOrder
<1>5. Lossless'
  BY RelayAssumption DEF IInv, Dialled, TypeOK, Accounted, InOrder, Lossless, Kept,
     Undisturbed
<1>6. QED
  BY <1>1, <1>2, <1>3, <1>4, <1>5 DEF IInv

\* The set-up fails.
LEMMA SetupFailsInv ==
  ASSUME IInv, SetupFails
  PROVE  IInv'
<1> USE DEF Directions, Ends, Src, Dst
<1>1. TypeOK'
  BY RelayAssumption DEF IInv, SetupFails, Closed, TypeOK, Accounted
<1>2. EndedIsClosed'
  BY DEF IInv, SetupFails, Closed, TypeOK, EndedIsClosed
<1>3. Accounted'
  BY RelayAssumption DEF IInv, SetupFails, Closed, TypeOK, Accounted
<1>4. InOrder'
  BY DEF IInv, SetupFails, Closed, TypeOK, InOrder
<1>5. Lossless'
  BY RelayAssumption DEF IInv, SetupFails, Closed, TypeOK, Accounted, InOrder, Lossless,
     Kept, Undisturbed
<1>6. QED
  BY <1>1, <1>2, <1>3, <1>4, <1>5 DEF IInv

\* The loops start.
LEMMA SetupDoneInv ==
  ASSUME IInv, SetupDone
  PROVE  IInv'
<1> USE DEF Directions, Ends, Src, Dst
<1>1. TypeOK'
  BY RelayAssumption DEF IInv, SetupDone, Looking, TypeOK, Accounted
<1>2. EndedIsClosed'
  BY DEF IInv, SetupDone, Looking, TypeOK, EndedIsClosed
<1>3. Accounted'
  BY RelayAssumption DEF IInv, SetupDone, Looking, TypeOK, Accounted
<1>4. InOrder'
  BY DEF IInv, SetupDone, Looking, TypeOK, InOrder
<1>5. Lossless'
  BY RelayAssumption DEF IInv, SetupDone, Looking, TypeOK, Accounted, InOrder, Lossless,
     Kept, Undisturbed
<1>6. QED
  BY <1>1, <1>2, <1>3, <1>4, <1>5 DEF IInv

\* A loop looks at its context.
LEMMA CheckContextInv ==
  ASSUME IInv, NEW c \in Directions, CheckContext(c)
  PROVE  IInv'
<1> USE DEF Directions, Ends, Src, Dst
<1>1. TypeOK'
  BY RelayAssumption DEF IInv, CheckContext, TypeOK, Accounted
<1>2. EndedIsClosed'
  BY DEF IInv, CheckContext, TypeOK, EndedIsClosed
<1>3. Accounted'
  BY RelayAssumption DEF IInv, CheckContext, TypeOK, Accounted
<1>4. InOrder'
  BY DEF IInv, CheckContext, TypeOK, InOrder
<1>5. Lossless'
  BY RelayAssumption DEF IInv, CheckContext, TypeOK, Accounted, InOrder, Lossless, Kept,
     Undisturbed
<1>6. QED
  BY <1>1, <1>2, <1>3, <1>4, <1>5 DEF IInv

\* A loop reads a chunk.
LEMMA ReadChunkInv ==
  ASSUME IInv, NEW c \in Directions, ReadChunk(c)
  PROVE  IInv'
<1> USE DEF Directions, Ends, Src, Dst
<1>1. TypeOK'
  BY RelayAssumption DEF IInv, ReadChunk, TypeOK, Accounted
<1>2. EndedIsClosed'
  BY DEF IInv, ReadChunk, TypeOK, EndedIsClosed
<1>3. Accounted'
  BY RelayAssumption DEF IInv, ReadChunk, TypeOK, Accounted
<1>4. InOrder'
  BY DEF IInv, ReadChunk, TypeOK, InOrder
<1>5. Lossless'
  BY RelayAssumption DEF IInv, ReadChunk, TypeOK, Accounted, InOrder, Lossless, Kept,
     Undisturbed
<1>6. QED
  BY <1>1, <1>2, <1>3, <1>4, <1>5 DEF IInv

\* A loop stops reading.
LEMMA ReadEndsInv ==
  ASSUME IInv, NEW c \in Directions, ReadEnds(c)
  PROVE  IInv'
<1> USE DEF Directions, Ends, Src, Dst
<1>1. TypeOK'
  BY RelayAssumption DEF IInv, ReadEnds, AtEOF, ReadsContext, TypeOK, Accounted
<1>2. EndedIsClosed'
  BY DEF IInv, ReadEnds, AtEOF, ReadsContext, TypeOK, EndedIsClosed
<1>3. Accounted'
  BY RelayAssumption DEF IInv, ReadEnds, AtEOF, ReadsContext, TypeOK, Accounted
<1>4. InOrder'
  BY DEF IInv, ReadEnds, AtEOF, ReadsContext, TypeOK, InOrder
<1>5. Lossless'
  BY RelayAssumption DEF IInv, ReadEnds, AtEOF, ReadsContext, TypeOK, Accounted, InOrder,
     Lossless, Kept, Undisturbed
<1>6. QED
  BY <1>1, <1>2, <1>3, <1>4, <1>5 DEF IInv

\* A loop writes a chunk.
LEMMA WriteChunkInv ==
  ASSUME IInv, NEW c \in Directions, WriteChunk(c)
  PROVE  IInv'
<1> USE DEF Directions, Ends, Src, Dst
<1>1. TypeOK'
  BY RelayAssumption DEF IInv, WriteChunk, Looking, TypeOK, Accounted
<1>2. EndedIsClosed'
  BY DEF IInv, WriteChunk, Looking, TypeOK, EndedIsClosed
<1>3. Accounted'
  BY RelayAssumption DEF IInv, WriteChunk, Looking, TypeOK, Accounted
<1>4. InOrder'
  BY DEF IInv, WriteChunk, Looking, TypeOK, InOrder
<1>5. Lossless'
  BY RelayAssumption DEF IInv, WriteChunk, Looking, TypeOK, Accounted, InOrder, Lossless,
     Kept, Undisturbed
<1>6. QED
  BY <1>1, <1>2, <1>3, <1>4, <1>5 DEF IInv

\* A loop drops a message.
LEMMA SkipChunkInv ==
  ASSUME IInv, NEW c \in Directions, SkipChunk(c)
  PROVE  IInv'
<1> USE DEF Directions, Ends, Src, Dst
<1>1. TypeOK'
  BY RelayAssumption DEF IInv, SkipChunk, Looking, WebSocketKinds, TypeOK, Accounted
<1>2. EndedIsClosed'
  BY DEF IInv, SkipChunk, Looking, WebSocketKinds, TypeOK, EndedIsClosed
<1>3. Accounted'
  BY RelayAssumption DEF IInv, SkipChunk, Looking, WebSocketKinds, TypeOK, Accounted
<1>4. InOrder'
  BY DEF IInv, SkipChunk, Looking, WebSocketKinds, TypeOK, InOrder
<1>5. Lossless'
  BY RelayAssumption DEF IInv, SkipChunk, Looking, WebSocketKinds, TypeOK, Accounted,
     InOrder, Lossless, Kept, Undisturbed
<1>6. QED
  BY <1>1, <1>2, <1>3, <1>4, <1>5 DEF IInv

\* A loop cannot write.
LEMMA WriteFailsInv ==
  ASSUME IInv, NEW c \in Directions, WriteFails(c)
  PROVE  IInv'
<1> USE DEF Directions, Ends, Src, Dst
<1>1. TypeOK'
  BY RelayAssumption DEF IInv, WriteFails, WritesContext, TypeOK, Accounted
<1>2. EndedIsClosed'
  BY DEF IInv, WriteFails, WritesContext, TypeOK, EndedIsClosed
<1>3. Accounted'
  BY RelayAssumption DEF IInv, WriteFails, WritesContext, TypeOK, Accounted
<1>4. InOrder'
  BY DEF IInv, WriteFails, WritesContext, TypeOK, InOrder
<1>5. Lossless'
  BY RelayAssumption DEF IInv, WriteFails, WritesContext, TypeOK, Accounted, InOrder,
     Lossless, Kept, Undisturbed
<1>6. QED
  BY <1>1, <1>2, <1>3, <1>4, <1>5 DEF IInv

\* A loop ends.
LEMMA LoopEndsInv ==
  ASSUME IInv, NEW c \in Directions, LoopEnds(c)
  PROVE  IInv'
<1> USE DEF Directions, Ends, Src, Dst
<1>0. kind \in Kinds /\ TypeOK
  BY DEF IInv, TypeOK
<1>1. TypeOK'
  <2>1. cancelled' \in BOOLEAN
    BY <1>0 DEF LoopEnds, HandlerReturns, TypeOK
  <2>2. stage' \in {"hello", "dial", "reply", "relay", "ended"}
    BY <1>0 DEF LoopEnds, HandlerReturns, TypeOK
  <2>3. Closed \in [Ends -> {"none", "open", "shut", "closed"}]
    BY <1>0 DEF Closed, TypeOK
  <2>4. AfterLoop(c) \in [Ends -> {"none", "open", "shut", "closed"}] \/ kind \notin WaitingKinds
    BY <1>0, <2>3 DEF AfterLoop, SocksEnded, TunnelEnded, UpgradeEnded, TerminalEnded,
       HalfClosed, WaitingKinds, TypeOK
  <2>5. sock' \in [Ends -> {"none", "open", "shut", "closed"}]
    BY <1>0, <2>3, <2>4 DEF LoopEnds, HandlerReturns, TypeOK
  <2>6. /\ pc' \in [Directions -> {"none", "check", "read", "write", "end", "done"}]
        /\ UNCHANGED <<kind, peer, sent, got, delivered>>
    BY <1>0 DEF LoopEnds, TypeOK
  <2> QED
    BY <1>0, <2>1, <2>2, <2>5, <2>6 DEF TypeOK
<1>2. EndedIsClosed'
  BY DEF IInv, LoopEnds, IsHandler, HandlerReturns, AfterLoop, SocksEnded, TunnelEnded,
     UpgradeEnded, TerminalEnded, HalfClosed, Closed, WaitingKinds, TypeOK, EndedIsClosed
<1>3. Accounted'
  BY RelayAssumption DEF IInv, LoopEnds, IsHandler, HandlerReturns, AfterLoop, SocksEnded,
     TunnelEnded, UpgradeEnded, TerminalEnded, HalfClosed, Closed, WaitingKinds, TypeOK,
     Accounted
<1>4. InOrder'
  BY DEF IInv, LoopEnds, IsHandler, HandlerReturns, AfterLoop, SocksEnded, TunnelEnded,
     UpgradeEnded, TerminalEnded, HalfClosed, Closed, WaitingKinds, TypeOK, InOrder
<1>5. Lossless'
  BY RelayAssumption DEF IInv, LoopEnds, IsHandler, HandlerReturns, AfterLoop, SocksEnded,
     TunnelEnded, UpgradeEnded, TerminalEnded, HalfClosed, Closed, WaitingKinds, TypeOK,
     Accounted, InOrder, Lossless, Kept, Undisturbed
<1>6. QED
  BY <1>1, <1>2, <1>3, <1>4, <1>5 DEF IInv

\* The handler has waited for its loops.
LEMMA HandlerEndsInv ==
  ASSUME IInv, HandlerEnds
  PROVE  IInv'
<1> USE DEF Directions, Ends, Src, Dst
<1>1. TypeOK'
  BY RelayAssumption DEF IInv, HandlerEnds, Closed, WaitingKinds, TypeOK, Accounted
<1>2. EndedIsClosed'
  BY DEF IInv, HandlerEnds, Closed, WaitingKinds, TypeOK, EndedIsClosed
<1>3. Accounted'
  BY RelayAssumption DEF IInv, HandlerEnds, Closed, WaitingKinds, TypeOK, Accounted
<1>4. InOrder'
  BY DEF IInv, HandlerEnds, Closed, WaitingKinds, TypeOK, InOrder
<1>5. Lossless'
  BY RelayAssumption DEF IInv, HandlerEnds, Closed, WaitingKinds, TypeOK, Accounted,
     InOrder, Lossless, Kept, Undisturbed
<1>6. QED
  BY <1>1, <1>2, <1>3, <1>4, <1>5 DEF IInv

\* The context of a hijacked connection is cancelled.
LEMMA StopCancelInv ==
  ASSUME IInv, StopCancel
  PROVE  IInv'
<1> USE DEF Directions, Ends, Src, Dst
<1>1. TypeOK'
  BY RelayAssumption DEF IInv, StopCancel, Closed, TypeOK, Accounted
<1>2. EndedIsClosed'
  BY DEF IInv, StopCancel, Closed, TypeOK, EndedIsClosed
<1>3. Accounted'
  BY RelayAssumption DEF IInv, StopCancel, Closed, TypeOK, Accounted
<1>4. InOrder'
  BY DEF IInv, StopCancel, Closed, TypeOK, InOrder
<1>5. Lossless'
  BY RelayAssumption DEF IInv, StopCancel, Closed, TypeOK, Accounted, InOrder, Lossless,
     Kept, Undisturbed
<1>6. QED
  BY <1>1, <1>2, <1>3, <1>4, <1>5 DEF IInv

\* The states a connection starts in.
LEMMA InitInv == Init => IInv
<1> SUFFICES ASSUME Init PROVE IInv
  OBVIOUS
<1> USE DEF Ends, Directions
<1>1. /\ stage \in {"hello", "dial", "reply"}
      /\ sock["client"] = "open" /\ (stage = "reply" => sock["remote"] = "open")
      /\ \A d \in Directions : sent[d] = 0 /\ got[d] = 0 /\ delivered[d] = 0 /\ pc[d] = "none"
  BY DEF Init, HelloKinds
<1>2. TypeOK
  <2>1. stage \in {"hello", "dial", "reply", "relay", "ended"} /\ cancelled \in BOOLEAN
    BY <1>1 DEF Init
  <2>2. /\ kind \in Kinds /\ sock \in [Ends -> {"none", "open", "shut", "closed"}]
        /\ peer \in [Ends -> {"open", "fin", "gone"}]
        /\ pc \in [Directions -> {"none", "check", "read", "write", "end", "done"}]
    BY DEF Init
  <2>3. /\ sent \in [Directions -> 0..MaxChunks] /\ got \in [Directions -> 0..MaxChunks]
        /\ delivered \in [Directions -> 0..MaxChunks]
    BY RelayAssumption DEF Init
  <2>4. QED
    BY <2>1, <2>2, <2>3 DEF TypeOK
<1>3. EndedIsClosed /\ Accounted /\ InOrder /\ Lossless
  BY <1>1 DEF EndedIsClosed, Accounted, InOrder, Lossless
<1>4. QED
  BY <1>2, <1>3 DEF IInv

\* Every step keeps the invariant.
LEMMA NextInv == IInv /\ [Next]_vars => IInv'
<1> SUFFICES ASSUME IInv, [Next]_vars PROVE IInv'
  OBVIOUS
<1>1. CASE Handler
  BY <1>1, HelloInv, RefuseInv, DialledInv, SetupFailsInv, SetupDoneInv,
     HandlerEndsInv DEF Handler
<1>2. CASE StopCancel \/ ProxyStops \/ RequestAbandoned
  BY <1>2, StopCancelInv, ProxyStopsInv, RequestAbandonedInv
<1>3. ASSUME NEW c \in Directions, Loop(c) PROVE IInv'
  BY <1>3, CheckContextInv, ReadChunkInv, ReadEndsInv, WriteChunkInv, SkipChunkInv,
     WriteFailsInv, LoopEndsInv DEF Loop
<1>4. ASSUME NEW c \in Directions, PeerSends(c) PROVE IInv'
  BY <1>4, PeerSendsInv
<1>5. ASSUME NEW e \in Ends, PeerFinishes(e) \/ PeerLeaves(e) PROVE IInv'
  BY <1>5, PeerFinishesInv, PeerLeavesInv
<1>6. CASE UNCHANGED vars
  BY <1>6 DEF vars, IInv, TypeOK, EndedIsClosed, Accounted, InOrder, Lossless, Kept, Undisturbed
<1>7. QED
  BY <1>1, <1>2, <1>3, <1>4, <1>5, <1>6 DEF Next

\* The inductive invariant holds for any number of chunks, in every kind of relay.
THEOREM Invariance == Spec => []IInv
<1>1. Init => IInv
  BY InitInv
<1>2. IInv /\ [Next]_vars => IInv'
  BY NextInv
<1>3. QED
  BY <1>1, <1>2, PTL DEF Spec

\* A handler that has returned, whatever its kind and wherever it failed, has closed
\* what it had opened.
THEOREM NothingLeftOpen == Spec => []EndedIsClosed
<1>1. IInv => EndedIsClosed
  BY DEF IInv
<1>2. QED
  BY <1>1, Invariance, PTL

\* The half-close rule of socks.go and the close after the download of
\* browser_proxy_linux.go cut off nothing, however many chunks are on their way and
\* whichever side finishes first.
THEOREM StreamsArriveWhole == Spec => []NothingTruncated
<1>1. IInv => NothingTruncated
  BY DEF IInv, TypeOK, Lossless, NothingTruncated, Directions
<1>2. QED
  BY <1>1, Invariance, PTL
=============================================================================
