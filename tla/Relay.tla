------------------------------- MODULE Relay -------------------------------
(***************************************************************************)
(* The connections womprat relays between a local client and the tailnet:  *)
(* the SOCKS5 proxy (cmd/womprat/socks.go), the HTTP proxy of the Linux    *)
(* views (browser_proxy_linux.go: a request, a CONNECT tunnel, a WebSocket *)
(* upgrade), the VNC and RDP viewers (vnc.go, rdp.go) and the terminal     *)
(* (ws_terminal.go).                                                       *)
(*                                                                         *)
(* One connection is one behaviour: a handler sets it up, then two loops   *)
(* copy chunks, up to the tailnet and down to the client, and each kind of *)
(* relay has its own rules about what a loop that ends does to the two     *)
(* sockets and to its handler.  A chunk is counted, not looked into.  Both *)
(* peers may send, finish their side (FIN) or be gone at any time.  The    *)
(* two loops down from an SSH session, one for stdout and one for stderr,  *)
(* are the same code and are taken as one.                                 *)
(***************************************************************************)
EXTENDS Naturals

CONSTANTS
  Kinds,        \* the relays to look at
  MaxChunks     \* bound on the chunks a peer sends

AllKinds == {"socks", "http", "connect", "upgrade", "vnc", "rdp", "terminal"}

ASSUME RelayAssumption == Kinds \subseteq AllKinds /\ MaxChunks \in Nat

Ends == {"client", "remote"}
Directions == {"up", "down"}
Src(d) == IF d = "up" THEN "client" ELSE "remote"
Dst(d) == IF d = "up" THEN "remote" ELSE "client"

\* The client of these speaks WebSocket, which has no half-close.
WebSocketKinds == {"vnc", "rdp", "terminal"}
\* The handlers of these wait for a first message of the client.
HelloKinds == {"socks", "rdp"}
\* The relays of these run under the context that startBrowserProxy cancels.
ProxyKinds == {"http", "connect", "upgrade"}

VARIABLES
  kind,
  stage,        \* of the handler
  cancelled,    \* its context
  sock,         \* our socket to each end
  peer,         \* each end itself
  sent,         \* chunks the source of a direction has sent
  got,          \* chunks its loop, or the handler, has read
  delivered,    \* chunks the destination was given
  pc            \* of the loop of each direction

vars == <<kind, stage, cancelled, sock, peer, sent, got, delivered, pc>>

TypeOK ==
  /\ kind \in Kinds /\ cancelled \in BOOLEAN
  /\ stage \in {"hello", "dial", "reply", "relay", "ended"}
  /\ sock \in [Ends -> {"none", "open", "shut", "closed"}]
  /\ peer \in [Ends -> {"open", "fin", "gone"}]
  /\ sent \in [Directions -> 0..MaxChunks]
  /\ got \in [Directions -> 0..MaxChunks]
  /\ delivered \in [Directions -> 0..MaxChunks]
  /\ pc \in [Directions -> {"none", "check", "read", "write", "end", "done"}]

\* The client is connected; a terminal also has its SSH connection already (before that,
\* when its WebSocket is not accepted, the connection stays in sshConns: SshSessions).
Init ==
  /\ kind \in Kinds /\ cancelled = FALSE
  /\ stage = IF kind \in HelloKinds THEN "hello"
             ELSE IF kind = "terminal" THEN "reply" ELSE "dial"
  /\ sock = [e \in Ends |-> IF e = "client" \/ kind = "terminal" THEN "open" ELSE "none"]
  /\ peer = [e \in Ends |-> "open"]
  /\ sent = [d \in Directions |-> 0] /\ got = [d \in Directions |-> 0]
  /\ delivered = [d \in Directions |-> 0]
  /\ pc = [d \in Directions |-> "none"]
-----------------------------------------------------------------------------
\* The peers.

PeerSends(d) ==
  /\ peer[Src(d)] = "open" /\ sock[Src(d)] \in {"open", "shut"} /\ sent[d] < MaxChunks
  /\ sent' = [sent EXCEPT ![d] = @ + 1]
  /\ UNCHANGED <<kind, stage, cancelled, sock, peer, got, delivered, pc>>

\* A peer sends nothing more, and still reads.
PeerFinishes(e) ==
  /\ peer[e] = "open" /\ sock[e] # "none"
  /\ e = "client" => kind \notin WebSocketKinds
  /\ peer' = [peer EXCEPT ![e] = "fin"]
  /\ UNCHANGED <<kind, stage, cancelled, sock, sent, got, delivered, pc>>

\* A peer closes or resets its connection, or the remote program exits.
PeerLeaves(e) ==
  /\ peer[e] # "gone" /\ sock[e] # "none"
  /\ peer' = [peer EXCEPT ![e] = "gone"]
  /\ UNCHANGED <<kind, stage, cancelled, sock, sent, got, delivered, pc>>

\* The window is closed: the context of the HTTP proxy is cancelled.
ProxyStops ==
  /\ kind \in ProxyKinds /\ ~cancelled /\ stage # "ended"
  /\ cancelled' = TRUE
  /\ UNCHANGED <<kind, stage, sock, peer, sent, got, delivered, pc>>

\* net/http reads ahead on the connection of a request, until it is hijacked: that the
\* client has finished or left cancels the context of the request.
RequestAbandoned ==
  /\ kind \in ProxyKinds /\ ~cancelled /\ peer["client"] # "open"
  /\ (stage \in {"dial", "reply"} \/ (kind = "http" /\ stage = "relay"))
  /\ cancelled' = TRUE
  /\ UNCHANGED <<kind, stage, sock, peer, sent, got, delivered, pc>>
-----------------------------------------------------------------------------
\* The handlers, up to the two loops.

\* Mutant: a failed set-up forgets the connection it has dialled.
ClosedRemoteKept == [sock EXCEPT !["client"] = "closed"]

\* The deferred Close calls, on what there is to close.
Closed == [e \in Ends |-> IF sock[e] = "none" THEN "none" ELSE "closed"]

\* The greeting and the request of SOCKS5, or the credentials of RDP.
Hello ==
  /\ stage = "hello" /\ got["up"] < sent["up"]
  /\ got' = [got EXCEPT !["up"] = @ + 1]
  /\ delivered' = [delivered EXCEPT !["up"] = @ + 1]
  /\ stage' = "dial"
  /\ UNCHANGED <<kind, cancelled, sock, peer, sent, pc>>

\* The client has left or sent what is not understood; the target is not valid, the
\* program is locked, tsnet is not up, or the dial fails.
Refuse ==
  /\ \/ stage = "dial"
     \/ (stage = "hello" /\ (got["up"] < sent["up"] \/ peer["client"] # "open"))
  /\ sock' = Closed /\ stage' = "ended"
  /\ UNCHANGED <<kind, cancelled, peer, sent, got, delivered, pc>>

\* dialTSNetPreferIPv4 succeeds.
Dialled ==
  /\ stage = "dial" /\ ~cancelled
  /\ sock' = [sock EXCEPT !["remote"] = "open"] /\ stage' = "reply"
  /\ UNCHANGED <<kind, cancelled, peer, sent, got, delivered, pc>>

\* What follows the dial fails: the reply, the hijack, the RDP connection, the PTY.
SetupFails ==
  /\ stage = "reply"
  /\ sock' = Closed /\ stage' = "ended"
  /\ UNCHANGED <<kind, cancelled, peer, sent, got, delivered, pc>>

\* The loops start.  A plain HTTP request has only the one down, and the loop of
\* rdpClientToWs looks at its context before each read.
Looking(d) == IF kind = "rdp" /\ d = "down" THEN "check" ELSE "read"

SetupDone ==
  /\ stage = "reply"
  /\ stage' = "relay"
  /\ pc' = [d \in Directions |-> IF kind = "http" /\ d = "up" THEN "done" ELSE Looking(d)]
  /\ UNCHANGED <<kind, cancelled, sock, peer, sent, got, delivered>>
-----------------------------------------------------------------------------
\* The loops.

\* The WebSocket calls of the viewers, and the fetch of a plain request, take the
\* context.  GetUpdate, down from an RDP server, does not.
ReadsContext(d) == kind = "http" \/ (kind \in {"vnc", "rdp"} /\ d = "up")
WritesContext(d) == kind \in {"vnc", "rdp"} /\ d = "down"

CheckContext(d) ==
  /\ pc[d] = "check"
  /\ pc' = [pc EXCEPT ![d] = IF cancelled THEN "end" ELSE "read"]
  /\ UNCHANGED <<kind, stage, cancelled, sock, peer, sent, got, delivered>>

ReadChunk(d) ==
  /\ pc[d] = "read" /\ sock[Src(d)] \in {"open", "shut"} /\ got[d] < sent[d]
  /\ got' = [got EXCEPT ![d] = @ + 1]
  /\ pc' = [pc EXCEPT ![d] = "write"]
  /\ UNCHANGED <<kind, stage, cancelled, sock, peer, sent, delivered>>

\* Everything was read and the peer has finished.
AtEOF(d) == peer[Src(d)] = "fin" /\ got[d] = sent[d]

\* The read fails: at the end of the input, or because the peer is gone (what it sent
\* last may be lost), the socket was closed under it or the context is cancelled.
ReadEnds(d) ==
  /\ pc[d] = "read"
  /\ \/ AtEOF(d) \/ peer[Src(d)] = "gone" \/ sock[Src(d)] = "closed"
     \/ (cancelled /\ ReadsContext(d))
  /\ pc' = [pc EXCEPT ![d] = "end"]
  /\ UNCHANGED <<kind, stage, cancelled, sock, peer, sent, got, delivered>>

\* The chunk is written; a peer that is gone never sees it.
WriteChunk(d) ==
  /\ pc[d] = "write" /\ sock[Dst(d)] = "open" /\ ~(cancelled /\ WritesContext(d))
  /\ delivered' = IF peer[Dst(d)] = "gone" THEN delivered
                  ELSE [delivered EXCEPT ![d] = @ + 1]
  /\ pc' = [pc EXCEPT ![d] = Looking(d)]
  /\ UNCHANGED <<kind, stage, cancelled, sock, peer, sent, got>>

\* A message that is not passed on: it is ignored or asks for a new size; an update of
\* an RDP server may be empty.
SkipChunk(d) ==
  /\ pc[d] = "write" /\ kind \in WebSocketKinds /\ (d = "up" \/ kind = "rdp")
  /\ pc' = [pc EXCEPT ![d] = Looking(d)]
  /\ UNCHANGED <<kind, stage, cancelled, sock, peer, sent, got, delivered>>

WriteFails(d) ==
  /\ pc[d] = "write"
  /\ (peer[Dst(d)] = "gone" \/ sock[Dst(d)] # "open" \/ (cancelled /\ WritesContext(d)))
  /\ pc' = [pc EXCEPT ![d] = "end"]
  /\ UNCHANGED <<kind, stage, cancelled, sock, peer, sent, got, delivered>>
-----------------------------------------------------------------------------
\* What a loop does when it ends.

\* halfCloseWrite, and closing the input of an SSH session.
HalfClosed(e) == [sock EXCEPT ![e] = IF @ = "open" THEN "shut" ELSE @]

\* Mutant: both sockets are torn down when the first direction ends.
SocksEndedBoth(d) == Closed

\* SOCKS5: the destination is half-closed and the other direction goes on.
SocksEnded(d) == HalfClosed(Dst(d))

\* Mutant: the end of the download leaves the upload alone.
TunnelEndedOpen(d) == HalfClosed(Dst(d))

\* CONNECT: the end of the upload is passed on; the end of the download closes both.
TunnelEnded(d) == IF d = "up" THEN HalfClosed("remote") ELSE Closed

\* An upgraded request ends with either direction.
UpgradeEnded(d) == IF d = "up" THEN [sock EXCEPT !["remote"] = "closed"] ELSE Closed

\* The terminal passes on the end of its input and waits for the remote program.
TerminalEnded(d) == IF d = "up" THEN HalfClosed("remote") ELSE sock

\* The loop that is the handler itself: its return runs the deferred calls.
IsHandler(d) == \/ kind = "vnc" /\ d = "up"
                \/ kind \in {"rdp", "http"} /\ d = "down"

\* Mutant: the handler of a viewer returns without closing the remote.
HandlerReturnsLeaky(d) ==
  /\ sock' = [sock EXCEPT !["client"] = "closed"] /\ stage' = "ended"
  /\ cancelled' = (cancelled \/ kind # "http")

\* defer cancel() of the viewers, and the deferred Close calls.  What closes with a
\* plain request is its answer.
HandlerReturns(d) ==
  /\ sock' = Closed /\ stage' = "ended"
  /\ cancelled' = (cancelled \/ kind # "http")

\* The sockets after the end of a loop that its handler waits for.
AfterLoop(d) == CASE kind = "socks"    -> SocksEnded(d)
                  [] kind = "connect"  -> TunnelEnded(d)
                  [] kind = "upgrade"  -> UpgradeEnded(d)
                  [] kind = "terminal" -> TerminalEnded(d)

WaitingKinds == {"socks", "connect", "upgrade", "terminal"}

\* The other loop of a viewer cancels the context.
LoopEnds(d) ==
  /\ pc[d] = "end" /\ pc' = [pc EXCEPT ![d] = "done"]
  /\ \/ IsHandler(d) /\ HandlerReturns(d)
     \/ kind \in {"vnc", "rdp"} /\ ~IsHandler(d) /\ cancelled' = TRUE /\ UNCHANGED <<sock, stage>>
     \/ kind \in WaitingKinds /\ sock' = AfterLoop(d) /\ UNCHANGED <<cancelled, stage>>
  /\ UNCHANGED <<kind, peer, sent, got, delivered>>

\* The handler has waited for both loops, and that of a terminal for the end of the
\* remote program (session.Wait).
HandlerEnds ==
  /\ stage = "relay" /\ kind \in WaitingKinds
  /\ \A d \in Directions : pc[d] = "done"
  /\ kind = "terminal" => peer["remote"] = "gone"
  /\ sock' = Closed /\ stage' = "ended"
  /\ UNCHANGED <<kind, cancelled, peer, sent, got, delivered, pc>>

\* context.AfterFunc of a hijacked connection.
StopCancel ==
  /\ kind \in {"connect", "upgrade"} /\ cancelled /\ stage = "relay"
  /\ sock # Closed /\ sock' = Closed
  /\ UNCHANGED <<kind, stage, cancelled, peer, sent, got, delivered, pc>>

Handler == Hello \/ Refuse \/ Dialled \/ SetupFails \/ SetupDone \/ HandlerEnds

Loop(d) == \/ CheckContext(d) \/ ReadChunk(d) \/ ReadEnds(d) \/ WriteChunk(d)
           \/ SkipChunk(d) \/ WriteFails(d) \/ LoopEnds(d)

Next ==
  \/ Handler \/ StopCancel \/ ProxyStops \/ RequestAbandoned
  \/ \E d \in Directions : Loop(d) \/ PeerSends(d)
  \/ \E e \in Ends : PeerFinishes(e) \/ PeerLeaves(e)

Spec == Init /\ [][Next]_vars

\* Goroutines are scheduled, a dial has its time-out, and a peer that is there reads
\* what it is sent.  Nothing makes a peer send, finish or leave.
Fairness == WF_vars(Handler) /\ WF_vars(StopCancel) /\ \A d \in Directions : WF_vars(Loop(d))

FairSpec == Spec /\ Fairness
-----------------------------------------------------------------------------
\* The directions whose data may not be cut off: both of SOCKS5, and what comes down a
\* CONNECT tunnel or in the answer to a request.
Kept(d) == kind = "socks" \/ (kind \in {"connect", "http"} /\ d = "down")

\* Both peers are there and the context is not cancelled.
Undisturbed == ~cancelled /\ \A e \in Ends : peer[e] # "gone"

\* socks.go: "Tearing down both sockets as soon as the first direction ends truncates
\* in-flight responses".  While both peers are there and the program does not stop,
\* the destination sees the end of the stream only after all that was sent, whichever
\* side finishes first.
NothingTruncated ==
  \A d \in Directions :
    Kept(d) /\ Undisturbed /\ pc[d] # "none" /\ sock[Dst(d)] # "open"
    => delivered[d] = sent[d] /\ peer[Src(d)] = "fin"

\* A handler that has returned left no socket open, at whichever of its steps it failed.
EndedIsClosed == stage = "ended" => \A e \in Ends : sock[e] \in {"none", "closed"}

\* A chunk is read after it was sent, delivered after it was read, and only once.
Accounted ==
  \A d \in Directions :
    /\ delivered[d] <= got[d] /\ got[d] <= sent[d]
    /\ pc[d] = "write" => delivered[d] < got[d]

\* The loops run after the set-up, which leaves both sockets open.
InOrder ==
  /\ stage \in {"hello", "dial", "reply"} => \A d \in Directions : pc[d] = "none"
  /\ stage \in {"hello", "dial", "reply"} => sock["client"] = "open"
  /\ stage = "reply" => sock["remote"] = "open"

\* As long as nothing disturbs it, a loop whose data may not be cut off has passed on
\* all it has read, it runs until its source has finished, and the sockets it uses
\* stay as it needs them until then.
Lossless ==
  \A d \in Directions :
    Kept(d) /\ Undisturbed =>
      /\ pc[d] # "write" => delivered[d] = got[d]
      /\ pc[d] = "write" => delivered[d] + 1 = got[d]
      /\ pc[d] \in {"end", "done"} => got[d] = sent[d] /\ peer[Src(d)] = "fin"
      /\ pc[d] \in {"check", "read", "write", "end"} =>
           sock[Dst(d)] = "open" /\ sock[Src(d)] \in {"open", "shut"}

\* The inductive invariant: how the chunks, the loops and the sockets of socks.go's and
\* browser_proxy_linux.go's relays hang together at every step.
IInv == TypeOK /\ EndedIsClosed /\ Accounted /\ InOrder /\ Lossless

\* What must be over for a relay to end: for most the remote side, for the proxies
\* that pass on half-closed streams and for the terminal both.
Over ==
  LET over(e) == peer[e] # "open"
  IN  CASE kind = "socks" -> over("client") /\ over("remote")
        [] kind = "terminal" -> peer["client"] = "gone" /\ peer["remote"] = "gone"
        [] kind \in {"connect", "http"} -> over("remote") \/ cancelled
        [] kind \in {"upgrade", "vnc"} -> over("client") \/ over("remote") \/ cancelled
        [] kind = "rdp" -> over("remote")

\* browser_proxy_linux.go: "A disconnected browser must not leave its upload relay
\* blocked"; the same of every relay: no loop waits for ever for a peer that has
\* nothing to say, once the ends in Over are over.
RelayEnds == Over ~> stage = "ended"

\* A handler that has returned leaves no goroutine behind.
NoLoopLeft == stage = "ended" ~> \A d \in Directions : pc[d] \in {"none", "done"}
=============================================================================
