----------------------------- MODULE SshProofs ------------------------------
(***************************************************************************)
(* Proofs about SshSessions and the dialling of TailnetDial.               *)
(***************************************************************************)
EXTENDS SshSessions, TLAPS, FiniteSetTheorems, SequenceTheorems

\* The number of a new connection is not in use.
LEMMA FreshIsFree ==
  ASSUME IsFiniteSet(DOMAIN open)
  PROVE  Fresh \in Nat \ {0} /\ Fresh \notin DOMAIN open
<1> DEFINE n == Cardinality(DOMAIN open)
           S == 1..n + 1
<1>1. n \in Nat
  BY FS_CardinalityType
<1>2. Cardinality(S) = n + 1
  BY <1>1, FS_Interval
<1>3. ~(S \subseteq DOMAIN open)
  BY <1>1, <1>2, FS_Subset
<1>4. \E c \in S : c \notin DOMAIN open
  BY <1>3
<1>5. Fresh \in S /\ Fresh \notin DOMAIN open
  BY <1>4, Zenon DEF Fresh
<1> QED
  BY <1>1, <1>5

\* The orders of an answer are sequences of its addresses.
LEMMA OrdersAreSequences ==
  ASSUME NEW S, IsFiniteSet(S), NEW order \in SetToSeqs(S)
  PROVE  order \in Seq(S)
<1>1. Cardinality(S) \in Nat
  BY FS_CardinalityType
<1>2. order \in [1..Cardinality(S) -> S]
  BY DEF SetToSeqs
<1> QED
  BY <1>1, <1>2

\* The steps of a request that dials.
DialAction(r) ==
  \/ Expires(r) \/ Ask(r) \/ DialServer(r) \/ NextAddress(r) \/ Dial(r)
  \/ ServerAccepts(r) \/ ServerAnswers(r) \/ HostAccepts(r) \/ WaitFails(r)

\* Next by its elementary actions.
LEMMA StepCases ==
  [Next]_vars =>
    \/ RoutesChange /\ UNCHANGED <<shellVars, sshVars>>
    \/ \E r \in Requests : DialAction(r) /\ UNCHANGED <<shellVars, sshVars>>
    \/ \E r \in Requests \ Terminals :
         (Start(r) \/ Return(r)) /\ UNCHANGED <<shellVars, sshVars>>
    \/ \E t \in Terminals :
         \/ OpenTerminal(t) \/ Reconnect(t) \/ EnterPassword(t) \/ CloseTab(t)
         \/ DialFailed(t) \/ KeyAccepted(t) \/ KeyRefused(t)
         \/ PasswordAccepted(t) \/ PasswordRefused(t) \/ Attach(t) \/ SocketCloses(t)
    \/ \E s \in IDs : SessionEnds(s)
    \/ UNCHANGED vars
BY DEF Next, Dialling, DialAction, Step, GiveUp, Network, User, Serve, Handshake

\* Where a request is in its search for an address.
SearchOK ==
  /\ phase \in [Requests -> Phases] /\ family \in [Requests -> Families \cup {"literal"}]
  /\ left \in [Requests -> Seq(Addrs)]

\* The request goes on to the other record, or has failed.
LEMMA NextFamilySearches ==
  ASSUME DialTypeOK, NEW r \in Requests, NextFamily(r)
  PROVE  SearchOK'
<1>1. phase' \in [Requests -> Phases]
  BY DEF DialTypeOK, NextFamily, Phases, Running, Waits
<1>2. family' \in [Requests -> Families \cup {"literal"}]
  BY DEF DialTypeOK, NextFamily, Families
<1>3. left' \in [Requests -> Seq(Addrs)]
  BY DEF DialTypeOK, NextFamily
<1> QED
  BY <1>1, <1>2, <1>3 DEF SearchOK

\* The addresses of an answer, when the request goes on with them.
LEMMA ResolvedSearches ==
  ASSUME DialTypeOK, NEW r \in Requests, NEW n \in Names, Resolved(r, Zone[n])
  PROVE  /\ SearchOK'
         /\ \/ NextFamily(r)
            \/ /\ phase' = [phase EXCEPT ![r] = "addresses"] /\ UNCHANGED family
               /\ \A q \in Requests \ {r} : left'[q] = left[q]
               /\ \A i \in DOMAIN left'[r] : left'[r][i] \in Zone[n] \cap OfFamily(family[r])
<1>1. CASE r \in Probes
  BY <1>1, NextFamilySearches DEF Resolved, Probed
<1>2. CASE r \notin Probes
  <2> DEFINE S == Records(Zone[n], family[r])
  <2>1. PICK order \in SetToSeqs(S) : left' = [left EXCEPT ![r] = order]
    BY <1>2 DEF Resolved
  <2>2. phase' = [phase EXCEPT ![r] = "addresses"] /\ UNCHANGED family
    BY <1>2 DEF Resolved
  <2>3. S \subseteq Zone[n] /\ S \subseteq Addrs /\ S \subseteq OfFamily(family[r])
    BY DialAssumption DEF Records
  <2>4. IsFiniteSet(S)
    BY <2>3, DialAssumption, FS_Subset
  <2>5. order \in Seq(S)
    BY <2>4, OrdersAreSequences
  <2>6. order \in Seq(Addrs) /\ \A i \in DOMAIN order : order[i] \in S
    BY <2>3, <2>5
  <2>7. left' \in [Requests -> Seq(Addrs)] /\ left'[r] = order
    BY <2>1, <2>6 DEF DialTypeOK
  <2>8. phase' \in [Requests -> Phases] /\ family' \in [Requests -> Families \cup {"literal"}]
    BY <2>2 DEF DialTypeOK, Phases, Running
  <2>9. \A q \in Requests \ {r} : left'[q] = left[q]
    BY <2>1 DEF DialTypeOK
  <2> QED
    BY <2>2, <2>3, <2>6, <2>7, <2>8, <2>9 DEF SearchOK
<1> QED
  BY <1>1, <1>2

\* Nothing of another request changes.
Frame(r) ==
  \A q \in Requests \ {r} :
    /\ phase'[q] = phase[q] /\ target'[q] = target[q] /\ family'[q] = family[q]
    /\ left'[q] = left[q] /\ dnsConn'[q] = dnsConn[q] /\ conn'[q] = conn[q]

\* What is meant for the other requests stays meant for them.
LEMMA FrameAddresses ==
  ASSUME AddressInv, NEW r \in Requests, Frame(r), AddressesFit(r)'
  PROVE  AddressInv'
BY DEF Frame, AddressInv, AddressesFit, Fits

\* A step of a request that dials goes on with addresses that are meant for it.
LEMMA DialSearches ==
  ASSUME DialTypeOK, AddressInv, NEW r \in Requests, DialAction(r)
  PROVE  SearchOK' /\ AddressesFit(r)' /\ Frame(r)
<1> USE DEF netVars
<1>0. SearchOK /\ AddressesFit(r)
  BY DEF AddressInv, SearchOK, DialTypeOK
<1>1. ASSUME NextFamily(r), UNCHANGED target,
             \A q \in Requests \ {r} : dnsConn'[q] = dnsConn[q] /\ conn'[q] = conn[q]
      PROVE  SearchOK' /\ AddressesFit(r)' /\ Frame(r)
  <2>1. SearchOK'
    BY <1>1, NextFamilySearches
  <2>2. phase'[r] \in {"ask", "failed"}
    BY <1>1 DEF NextFamily, DialTypeOK
  <2> QED
    BY <1>1, <2>1, <2>2 DEF AddressesFit, Frame, NextFamily, DialTypeOK
<1>2. ASSUME NEW n \in Names, n = target[r], Resolved(r, Zone[n]), UNCHANGED target,
             \A q \in Requests \ {r} : dnsConn'[q] = dnsConn[q] /\ conn'[q] = conn[q]
      PROVE  SearchOK' /\ AddressesFit(r)' /\ Frame(r)
  <2>1. CASE NextFamily(r)
    BY <1>1, <1>2, <2>1
  <2>2. CASE /\ phase' = [phase EXCEPT ![r] = "addresses"] /\ UNCHANGED family
             /\ \A q \in Requests \ {r} : left'[q] = left[q]
             /\ \A i \in DOMAIN left'[r] : left'[r][i] \in Zone[n] \cap OfFamily(family[r])
    <3>1. SearchOK'
      BY <1>2, ResolvedSearches
    <3>2. AddressesFit(r)'
      BY <1>2, <2>2 DEF AddressesFit, Fits, OfFamily, DialTypeOK
    <3>3. Frame(r)
      BY <1>2, <2>2 DEF Frame, DialTypeOK
    <3> QED
      BY <3>1, <3>2, <3>3
  <2> QED
    BY <1>2, <2>1, <2>2, ResolvedSearches
<1>3. CASE Expires(r)
  BY <1>0, <1>3 DEF Expires, SearchOK, AddressesFit, Fits, Frame
<1>4. CASE Ask(r)
  <2>1. CASE expired[r] /\ Fail(r)
    <3>1. SearchOK'
      BY <1>0, <1>4, <2>1 DEF Ask, Fail, SearchOK, Phases
    <3> QED
      BY <1>4, <2>1, <3>1 DEF Ask, Fail, AddressesFit, Frame, DialTypeOK
  <2>2. CASE NoNetmap(r)
    BY <1>1, <1>4, <2>2 DEF Ask, NoNetmap
  <2>3. CASE LocalAnswer(r)
    BY <1>2, <1>4, <2>3, DialAssumption DEF Ask, LocalAnswer
  <2>4. CASE FirstResolver(r)
    <3>1. CASE NextFamily(r)
      BY <1>1, <1>4, <3>1 DEF Ask
    <3>2. CASE phase' = [phase EXCEPT ![r] = "server"] /\ UNCHANGED <<family, left>>
      <4>1. SearchOK'
        BY <1>0, <3>2 DEF SearchOK, Phases, Running
      <4> QED
        BY <1>4, <3>2, <4>1 DEF Ask, AddressesFit, Frame, DialTypeOK
    <3> QED
      BY <2>4, <3>1, <3>2 DEF FirstResolver
  <2> QED
    BY <1>4, <2>1, <2>2, <2>3, <2>4 DEF Ask
<1>5. CASE DialServer(r)
  <2>1. CASE NextFamily(r)
    BY <1>1, <1>5, <2>1 DEF DialServer
  <2>2. CASE phase' = [phase EXCEPT ![r] = "serverDial"] /\ UNCHANGED <<family, left>>
    <3>1. SearchOK'
      BY <1>0, <2>2 DEF SearchOK, Phases, Running, Waits
    <3> QED
      BY <1>5, <2>2, <3>1 DEF DialServer, AddressesFit, Frame, DialTypeOK
  <2> QED
    BY <1>5, <2>1, <2>2 DEF DialServer
<1>6. CASE NextAddress(r)
  <2>1. CASE left[r] = <<>>
    BY <1>1, <1>6, <2>1 DEF NextAddress
  <2>2. CASE left[r] # <<>> /\ expired[r]
    <3>1. SearchOK'
      BY <1>0, <1>6, <2>2 DEF NextAddress, Fail, SearchOK, Phases
    <3> QED
      BY <1>6, <2>2, <3>1 DEF NextAddress, Fail, AddressesFit, Frame, DialTypeOK
  <2>3. CASE left[r] # <<>> /\ phase' = [phase EXCEPT ![r] = "dial"] /\ UNCHANGED <<family, left>>
    <3>1. SearchOK'
      BY <1>0, <2>3 DEF SearchOK, Phases, Running
    <3> QED
      BY <1>0, <1>6, <2>3, <3>1 DEF NextAddress, AddressesFit, Fits, Frame, DialTypeOK
  <2>4. CASE /\ left[r] # <<>> /\ left' = [left EXCEPT ![r] = Tail(left[r])]
             /\ UNCHANGED <<phase, family>>
    <3>1. left[r] \in Seq(Addrs) /\ Tail(left[r]) \in Seq(Addrs)
      BY <2>4 DEF DialTypeOK
    <3>2. SearchOK'
      BY <1>0, <2>4, <3>1 DEF SearchOK
    <3>3. \A i \in DOMAIN Tail(left[r]) : Fits(r, Tail(left[r])[i])
      BY <1>0, <1>6, <2>4, <3>1 DEF NextAddress, AddressesFit
    <3> QED
      BY <1>6, <2>4, <3>1, <3>2, <3>3 DEF NextAddress, AddressesFit, Fits, Frame, DialTypeOK
  <2> QED
    BY <1>6, <2>1, <2>2, <2>3, <2>4 DEF NextAddress
<1>7. CASE Dial(r)
  <2>1. CASE StillRouted(Head(left[r])) /\ phase' = [phase EXCEPT ![r] = "dialing"] /\ UNCHANGED left
    <3>1. SearchOK'
      BY <1>0, <1>7, <2>1 DEF Dial, SearchOK, Phases, Running, Waits
    <3> QED
      BY <1>0, <1>7, <2>1, <3>1 DEF Dial, StillRouted, Routed, AddressesFit, Fits, Frame, DialTypeOK
  <2>2. CASE /\ phase' = [phase EXCEPT ![r] = "addresses"]
             /\ left' = [left EXCEPT ![r] = Tail(left[r])]
    <3>1. left[r] \in Seq(Addrs) /\ left[r] # <<>> /\ Tail(left[r]) \in Seq(Addrs)
      BY <1>0, <1>7, <2>2 DEF Dial, DialTypeOK, AddressesFit
    <3>2. SearchOK'
      BY <1>0, <1>7, <2>2, <3>1 DEF Dial, SearchOK, Phases, Running
    <3>3. \A i \in DOMAIN Tail(left[r]) : Fits(r, Tail(left[r])[i])
      BY <1>0, <1>7, <2>2, <3>1 DEF Dial, AddressesFit
    <3> QED
      BY <1>7, <2>2, <3>1, <3>2, <3>3 DEF Dial, AddressesFit, Fits, Frame, DialTypeOK
  <2> QED
    BY <1>7, <2>1, <2>2 DEF Dial
<1>8. CASE ServerAccepts(r)
  <2>1. SearchOK'
    BY <1>0, <1>8 DEF ServerAccepts, SearchOK, Phases, Running, Waits
  <2> QED
    BY <1>8, <2>1 DEF ServerAccepts, AddressesFit, Frame, DialTypeOK
<1>9. CASE ServerAnswers(r)
  <2>1. /\ UNCHANGED target
        /\ \A q \in Requests \ {r} : dnsConn'[q] = dnsConn[q] /\ conn'[q] = conn[q]
    BY <1>9 DEF ServerAnswers, DialTypeOK
  <2>2. NextFamily(r) \/ \E n \in Names : n = target[r] /\ Resolved(r, Zone[n])
    BY <1>9 DEF ServerAnswers, Matches
  <2> QED
    BY <1>1, <1>2, <2>1, <2>2
<1>10. CASE HostAccepts(r)
  <2>1. SearchOK'
    BY <1>0, <1>10 DEF HostAccepts, SearchOK, Phases
  <2> QED
    BY <1>10, <2>1 DEF HostAccepts, AddressesFit, Frame, DialTypeOK
<1>11. CASE WaitFails(r)
  <2>1. CASE phase[r] = "dialing"
    <3>1. left[r] \in Seq(Addrs) /\ left[r] # <<>> /\ Tail(left[r]) \in Seq(Addrs)
      BY <1>0, <2>1 DEF DialTypeOK, AddressesFit
    <3>2. SearchOK'
      BY <1>0, <1>11, <2>1, <3>1 DEF WaitFails, SearchOK, Phases, Running
    <3>3. \A i \in DOMAIN Tail(left[r]) : Fits(r, Tail(left[r])[i])
      BY <1>0, <2>1, <3>1 DEF AddressesFit
    <3> QED
      BY <1>11, <2>1, <3>1, <3>2, <3>3 DEF WaitFails, AddressesFit, Fits, Frame, DialTypeOK
  <2>2. CASE phase[r] # "dialing"
    <3>1. NextFamily(r) /\ UNCHANGED target
      BY <1>11, <2>2 DEF WaitFails
    <3>2. \A q \in Requests \ {r} : dnsConn'[q] = dnsConn[q] /\ conn'[q] = conn[q]
      BY <1>11, <2>2 DEF WaitFails, DialTypeOK
    <3> QED
      BY <1>1, <3>1, <3>2
  <2> QED
    BY <2>1, <2>2
<1> QED
  BY <1>3, <1>4, <1>5, <1>6, <1>7, <1>8, <1>9, <1>10, <1>11 DEF DialAction

\* The connections of the requests, and what is open.
ConnOK ==
  /\ dnsConn \in [Requests -> Nat] /\ conn \in [Requests -> Nat]
  /\ \A c \in DOMAIN open : c \in Nat \ {0} /\ open[c] \in Addrs

\* The connections of the other requests stay as they are.
Kept(r) == \A q \in Requests \ {r} : conn[q] # 0 => open'[conn[q]] = open[conn[q]]

\* A request opens a connection, to the DNS server or to the host.
LEMMA OpeningKeepsOwners ==
  ASSUME ConnOK, OwnerInv, NEW r \in Requests, NEW a \in Addrs,
         open' = Opened(a), UNCHANGED sshConns,
         \/ dnsConn[r] = 0 /\ dnsConn' = [dnsConn EXCEPT ![r] = Fresh] /\ UNCHANGED conn
         \/ conn[r] = 0 /\ conn' = [conn EXCEPT ![r] = Fresh] /\ UNCHANGED dnsConn
  PROVE  ConnOK' /\ OwnerInv' /\ Kept(r) /\ open'[Fresh] = a
<1> DEFINE f == Fresh
<1>1. f \in Nat \ {0} /\ f \notin DOMAIN open
  BY FreshIsFree DEF OwnerInv
<1>2. /\ DOMAIN open' = DOMAIN open \cup {f} /\ open'[f] = a
      /\ \A c \in DOMAIN open : open'[c] = open[c]
  BY <1>1 DEF Opened
<1>3. /\ \A q \in Requests : dnsConn[q] # f /\ conn[q] # f
      /\ \A s \in DOMAIN sshConns : sshConns[s] # f
  BY <1>1 DEF OwnerInv
<1> HIDE DEF f
<1>4. \/ dnsConn[r] = 0 /\ dnsConn' = [dnsConn EXCEPT ![r] = f] /\ UNCHANGED conn
      \/ conn[r] = 0 /\ conn' = [conn EXCEPT ![r] = f] /\ UNCHANGED dnsConn
  BY DEF f
<1>5. ConnOK'
  BY <1>1, <1>2, <1>4 DEF ConnOK
<1>6. IsFiniteSet(DOMAIN open')
  BY <1>2, FS_AddElement DEF OwnerInv
<1>7. Kept(r)
  BY <1>2 DEF Kept, OwnerInv
<1>8. OwnerInv'
  <2>1. CASE dnsConn[r] = 0 /\ dnsConn' = [dnsConn EXCEPT ![r] = f] /\ UNCHANGED conn
    <3>1. dnsConn'[r] = f /\ \A q \in Requests \ {r} : dnsConn'[q] = dnsConn[q]
      BY <2>1 DEF ConnOK
    <3> QED
      BY <1>1, <1>2, <1>3, <1>6, <2>1, <3>1 DEF OwnerInv, ConnOK
  <2>2. CASE conn[r] = 0 /\ conn' = [conn EXCEPT ![r] = f] /\ UNCHANGED dnsConn
    <3>1. conn'[r] = f /\ \A q \in Requests \ {r} : conn'[q] = conn[q]
      BY <2>2 DEF ConnOK
    <3> QED
      BY <1>1, <1>2, <1>3, <1>6, <2>2, <3>1 DEF OwnerInv, ConnOK
  <2> QED
    BY <1>4, <2>1, <2>2
<1> QED
  BY <1>2, <1>5, <1>7, <1>8 DEF f

\* A request closes the connection it has, if any.
LEMMA ClosingKeepsOwners ==
  ASSUME ConnOK, OwnerInv, NEW r \in Requests, UNCHANGED sshConns,
         \/ open' = Closed(dnsConn[r]) /\ dnsConn' = [dnsConn EXCEPT ![r] = 0] /\ UNCHANGED conn
         \/ open' = Closed(conn[r]) /\ conn' = [conn EXCEPT ![r] = 0] /\ UNCHANGED dnsConn
  PROVE  ConnOK' /\ OwnerInv' /\ Kept(r)
<1>0. 0 \notin DOMAIN open
  BY DEF ConnOK
<1>1. CASE open' = Closed(dnsConn[r]) /\ dnsConn' = [dnsConn EXCEPT ![r] = 0] /\ UNCHANGED conn
  <2>1. /\ DOMAIN open' = DOMAIN open \ {dnsConn[r]}
        /\ \A d \in DOMAIN open' : open'[d] = open[d]
    BY <1>1 DEF Closed
  <2>2. dnsConn'[r] = 0 /\ \A q \in Requests \ {r} : dnsConn'[q] = dnsConn[q]
    BY <1>1 DEF ConnOK
  <2>3. ConnOK'
    BY <1>1, <2>1 DEF ConnOK
  <2>4. IsFiniteSet(DOMAIN open')
    BY <2>1, FS_Subset DEF OwnerInv
  <2>5. \A q \in Requests : conn[q] # 0 => conn[q] \in DOMAIN open'
    BY <2>1 DEF OwnerInv
  <2>6. OwnerInv'
    BY <1>0, <1>1, <2>1, <2>2, <2>4, <2>5 DEF OwnerInv, ConnOK
  <2> QED
    BY <2>1, <2>3, <2>5, <2>6 DEF Kept
<1>2. CASE open' = Closed(conn[r]) /\ conn' = [conn EXCEPT ![r] = 0] /\ UNCHANGED dnsConn
  <2>1. /\ DOMAIN open' = DOMAIN open \ {conn[r]}
        /\ \A d \in DOMAIN open' : open'[d] = open[d]
    BY <1>2 DEF Closed
  <2>2. conn'[r] = 0 /\ \A q \in Requests \ {r} : conn'[q] = conn[q]
    BY <1>2 DEF ConnOK
  <2>3. ConnOK'
    BY <1>2, <2>1 DEF ConnOK
  <2>4. IsFiniteSet(DOMAIN open')
    BY <2>1, FS_Subset DEF OwnerInv
  <2>5. \A q \in Requests \ {r} : conn[q] # 0 => conn[q] \in DOMAIN open'
    BY <2>1 DEF OwnerInv
  <2>6. OwnerInv'
    BY <1>0, <1>2, <2>1, <2>2, <2>4, <2>5 DEF OwnerInv, ConnOK
  <2> QED
    BY <2>1, <2>3, <2>5, <2>6 DEF Kept
<1> QED
  BY <1>1, <1>2

\* A request gives its connection to a session that has none.
LEMMA GivingKeepsOwners ==
  ASSUME ConnOK, OwnerInv, NEW r \in Requests, NEW s, s \notin DOMAIN sshConns, conn[r] # 0,
         sshConns' = With(sshConns, s, conn[r]), conn' = [conn EXCEPT ![r] = 0],
         UNCHANGED <<open, dnsConn>>
  PROVE  ConnOK' /\ OwnerInv' /\ Kept(r)
<1>1. /\ DOMAIN sshConns' = DOMAIN sshConns \cup {s} /\ sshConns'[s] = conn[r]
      /\ \A u \in DOMAIN sshConns : sshConns'[u] = sshConns[u]
  BY DEF With
<1>2. conn'[r] = 0 /\ \A q \in Requests \ {r} : conn'[q] = conn[q]
  BY DEF ConnOK
<1>3. ConnOK' /\ Kept(r)
  BY DEF ConnOK, Kept
<1>4. OwnerInv'
  BY <1>1, <1>2 DEF OwnerInv, ConnOK
<1> QED
  BY <1>3, <1>4

\* The handler of a terminal closes the client of its session.
LEMMA EndingKeepsOwners ==
  ASSUME ConnOK, OwnerInv, NEW s \in DOMAIN sshConns, sshConns' = Without(sshConns, s),
         open' = Closed(sshConns[s]), UNCHANGED <<dnsConn, conn>>
  PROVE  /\ ConnOK' /\ OwnerInv'
         /\ \A q \in Requests : conn[q] # 0 => open'[conn[q]] = open[conn[q]]
<1>1. /\ DOMAIN sshConns' = DOMAIN sshConns \ {s}
      /\ \A u \in DOMAIN sshConns' : sshConns'[u] = sshConns[u]
  BY DEF Without
<1>2. /\ DOMAIN open' = DOMAIN open \ {sshConns[s]}
      /\ \A d \in DOMAIN open' : open'[d] = open[d]
  BY DEF Closed
<1>3. ConnOK'
  BY <1>2 DEF ConnOK
<1>4. IsFiniteSet(DOMAIN open')
  BY <1>2, FS_Subset DEF OwnerInv
<1>5. \A q \in Requests : conn[q] # 0 => conn[q] \in DOMAIN open'
  BY <1>2 DEF OwnerInv
<1>6. OwnerInv'
  BY <1>1, <1>2, <1>4 DEF OwnerInv
<1> QED
  BY <1>2, <1>3, <1>5, <1>6

\* The connections of the other requests still fit.
LEMMA FrameFits ==
  ASSUME ConnectionsFit, PhaseInv, NEW r \in Requests, Frame(r), Kept(r),
         phase'[r] = "connected" => (Fits(r, open[conn[r]]) /\ open[conn[r]] \notin Self)'
  PROVE  ConnectionsFit'
BY DEF ConnectionsFit, Fits, Frame, Kept, PhaseInv

\* The other requests still hold what their phase says.
LEMMA FramePhases ==
  ASSUME PhaseInv, NEW r \in Requests, Frame(r),
         dnsConn'[r] # 0 <=> phase'[r] = "answer", conn'[r] # 0 <=> phase'[r] = "connected"
  PROVE  PhaseInv'
BY DEF PhaseInv, Frame

\* Where the requests are and what they hold.
DialInv == AddressInv /\ PhaseInv /\ OwnerInv /\ ConnectionsFit

\* What DialTypeOK says beside SearchOK and ConnOK.
RestOK ==
  /\ ts \in BOOLEAN /\ route \subseteq Addrs /\ changes \in 0..MaxChanges
  /\ target \in [Requests -> Names \cup Addrs] /\ expired \in [Requests -> BOOLEAN]

\* The parts of DialTypeOK.
LEMMA DialTypeParts == DialTypeOK <=> SearchOK /\ ConnOK /\ RestOK
BY DEF DialTypeOK, SearchOK, ConnOK, RestOK

\* A request in a phase that has an answer, or a connection, has left it.
LEMMA LeftPhase ==
  ASSUME DialTypeOK, NEW r \in Requests, NextFamily(r) \/ \E n \in Names : Resolved(r, Zone[n])
  PROVE  phase'[r] \in {"ask", "failed", "addresses"}
BY ResolvedSearches DEF NextFamily, DialTypeOK

\* A step that leaves the connections alone.
LEMMA QuietStep ==
  ASSUME DialTypeOK, PhaseInv, OwnerInv, ConnectionsFit, NEW r \in Requests, Frame(r),
         UNCHANGED <<target, dnsConn, conn, open, sshConns>>,
         \/ phase[r] = phase'[r] /\ family[r] = family'[r]
         \/ {phase[r], phase'[r]} \cap {"answer", "connected"} = {}
  PROVE  ConnOK' /\ PhaseInv' /\ OwnerInv' /\ ConnectionsFit'
<1>1. ConnOK' /\ Kept(r)
  BY DialTypeParts DEF ConnOK, Kept
<1>2. OwnerInv'
  BY DEF OwnerInv
<1>3. PhaseInv'
  <2>1. (dnsConn[r] # 0 <=> phase[r] = "answer") /\ (conn[r] # 0 <=> phase[r] = "connected")
    BY DEF PhaseInv
  <2> QED
    BY <2>1, FramePhases
<1>4. phase'[r] = "connected" => (Fits(r, open[conn[r]]) /\ open[conn[r]] \notin Self)'
  BY DEF ConnectionsFit, Fits
<1> QED
  BY <1>1, <1>2, <1>3, <1>4, FrameFits

\* The steps of a request that dials preserve the type and the invariant of dialling.
LEMMA DialStep ==
  ASSUME DialTypeOK, DialInv, NEW r \in Requests, DialAction(r), UNCHANGED sshConns
  PROVE  DialTypeOK' /\ DialInv'
<1> USE DEF netVars
<1>1. SearchOK' /\ AddressesFit(r)' /\ Frame(r) /\ AddressInv'
  BY DialSearches, FrameAddresses DEF DialInv
<1>2. UNCHANGED <<ts, route, changes, target>>
  BY DEF DialAction, Expires, Ask, DialServer, NextAddress, Dial, ServerAccepts,
         ServerAnswers, HostAccepts, WaitFails
<1>3. expired' \in [Requests -> BOOLEAN]
  <2>1. CASE Expires(r)
    BY <2>1 DEF Expires, DialTypeOK
  <2>2. CASE ~Expires(r)
    <3>1. UNCHANGED expired
      BY <2>2 DEF DialAction, Ask, DialServer, NextAddress, Dial, ServerAccepts,
                  ServerAnswers, HostAccepts, WaitFails
    <3> QED
      BY <3>1 DEF DialTypeOK
  <2> QED
    BY <2>1, <2>2
<1>4. RestOK'
  BY <1>2, <1>3 DEF RestOK, DialTypeOK
<1>5. ConnOK /\ OwnerInv /\ PhaseInv /\ ConnectionsFit /\ AddressesFit(r)
  BY DialTypeParts DEF DialInv, AddressInv
<1> SUFFICES ConnOK' /\ PhaseInv' /\ OwnerInv' /\ ConnectionsFit'
  BY <1>1, <1>4, DialTypeParts, PTL DEF DialInv
<1>6. ASSUME UNCHANGED <<dnsConn, conn, open>>,
             \/ phase[r] = phase'[r] /\ family[r] = family'[r]
             \/ {phase[r], phase'[r]} \cap {"answer", "connected"} = {}
      PROVE  ConnOK' /\ PhaseInv' /\ OwnerInv' /\ ConnectionsFit'
  BY <1>1, <1>2, <1>5, <1>6, QuietStep
<1>7. CASE Expires(r)
  BY <1>6, <1>7 DEF Expires
<1>8. CASE Ask(r)
  <2>1. phase'[r] \in {"ask", "failed", "addresses", "server"}
    <3>1. CASE Fail(r) \/ phase' = [phase EXCEPT ![r] = "server"]
      BY <3>1 DEF Fail, DialTypeOK
    <3>2. CASE NoNetmap(r) \/ LocalAnswer(r) \/ NextFamily(r)
      BY <3>2, LeftPhase, DialAssumption DEF NoNetmap, LocalAnswer
    <3> QED
      BY <1>8, <3>1, <3>2 DEF Ask, FirstResolver
  <2> QED
    BY <1>6, <1>8, <2>1 DEF Ask
<1>9. CASE DialServer(r)
  <2>1. phase'[r] \in {"ask", "failed", "addresses", "serverDial"}
    BY <1>9, LeftPhase DEF DialServer, DialTypeOK
  <2> QED
    BY <1>6, <1>9, <2>1 DEF DialServer
<1>10. CASE NextAddress(r)
  <2>1. phase'[r] \in {"ask", "failed", "addresses", "dial"}
    BY <1>10, LeftPhase DEF NextAddress, Fail, DialTypeOK
  <2> QED
    BY <1>6, <1>10, <2>1 DEF NextAddress
<1>11. CASE Dial(r)
  <2>1. phase'[r] \in {"addresses", "dialing"}
    BY <1>11 DEF Dial, DialTypeOK
  <2> QED
    BY <1>6, <1>11, <2>1 DEF Dial
<1>12. CASE ServerAccepts(r)
  <2>0. phase[r] = "serverDial"
    BY <1>12 DEF ServerAccepts
  <2>1. dnsConn[r] = 0 /\ conn[r] = 0
    BY <1>5, <2>0 DEF PhaseInv
  <2>2. ConnOK' /\ OwnerInv' /\ Kept(r)
    BY <1>5, <1>12, <2>1, OpeningKeepsOwners, DialAssumption DEF ServerAccepts
  <2>3. dnsConn'[r] # 0 /\ conn'[r] = 0 /\ phase'[r] = "answer"
    BY <1>5, <1>12, <2>1, FreshIsFree DEF ServerAccepts, OwnerInv, DialTypeOK
  <2> QED
    BY <1>1, <1>5, <2>2, <2>3, FramePhases, FrameFits
<1>13. CASE ServerAnswers(r) \/ (WaitFails(r) /\ phase[r] # "dialing")
  <2>1. phase'[r] \in {"ask", "failed", "addresses"}
    BY <1>13, LeftPhase DEF ServerAnswers, WaitFails
  <2>2. /\ open' = Closed(dnsConn[r]) /\ dnsConn' = [dnsConn EXCEPT ![r] = 0] /\ UNCHANGED conn
        /\ phase[r] # "connected"
    BY <1>13 DEF ServerAnswers, WaitFails, Waits
  <2>3. ConnOK' /\ OwnerInv' /\ Kept(r)
    BY <1>5, <2>2, ClosingKeepsOwners
  <2>4. dnsConn'[r] = 0 /\ conn'[r] = 0
    <3>1. conn[r] = 0
      BY <1>5, <2>2 DEF PhaseInv
    <3> QED
      BY <2>2, <3>1 DEF DialTypeOK
  <2> QED
    BY <1>1, <1>5, <2>1, <2>3, <2>4, FramePhases, FrameFits
<1>14. CASE HostAccepts(r)
  <2> DEFINE a == Head(left[r])
  <2>1. left[r] \in Seq(Addrs) /\ left[r] # <<>>
    BY <1>5, <1>14 DEF HostAccepts, AddressesFit, DialTypeOK
  <2>2. a \in Addrs /\ Fits(r, a) /\ a \notin Self
    BY <1>5, <1>14, <2>1 DEF HostAccepts, AddressesFit
  <2>0. phase[r] = "dialing"
    BY <1>14 DEF HostAccepts
  <2>3. dnsConn[r] = 0 /\ conn[r] = 0
    BY <1>5, <2>0 DEF PhaseInv
  <2>4. ConnOK' /\ OwnerInv' /\ Kept(r) /\ open'[Fresh] = a
    BY <1>5, <1>14, <2>2, <2>3, OpeningKeepsOwners DEF HostAccepts
  <2>5. dnsConn'[r] = 0 /\ conn'[r] = Fresh /\ Fresh # 0 /\ phase'[r] = "connected"
    BY <1>5, <1>14, <2>3, FreshIsFree DEF HostAccepts, OwnerInv, DialTypeOK
  <2>6. (Fits(r, open[conn[r]]) /\ open[conn[r]] \notin Self)'
    BY <1>14, <2>2, <2>4, <2>5 DEF HostAccepts, Fits
  <2> QED
    BY <1>1, <1>5, <2>4, <2>5, <2>6, FramePhases, FrameFits
<1>15. CASE WaitFails(r) /\ phase[r] = "dialing"
  <2>1. phase'[r] = "addresses" /\ UNCHANGED <<dnsConn, conn, open>>
    BY <1>15 DEF WaitFails, DialTypeOK
  <2> QED
    BY <1>6, <1>15, <2>1
<1> QED
  BY <1>7, <1>8, <1>9, <1>10, <1>11, <1>12, <1>13, <1>14, <1>15 DEF DialAction

\* A request starts to dial.
LEMMA BeginStep ==
  ASSUME DialTypeOK, DialInv, NEW r \in Requests, NEW t \in Names \cup Addrs, Begin(r, t),
         UNCHANGED sshConns
  PROVE  DialTypeOK' /\ DialInv' /\ Frame(r)
<1> USE DEF netVars
<1>1. phase[r] = "idle" /\ UNCHANGED <<ts, route, changes, dnsConn, conn, open>>
  BY DEF Begin
<1>2. /\ target' \in [Requests -> Names \cup Addrs] /\ target'[r] = t
      /\ expired' \in [Requests -> BOOLEAN]
      /\ \A q \in Requests \ {r} : target'[q] = target[q]
  BY DEF Begin, DialTypeOK
<1>3. t \in Addrs => <<t, t, t>> \in Seq(Addrs)
  OBVIOUS
<1>4. SearchOK' /\ Frame(r) /\ AddressesFit(r)' /\ phase'[r] \in {"failed", "ask", "addresses"}
  <2>1. CASE phase' = [phase EXCEPT ![r] = "failed"] /\ UNCHANGED <<family, left>>
    <3>1. SearchOK' /\ phase'[r] = "failed"
      BY <2>1 DEF SearchOK, DialTypeOK, Phases
    <3> QED
      BY <1>1, <1>2, <2>1, <3>1 DEF Frame, AddressesFit, DialTypeOK
  <2>2. CASE /\ phase' = [phase EXCEPT ![r] = "ask"]
             /\ family' = [family EXCEPT ![r] = "A"] /\ left' = [left EXCEPT ![r] = <<>>]
    <3>1. SearchOK' /\ phase'[r] = "ask"
      BY <2>2 DEF SearchOK, DialTypeOK, Phases, Running, Families
    <3> QED
      BY <1>1, <1>2, <2>2, <3>1 DEF Frame, AddressesFit, DialTypeOK
  <2>3. CASE /\ t \in Addrs /\ phase' = [phase EXCEPT ![r] = "addresses"]
             /\ family' = [family EXCEPT ![r] = "literal"]
             /\ left' = [left EXCEPT ![r] = <<t, t, t>>]
    <3>1. SearchOK' /\ phase'[r] = "addresses" /\ left'[r] = <<t, t, t>>
      BY <1>3, <2>3 DEF SearchOK, DialTypeOK, Phases, Running
    <3>2. \A i \in DOMAIN left'[r] : left'[r][i] = t
      BY <3>1
    <3>3. AddressesFit(r)'
      BY <1>2, <2>3, <3>1, <3>2, DialAssumption DEF AddressesFit, Fits
    <3> QED
      BY <1>1, <1>2, <2>3, <3>1, <3>3 DEF Frame, DialTypeOK
  <2> QED
    BY <2>1, <2>2, <2>3 DEF Begin
<1>5. dnsConn[r] = 0 /\ conn[r] = 0
  BY <1>1 DEF DialInv, PhaseInv
<1>6. ConnOK' /\ OwnerInv' /\ Kept(r)
  BY <1>1, DialTypeParts DEF ConnOK, OwnerInv, Kept, DialInv
<1>7. PhaseInv'
  BY <1>1, <1>4, <1>5, FramePhases DEF DialInv
<1>8. ConnectionsFit'
  BY <1>4, <1>6, FrameFits DEF DialInv
<1>9. AddressInv'
  BY <1>4, FrameAddresses DEF DialInv
<1>10. RestOK'
  BY <1>1, <1>2 DEF RestOK, DialTypeOK
<1> QED
  BY <1>4, <1>6, <1>7, <1>8, <1>9, <1>10, DialTypeParts, PTL DEF DialInv

\* A request is done with its call, whatever becomes of its connection.
LEMMA FinishStep ==
  ASSUME DialTypeOK, DialInv, NEW r \in Requests, phase[r] \in {"connected", "failed"},
         Finish(r), ConnOK', OwnerInv', Kept(r)
  PROVE  DialTypeOK' /\ DialInv' /\ Frame(r) /\ phase'[r] = "idle"
<1> USE DEF netVars
<1>1. SearchOK' /\ phase'[r] = "idle"
  BY DEF Finish, SearchOK, DialTypeOK, Phases, Families
<1>2. RestOK' /\ Frame(r)
  BY DialAssumption DEF Finish, RestOK, DialTypeOK, Frame
<1>3. dnsConn'[r] = 0 /\ conn'[r] = 0
  <2>1. dnsConn[r] = 0
    BY DEF DialInv, PhaseInv
  <2> QED
    BY <2>1 DEF Finish, DialTypeOK
<1>4. PhaseInv'
  BY <1>1, <1>2, <1>3, FramePhases DEF DialInv
<1>5. ConnectionsFit'
  BY <1>1, <1>2, FrameFits DEF DialInv
<1>6. AddressInv'
  BY <1>1, <1>2, FrameAddresses DEF DialInv, AddressesFit
<1> QED
  BY <1>1, <1>2, <1>4, <1>5, <1>6, DialTypeParts, PTL DEF DialInv

\* It closes its connection.
LEMMA FinishAndClose ==
  ASSUME DialTypeOK, DialInv, NEW r \in Requests, phase[r] \in {"connected", "failed"},
         Finish(r), open' = Closed(conn[r]), UNCHANGED sshConns
  PROVE  DialTypeOK' /\ DialInv' /\ Frame(r) /\ phase'[r] = "idle"
<1>1. ConnOK' /\ OwnerInv' /\ Kept(r)
  BY ClosingKeepsOwners, DialTypeParts DEF DialInv, Finish
<1> QED
  BY <1>1, FinishStep

\* It has none, as the dial failed.
LEMMA FinishFailed ==
  ASSUME DialTypeOK, DialInv, NEW r \in Requests, phase[r] = "failed",
         Finish(r), UNCHANGED <<open, sshConns>>
  PROVE  DialTypeOK' /\ DialInv' /\ Frame(r) /\ phase'[r] = "idle"
<1>1. conn[r] = 0
  BY DEF DialInv, PhaseInv
<1>2. UNCHANGED <<conn, dnsConn>>
  BY <1>1 DEF Finish, DialTypeOK
<1>3. ConnOK' /\ OwnerInv' /\ Kept(r)
  BY <1>2, DialTypeParts DEF DialInv, ConnOK, OwnerInv, Kept
<1> QED
  BY <1>3, FinishStep

\* It gives it to a session.
LEMMA FinishAndGive ==
  ASSUME DialTypeOK, DialInv, NEW r \in Requests, phase[r] = "connected",
         Finish(r), UNCHANGED open, NEW s, s \notin DOMAIN sshConns,
         sshConns' = With(sshConns, s, conn[r])
  PROVE  DialTypeOK' /\ DialInv' /\ Frame(r) /\ phase'[r] = "idle"
<1>1. conn[r] # 0
  BY DEF DialInv, PhaseInv
<1>2. ConnOK' /\ OwnerInv' /\ Kept(r)
  BY <1>1, GivingKeepsOwners, DialTypeParts DEF DialInv, Finish
<1> QED
  BY <1>2, FinishStep

\* What TypeOK says of the shell and of the sessions.
ShellOK ==
  /\ screen \in [Terminals -> {"new", "waiting", "prompt", "attaching", "attached", "offer"}]
  /\ closed \in [Terminals -> BOOLEAN] /\ host \in [Terminals -> Hosts]
  /\ job \in [Terminals -> Jobs] /\ session \in [Terminals -> 0..nextID - 1]
  /\ nextID \in Nat \ {0} /\ pendingAuth \subseteq 1..nextID - 1
  /\ DOMAIN sshConns \subseteq 1..nextID - 1 /\ DOMAIN attached \subseteq 1..nextID - 1
  /\ \A s \in DOMAIN sshConns : sshConns[s] \in Nat
  /\ \A s \in DOMAIN attached : attached[s] \in Nat

\* The parts of TypeOK and of the invariant.
LEMMA Parts ==
  /\ TypeOK <=> DialTypeOK /\ ShellOK
  /\ IInv <=> DialInv /\ SessionInv /\ PendingOrConnected
BY DEF TypeOK, ShellOK, IInv, DialInv

\* A terminal is a request that dials.
LEMMA TerminalsAreRequests == Terminals \subseteq Requests
BY DialAssumption, SshAssumption

\* A step that leaves the shell and the sessions alone.
LEMMA ShellStays ==
  ASSUME ShellOK, SessionInv, PendingOrConnected, UNCHANGED <<shellVars, sshVars>>,
         \A t \in Terminals : phase'[t] # "idle" => phase[t] # "idle"
  PROVE  ShellOK' /\ SessionInv' /\ PendingOrConnected'
<1>1. UNCHANGED <<screen, closed, host, job, session, nextID, pendingAuth, sshConns, attached>>
  BY DEF shellVars, sshVars
<1>2. ShellOK' /\ PendingOrConnected'
  BY <1>1 DEF ShellOK, PendingOrConnected
<1>3. SessionInv'
  BY <1>1 DEF SessionInv
<1> QED
  BY <1>2, <1>3

\* The shell posts a request, with a password only for a session that waits for one.
LEMMA PostStep ==
  ASSUME TypeOK, IInv, NEW t \in Terminals, NEW kind \in Jobs, Post(t, kind),
         kind = "password" => session[t] \in pendingAuth
  PROVE  TypeOK' /\ IInv'
<1>1. DialTypeOK /\ ShellOK /\ DialInv /\ SessionInv /\ PendingOrConnected
  BY Parts
<1>2. /\ job' = [job EXCEPT ![t] = kind]
      /\ UNCHANGED <<closed, host, session, nextID, pendingAuth, sshConns, attached>>
  BY DEF Post, sshVars
<1>3. screen' \in [Terminals -> {"new", "waiting", "prompt", "attaching", "attached", "offer"}]
  BY <1>1 DEF Post, ShellOK
<1>4. ShellOK' /\ PendingOrConnected'
  BY <1>1, <1>2, <1>3 DEF ShellOK, PendingOrConnected
<1>5. DialTypeOK' /\ DialInv' /\ \A u \in Terminals \ {t} : phase'[u] = phase[u]
  <2>1. CASE Begin(t, host[t])
    <3>1. host[t] \in Names \cup Addrs
      BY <1>1, SshAssumption DEF ShellOK
    <3>2. DialTypeOK' /\ DialInv' /\ Frame(t)
      BY <1>1, <1>2, <2>1, <3>1, BeginStep, TerminalsAreRequests
    <3> QED
      BY <3>2, TerminalsAreRequests DEF Frame
  <2>2. CASE UNCHANGED <<netVars, dialVars>>
    BY <1>1, <1>2, <2>2 DEF netVars, dialVars, DialTypeOK, DialInv, AddressInv, AddressesFit, Fits,
       PhaseInv, OwnerInv, ConnectionsFit
  <2> QED
    BY <2>1, <2>2 DEF Post
<1>6. SessionInv'
  BY <1>1, <1>2, <1>5 DEF SessionInv, ShellOK
<1> QED
  BY <1>4, <1>5, <1>6, Parts, PTL

\* What a handler does to the sessions when it is over.
LEMMA HandledShell ==
  ASSUME ShellOK, SessionInv, PendingOrConnected, NEW t \in Terminals,
         Frame(t), phase'[t] = "idle",
         job' = [job EXCEPT ![t] = "connect"], UNCHANGED <<closed, host, attached>>,
         screen' \in [Terminals -> {"new", "waiting", "prompt", "attaching", "attached", "offer"}],
         \/ UNCHANGED <<session, nextID, pendingAuth, sshConns>>
         \/ /\ nextID' = nextID + 1 /\ session' = [session EXCEPT ![t] = nextID]
            /\ \/ /\ pendingAuth' = pendingAuth \cup {nextID} /\ UNCHANGED sshConns
               \/ /\ conn[t] \in Nat
                  /\ sshConns' = With(sshConns, nextID, conn[t]) /\ UNCHANGED pendingAuth
         \/ /\ UNCHANGED <<session, nextID>> /\ session[t] \in pendingAuth /\ conn[t] \in Nat
            /\ pendingAuth' = pendingAuth \ {session[t]}
            /\ sshConns' = With(sshConns, session[t], conn[t])
  PROVE  ShellOK' /\ SessionInv' /\ PendingOrConnected'
<1>0. /\ job' \in [Terminals -> Jobs] /\ \A u \in Terminals \ {t} : job'[u] = job[u]
      /\ \A u \in Terminals \ {t} : phase'[u] = phase[u]
  BY TerminalsAreRequests DEF ShellOK, Jobs, Frame
<1>1. CASE UNCHANGED <<session, nextID, pendingAuth, sshConns>>
  <2>1. ShellOK' /\ PendingOrConnected'
    BY <1>0, <1>1 DEF ShellOK, PendingOrConnected
  <2> QED
    BY <1>0, <1>1, <2>1 DEF SessionInv
<1>2. CASE nextID' = nextID + 1 /\ session' = [session EXCEPT ![t] = nextID]
  <2>1. session' \in [Terminals -> 0..nextID' - 1] /\ nextID' \in Nat \ {0}
    BY <1>2 DEF ShellOK
  <2>2. nextID \notin DOMAIN sshConns /\ nextID \notin pendingAuth /\ nextID \notin DOMAIN attached
    BY DEF ShellOK
  <2>3. session'[t] = nextID /\ \A u \in Terminals \ {t} : session'[u] = session[u] /\ session[u] # nextID
    BY <1>2 DEF ShellOK
  <2>4. CASE pendingAuth' = pendingAuth \cup {nextID} /\ UNCHANGED sshConns
    <3>1. pendingAuth' \subseteq 1..nextID' - 1 /\ DOMAIN sshConns' \subseteq 1..nextID' - 1
          /\ DOMAIN attached' \subseteq 1..nextID' - 1
      BY <1>2, <2>4 DEF ShellOK
    <3>2. ShellOK'
      BY <1>0, <2>1, <2>4, <3>1 DEF ShellOK
    <3>3. SessionInv'
      BY <1>0, <2>3, <2>4 DEF SessionInv
    <3> QED
      BY <2>2, <2>4, <3>2, <3>3 DEF PendingOrConnected
  <2>5. CASE /\ conn[t] \in Nat
             /\ sshConns' = With(sshConns, nextID, conn[t]) /\ UNCHANGED pendingAuth
    <3>0. /\ DOMAIN sshConns' = DOMAIN sshConns \cup {nextID} /\ sshConns'[nextID] = conn[t]
          /\ \A s \in DOMAIN sshConns : sshConns'[s] = sshConns[s]
      BY <2>2, <2>5 DEF With
    <3>1. pendingAuth' \subseteq 1..nextID' - 1 /\ DOMAIN sshConns' \subseteq 1..nextID' - 1
          /\ DOMAIN attached' \subseteq 1..nextID' - 1
      BY <1>2, <2>5, <3>0 DEF ShellOK
    <3>2. ShellOK'
      BY <1>0, <2>1, <2>5, <3>0, <3>1 DEF ShellOK
    <3>3. SessionInv'
      BY <1>0, <2>3, <2>5 DEF SessionInv
    <3> QED
      BY <2>2, <2>5, <3>0, <3>2, <3>3 DEF PendingOrConnected
  <2> QED
    BY <1>2, <2>4, <2>5 DEF ShellOK
<1>3. CASE /\ UNCHANGED <<session, nextID>> /\ session[t] \in pendingAuth /\ conn[t] \in Nat
           /\ pendingAuth' = pendingAuth \ {session[t]}
           /\ sshConns' = With(sshConns, session[t], conn[t])
  <2>1. session[t] \notin DOMAIN sshConns /\ session[t] \in 1..nextID - 1
    BY <1>3 DEF PendingOrConnected, ShellOK
  <2>2. /\ DOMAIN sshConns' = DOMAIN sshConns \cup {session[t]} /\ sshConns'[session[t]] = conn[t]
        /\ \A s \in DOMAIN sshConns : sshConns'[s] = sshConns[s]
    BY <1>3, <2>1 DEF With
  <2>3. ShellOK'
    BY <1>0, <1>3, <2>1, <2>2 DEF ShellOK
  <2>4. \A u \in Terminals \ {t} : session[u] # session[t]
    BY <2>1 DEF SessionInv
  <2>5. SessionInv'
    BY <1>0, <1>3, <2>4 DEF SessionInv
  <2> QED
    BY <1>3, <2>2, <2>3, <2>5 DEF PendingOrConnected
<1> QED
  BY <1>1, <1>2, <1>3

\* A handler is done: with a session, a prompt or an error.
LEMMA ServeStep ==
  ASSUME TypeOK, IInv, NEW t \in Terminals,
         \/ DialFailed(t) \/ KeyAccepted(t) \/ KeyRefused(t)
         \/ PasswordAccepted(t) \/ PasswordRefused(t)
  PROVE  TypeOK' /\ IInv'
<1> USE TerminalsAreRequests DEF sshVars
<1>1. DialTypeOK /\ ShellOK /\ DialInv /\ SessionInv /\ PendingOrConnected
  BY Parts
<1>2. /\ Finish(t) /\ job' = [job EXCEPT ![t] = "connect"] /\ UNCHANGED <<closed, host, attached>>
      /\ phase[t] \in {"connected", "failed"} /\ conn[t] \in Nat
  BY <1>1 DEF DialFailed, Handled, KeyAccepted, KeyRefused, PasswordAccepted, PasswordRefused,
              DialTypeOK
<1>3. screen' \in [Terminals -> {"new", "waiting", "prompt", "attaching", "attached", "offer"}]
  <2>1. \E x \in {"prompt", "attaching", "offer"} : screen' = [screen EXCEPT ![t] = x]
    BY DEF DialFailed, FailedScreen, KeyAccepted, KeyRefused, PasswordAccepted, PasswordRefused
  <2> QED
    BY <1>1, <2>1 DEF ShellOK
<1>4. CASE DialFailed(t)
  <2>1. DialTypeOK' /\ DialInv' /\ Frame(t) /\ phase'[t] = "idle"
    BY <1>1, <1>4, FinishFailed DEF DialFailed
  <2>2. UNCHANGED <<session, nextID, pendingAuth, sshConns>>
    BY <1>4 DEF DialFailed
  <2> QED
    BY <1>1, <1>2, <1>3, <2>1, <2>2, HandledShell, Parts, PTL
<1>5. CASE PasswordRefused(t)
  <2>1. DialTypeOK' /\ DialInv' /\ Frame(t) /\ phase'[t] = "idle"
    BY <1>1, <1>2, <1>5, FinishAndClose DEF PasswordRefused, AfterRefusal
  <2>2. UNCHANGED <<session, nextID, pendingAuth, sshConns>>
    BY <1>5 DEF PasswordRefused
  <2> QED
    BY <1>1, <1>2, <1>3, <2>1, <2>2, HandledShell, Parts, PTL
<1>6. CASE KeyRefused(t)
  <2>1. DialTypeOK' /\ DialInv' /\ Frame(t) /\ phase'[t] = "idle"
    BY <1>1, <1>2, <1>6, FinishAndClose DEF KeyRefused, AfterRefusal
  <2>2. /\ nextID' = nextID + 1 /\ session' = [session EXCEPT ![t] = nextID]
        /\ pendingAuth' = pendingAuth \cup {nextID} /\ UNCHANGED sshConns
    BY <1>6 DEF KeyRefused
  <2> QED
    BY <1>1, <1>2, <1>3, <2>1, <2>2, HandledShell, Parts, PTL
<1>7. CASE KeyAccepted(t)
  <2>0. nextID \notin DOMAIN sshConns
    BY <1>1 DEF ShellOK
  <2>1. DialTypeOK' /\ DialInv' /\ Frame(t) /\ phase'[t] = "idle"
    BY <1>1, <1>2, <1>7, <2>0, FinishAndGive DEF KeyAccepted, Handled
  <2>2. /\ nextID' = nextID + 1 /\ session' = [session EXCEPT ![t] = nextID]
        /\ sshConns' = With(sshConns, nextID, conn[t]) /\ UNCHANGED pendingAuth
    BY <1>7 DEF KeyAccepted
  <2> QED
    BY <1>1, <1>2, <1>3, <2>1, <2>2, HandledShell, Parts, PTL
<1>8. CASE PasswordAccepted(t)
  <2>0. phase[t] = "connected" /\ job[t] = "password"
    BY <1>8 DEF PasswordAccepted, Handled
  <2>1. session[t] \in pendingAuth /\ session[t] \notin DOMAIN sshConns
    BY <1>1, <2>0 DEF SessionInv, PendingOrConnected
  <2>2. DialTypeOK' /\ DialInv' /\ Frame(t) /\ phase'[t] = "idle"
    BY <1>1, <1>2, <1>8, <2>0, <2>1, FinishAndGive DEF PasswordAccepted
  <2>3. /\ UNCHANGED <<session, nextID>> /\ pendingAuth' = pendingAuth \ {session[t]}
        /\ sshConns' = With(sshConns, session[t], conn[t])
    BY <1>8 DEF PasswordAccepted, Answered
  <2> QED
    BY <1>1, <1>2, <1>3, <2>1, <2>2, <2>3, HandledShell, Parts, PTL
<1> QED
  BY <1>4, <1>5, <1>6, <1>7, <1>8

\* A step that has nothing to do with dialling.
LEMMA DialStays ==
  ASSUME DialTypeOK, DialInv, UNCHANGED <<netVars, dialVars, sshConns>>
  PROVE  DialTypeOK' /\ DialInv'
BY DEF netVars, dialVars, DialTypeOK, DialInv, AddressInv, AddressesFit, Fits, PhaseInv,
       OwnerInv, ConnectionsFit

\* The steps of a terminal that has been answered, and of its tab.
LEMMA ShellStep ==
  ASSUME TypeOK, IInv, NEW t \in Terminals, UNCHANGED <<netVars, dialVars>>,
         UNCHANGED <<host, job, session, nextID, pendingAuth, sshConns>>,
         screen' \in [Terminals -> {"new", "waiting", "prompt", "attaching", "attached", "offer"}],
         closed' \in [Terminals -> BOOLEAN],
         \/ UNCHANGED attached
         \/ /\ session[t] \in DOMAIN sshConns
            /\ attached' = With(attached, session[t], sshConns[session[t]])
  PROVE  TypeOK' /\ IInv'
<1>1. DialTypeOK /\ ShellOK /\ DialInv /\ SessionInv /\ PendingOrConnected
  BY Parts
<1>2. DialTypeOK' /\ DialInv'
  BY <1>1, DialStays
<1>3. SessionInv'
  BY <1>1 DEF SessionInv, dialVars
<1>4. ShellOK' /\ PendingOrConnected'
  <2>1. CASE UNCHANGED attached
    BY <1>1, <2>1 DEF ShellOK, PendingOrConnected
  <2>2. CASE /\ session[t] \in DOMAIN sshConns
             /\ attached' = With(attached, session[t], sshConns[session[t]])
    <3>1. /\ DOMAIN attached' = DOMAIN attached \cup {session[t]}
          /\ attached'[session[t]] = sshConns[session[t]]
          /\ \A s \in DOMAIN attached \ {session[t]} : attached'[s] = attached[s]
      BY <2>2 DEF With
    <3> QED
      BY <1>1, <2>2, <3>1 DEF ShellOK, PendingOrConnected
  <2> QED
    BY <2>1, <2>2
<1> QED
  BY <1>2, <1>3, <1>4, Parts, PTL

\* The handler of a session returns.
LEMMA EndStep ==
  ASSUME TypeOK, IInv, NEW s \in IDs, SessionEnds(s)
  PROVE  TypeOK' /\ IInv'
<1> USE DEF netVars
<1>1. DialTypeOK /\ ShellOK /\ DialInv /\ SessionInv /\ PendingOrConnected
  BY Parts
<1>2. s \in DOMAIN sshConns /\ attached[s] = sshConns[s]
  BY <1>1 DEF SessionEnds, PendingOrConnected
<1>3. /\ ConnOK' /\ OwnerInv'
      /\ \A q \in Requests : conn[q] # 0 => open'[conn[q]] = open[conn[q]]
  BY <1>1, <1>2, EndingKeepsOwners, DialTypeParts DEF SessionEnds, DialInv
<1>4. PhaseInv' /\ AddressInv' /\ SearchOK' /\ RestOK'
  BY <1>1 DEF SessionEnds, DialInv, PhaseInv, AddressInv, AddressesFit, Fits, SearchOK, RestOK,
              DialTypeOK
<1>5. ConnectionsFit'
  BY <1>1, <1>3 DEF SessionEnds, DialInv, ConnectionsFit, PhaseInv, Fits
<1>6. /\ DOMAIN sshConns' = DOMAIN sshConns \ {s} /\ DOMAIN attached' = DOMAIN attached \ {s}
      /\ \A u \in DOMAIN sshConns' : sshConns'[u] = sshConns[u]
      /\ \A u \in DOMAIN attached' : attached'[u] = attached[u]
  BY DEF SessionEnds, Without
<1>7. ShellOK'
  <2>1. screen' \in [Terminals -> {"new", "waiting", "prompt", "attaching", "attached", "offer"}]
    BY <1>1 DEF SessionEnds, ShellOK
  <2> QED
    BY <1>1, <1>6, <2>1 DEF SessionEnds, ShellOK
<1>8. PendingOrConnected'
  BY <1>1, <1>6 DEF SessionEnds, PendingOrConnected
<1>9. SessionInv'
  BY <1>1 DEF SessionEnds, SessionInv
<1> QED
  BY <1>3, <1>4, <1>5, <1>7, <1>8, <1>9, Parts, DialTypeParts, PTL DEF DialInv

\* The invariant of dialling and of the sessions, with the types.
THEOREM Invariance == Spec => [](TypeOK /\ IInv)
<1>1. Init => TypeOK /\ IInv
  <2> SUFFICES ASSUME Init PROVE TypeOK /\ IInv
    OBVIOUS
  <2>1. DOMAIN open = {} /\ DOMAIN sshConns = {} /\ DOMAIN attached = {}
    BY DEF Init, DialInit
  <2>2. SearchOK /\ RestOK /\ ConnOK
    BY <2>1, DialAssumption DEF Init, DialInit, SearchOK, RestOK, ConnOK, Phases, Families
  <2>3. AddressInv /\ PhaseInv /\ ConnectionsFit
    BY DEF Init, DialInit, AddressInv, AddressesFit, PhaseInv, ConnectionsFit
  <2>4. OwnerInv
    BY <2>1, FS_EmptySet DEF Init, DialInit, OwnerInv
  <2>5. ShellOK
    BY <2>1 DEF Init, ShellOK, Jobs
  <2>6. SessionInv /\ PendingOrConnected
    BY <2>1, TerminalsAreRequests DEF Init, DialInit, SessionInv, PendingOrConnected
  <2> QED
    BY <2>2, <2>3, <2>4, <2>5, <2>6, Parts, DialTypeParts DEF DialInv
<1>2. TypeOK /\ IInv /\ [Next]_vars => TypeOK' /\ IInv'
  <2> SUFFICES ASSUME TypeOK, IInv, [Next]_vars PROVE TypeOK' /\ IInv'
    OBVIOUS
  <2>0. DialTypeOK /\ ShellOK /\ DialInv /\ SessionInv /\ PendingOrConnected
    BY Parts
  <2>1. CASE RoutesChange /\ UNCHANGED <<shellVars, sshVars>>
    <3>0. UNCHANGED <<phase, target, family, left, expired, dnsConn, conn, open, sshConns>>
      BY <2>1 DEF RoutesChange, dialVars, sshVars
    <3>1. DialInv'
      BY <2>0, <3>0 DEF DialInv, AddressInv, AddressesFit, Fits, PhaseInv, OwnerInv, ConnectionsFit
    <3>2. ts' \in BOOLEAN /\ route' \subseteq Addrs /\ changes' \in 0..MaxChanges
      <4>1. changes' \in 0..MaxChanges
        BY <2>0, <2>1, DialAssumption DEF RoutesChange, DialTypeOK
      <4>2. ts' \in BOOLEAN
        BY <2>0, <2>1 DEF RoutesChange, DialTypeOK
      <4>3. route' = {} \/ \E a \in Addrs : route' = route \cup {a} \/ route' = route \ {a}
        BY <2>1 DEF RoutesChange
      <4>4. route \subseteq Addrs
        BY <2>0 DEF DialTypeOK
      <4> QED
        BY <4>1, <4>2, <4>3, <4>4
    <3>3. DialTypeOK'
      BY <2>0, <3>0, <3>2 DEF DialTypeOK
    <3>4. ShellOK' /\ SessionInv' /\ PendingOrConnected'
      BY <2>0, <2>1, <3>0, ShellStays
    <3> QED
      BY <3>1, <3>3, <3>4, Parts, PTL
  <2>2. ASSUME NEW r \in Requests, DialAction(r), UNCHANGED <<shellVars, sshVars>>
        PROVE  TypeOK' /\ IInv'
    <3>1. DialTypeOK' /\ DialInv' /\ Frame(r)
      BY <2>0, <2>2, DialStep, DialSearches DEF DialInv, sshVars
    <3>2. phase[r] # "idle"
      BY <2>2 DEF DialAction, Expires, Ask, DialServer, NextAddress, Dial, ServerAccepts,
                  ServerAnswers, HostAccepts, WaitFails, Running, Waits
    <3>3. \A t \in Terminals : phase'[t] # "idle" => phase[t] # "idle"
      BY <3>1, <3>2, TerminalsAreRequests DEF Frame
    <3>4. ShellOK' /\ SessionInv' /\ PendingOrConnected'
      BY <2>0, <2>2, <3>3, ShellStays
    <3> QED
      BY <3>1, <3>4, Parts, PTL
  <2>3. ASSUME NEW r \in Requests \ Terminals, Start(r) \/ Return(r), UNCHANGED <<shellVars, sshVars>>
        PROVE  TypeOK' /\ IInv'
    <3>1. DialTypeOK' /\ DialInv' /\ Frame(r)
      <4>1. CASE Start(r)
        BY <2>0, <2>3, <4>1, BeginStep, DialAssumption DEF Start, sshVars
      <4>2. CASE Return(r)
        BY <2>0, <2>3, <4>2, FinishAndClose DEF Return, sshVars
      <4> QED
        BY <2>3, <4>1, <4>2
    <3>2. \A t \in Terminals : phase'[t] # "idle" => phase[t] # "idle"
      BY <3>1, <2>3, TerminalsAreRequests DEF Frame
    <3>3. ShellOK' /\ SessionInv' /\ PendingOrConnected'
      BY <2>0, <2>3, <3>2, ShellStays
    <3> QED
      BY <3>1, <3>3, Parts, PTL
  <2>4. ASSUME NEW t \in Terminals,
               \/ OpenTerminal(t) \/ Reconnect(t)
               \/ EnterPassword(t) /\ session[t] \in pendingAuth /\ Post(t, "password")
        PROVE  TypeOK' /\ IInv'
    <3>1. \E kind \in Jobs : Post(t, kind) /\ (kind = "password" => session[t] \in pendingAuth)
      BY <2>4 DEF OpenTerminal, Reconnect, Jobs
    <3> QED
      BY <3>1, PostStep
  <2>5. ASSUME NEW t \in Terminals,
               \/ CloseTab(t) \/ Attach(t) \/ SocketCloses(t)
               \/ /\ screen' = [screen EXCEPT ![t] = "offer"]
                  /\ UNCHANGED <<netVars, dialVars, closed, host, job, session, sshVars>>
        PROVE  TypeOK' /\ IInv'
    <3>1. UNCHANGED <<netVars, dialVars>>
          /\ UNCHANGED <<host, job, session, nextID, pendingAuth, sshConns>>
      BY <2>5 DEF CloseTab, Attach, SocketCloses, sshVars
    <3>2. \/ UNCHANGED attached
          \/ /\ session[t] \in DOMAIN sshConns
             /\ attached' = With(attached, session[t], sshConns[session[t]])
      BY <2>5 DEF CloseTab, Attach, SocketCloses, sshVars
    <3>3. closed' \in [Terminals -> BOOLEAN]
      BY <2>0, <2>5 DEF CloseTab, Attach, SocketCloses, ShellOK
    <3>4. screen' \in [Terminals -> {"new", "waiting", "prompt", "attaching", "attached", "offer"}]
      BY <2>0, <2>5 DEF CloseTab, Attach, SocketCloses, ShellOK
    <3> QED
      BY <3>1, <3>2, <3>3, <3>4, ShellStep
  <2>6. CASE UNCHANGED vars
    <3>1. DialTypeOK' /\ DialInv'
      BY <2>0, <2>6, DialStays DEF vars, sshVars
    <3>2. ShellOK' /\ SessionInv' /\ PendingOrConnected'
      BY <2>0, <2>6, ShellStays DEF vars, dialVars
    <3> QED
      BY <3>1, <3>2, Parts, PTL
  <2> QED
    BY <2>1, <2>2, <2>3, <2>4, <2>5, <2>6, StepCases, ServeStep, EndStep DEF EnterPassword
<1> QED
  BY <1>1, <1>2, PTL DEF Spec

\* Whatever DNS servers answer and however the routes change, a request is only ever
\* connected to an address that belongs to what it dialled, and never to the node itself
\* (dialTailnetResolved, queryDNSOverTailnet and the dial function of resolverForTSNet).
THEOREM DialsGoWhereMeant == Spec => []ConnectionsFit
<1>1. IInv => ConnectionsFit
  BY DEF IInv
<1> QED
  BY <1>1, Invariance, PTL

\* A step that brings no request to the beginning of a dial.
LEMMA NoDialBegins ==
  ASSUME DialTypeOK,
         \/ UNCHANGED phase
         \/ \E r \in Requests, p \in Phases \ {"serverDial", "dialing"} :
              phase' = [phase EXCEPT ![r] = p]
  PROVE  \A r \in Requests : ~Begins(r, "serverDial") /\ ~Begins(r, "dialing")
BY DEF Begins, DialTypeOK

\* No dial of a host or of the DNS server begins without a route that is there at that
\* moment: the dial function of resolverForTSNet tests it again, whatever was found before.
THEOREM DialsAreRouted == Spec => RoutesAreCurrent
<1> DEFINE Current == \A r \in Requests :
                        /\ Begins(r, "serverDial") => DNSServer \in route
                        /\ Begins(r, "dialing") => Head(left'[r]) \in route
           Others == Phases \ {"serverDial", "dialing"}
<1>1. ASSUME TypeOK, [Next]_vars PROVE Current
  <2>0. DialTypeOK
    BY <1>1 DEF TypeOK
  <2>1. ASSUME \/ UNCHANGED phase
               \/ \E r \in Requests, p \in Others : phase' = [phase EXCEPT ![r] = p]
        PROVE  Current
    BY <2>0, <2>1, NoDialBegins
  <2>2. /\ {"idle", "failed", "ask", "addresses", "dial", "server", "answer", "connected"} \subseteq Others
    BY DEF Phases, Running, Waits
  <2> HIDE DEF Current, Others
  <2>3. ASSUME NEW r \in Requests, NextFamily(r) PROVE Current
    BY <2>1, <2>2, <2>3 DEF NextFamily
  <2>4. ASSUME NEW r \in Requests, NEW a, Resolved(r, a) PROVE Current
    BY <2>1, <2>2, <2>3, <2>4 DEF Resolved, Probed
  <2>5. ASSUME NEW r \in Requests, Finish(r) PROVE Current
    BY <2>1, <2>2, <2>5 DEF Finish
  <2>6. ASSUME NEW r \in Requests, DialServer(r) PROVE Current
    <3>1. CASE StillRouted(DNSServer)
      <4>1. DNSServer \in route /\ phase' = [phase EXCEPT ![r] = "serverDial"]
        BY <2>6, <3>1 DEF DialServer, StillRouted, Routed
      <4>2. \A q \in Requests : ~Begins(q, "dialing")
        BY <2>0, <4>1 DEF Begins, DialTypeOK
      <4> QED
        BY <4>1, <4>2 DEF Current
    <3>2. CASE ~StillRouted(DNSServer)
      BY <2>3, <2>6, <3>2 DEF DialServer
    <3> QED
      BY <3>1, <3>2
  <2>7. ASSUME NEW r \in Requests, Dial(r) PROVE Current
    <3>1. CASE StillRouted(Head(left[r])) /\ phase' = [phase EXCEPT ![r] = "dialing"] /\ UNCHANGED left
      <4>1. Head(left'[r]) \in route
        BY <3>1 DEF StillRouted, Routed
      <4>2. \A q \in Requests : ~Begins(q, "serverDial") /\ (Begins(q, "dialing") => q = r)
        BY <2>0, <3>1 DEF Begins, DialTypeOK
      <4> QED
        BY <4>1, <4>2 DEF Current
    <3>2. CASE phase' = [phase EXCEPT ![r] = "addresses"]
      BY <2>1, <2>2, <3>2
    <3> QED
      BY <2>7, <3>1, <3>2 DEF Dial
  <2>8. ASSUME NEW r \in Requests, DialAction(r) PROVE Current
    <3>1. CASE Expires(r)
      BY <2>1, <3>1 DEF Expires
    <3>2. CASE Ask(r)
      BY <2>1, <2>2, <2>3, <2>4, <3>2 DEF Ask, Fail, NoNetmap, LocalAnswer, FirstResolver
    <3>3. CASE NextAddress(r)
      BY <2>1, <2>2, <2>3, <3>3 DEF NextAddress, Fail
    <3>4. CASE ServerAccepts(r) \/ HostAccepts(r)
      BY <2>1, <2>2, <3>4 DEF ServerAccepts, HostAccepts
    <3>5. CASE ServerAnswers(r)
      BY <2>3, <2>4, <3>5 DEF ServerAnswers
    <3>6. CASE WaitFails(r)
      BY <2>1, <2>2, <2>3, <3>6 DEF WaitFails
    <3> QED
      BY <2>6, <2>7, <2>8, <3>1, <3>2, <3>3, <3>4, <3>5, <3>6 DEF DialAction
  <2>9. ASSUME NEW r \in Requests, NEW t, Begin(r, t) PROVE Current
    BY <2>1, <2>2, <2>9 DEF Begin
  <2>10. ASSUME NEW t \in Terminals, NEW kind, Post(t, kind) PROVE Current
    BY <2>1, <2>9, <2>10, TerminalsAreRequests DEF Post, dialVars
  <2>11. CASE \E t \in Terminals :
                \/ OpenTerminal(t) \/ Reconnect(t) \/ EnterPassword(t) \/ CloseTab(t)
                \/ Attach(t) \/ SocketCloses(t)
    BY <2>1, <2>10, <2>11
       DEF OpenTerminal, Reconnect, EnterPassword, CloseTab, Attach, SocketCloses, dialVars
  <2>12. CASE \E t \in Terminals : \/ DialFailed(t) \/ KeyAccepted(t) \/ KeyRefused(t)
                                   \/ PasswordAccepted(t) \/ PasswordRefused(t)
    BY <2>5, <2>12, TerminalsAreRequests
       DEF DialFailed, KeyAccepted, KeyRefused, PasswordAccepted, PasswordRefused, Handled
  <2>13. CASE RoutesChange \/ (\E s \in IDs : SessionEnds(s)) \/ UNCHANGED vars
    BY <2>1, <2>13 DEF RoutesChange, SessionEnds, vars, dialVars
  <2>14. CASE \E r \in Requests \ Terminals : Start(r) \/ Return(r)
    BY <2>5, <2>9, <2>14 DEF Start, Return
  <2> QED
    BY <1>1, <2>8, <2>11, <2>12, <2>13, <2>14, StepCases
<1>2. TypeOK /\ [Next]_vars => [Current]_<<netVars, dialVars>>
  BY <1>1
<1> QED
  BY <1>2, Invariance, PTL DEF Spec, RoutesAreCurrent

\* A session waits for a password or has a client, never both, and the client of a running
\* terminal is the one that sshConns knows (handleSSHAuthPassword, handleSSHWebSocketFull).
THEOREM SessionsAreOneThing == Spec => []PendingOrConnected
<1>1. IInv => PendingOrConnected
  BY DEF IInv
<1> QED
  BY <1>1, Invariance, PTL

\* No failed handshake, error, answer or repeated login leaks a connection, and none is
\* closed while someone holds it (handleSSHConnect, handleSSHAuthPassword, queryDNSOverTailnet
\* and the deferred function of handleSSHWebSocketFull).
THEOREM NoConnectionLeaks == Spec => []ConnectionsAreOwned
<1>1. TypeOK /\ IInv => ConnectionsAreOwned
  <2> SUFFICES ASSUME TypeOK, IInv PROVE ConnectionsAreOwned
    OBVIOUS
  <2> DEFINE Owned == {dnsConn[r] : r \in Requests} \cup {conn[r] : r \in Requests}
                        \cup {sshConns[s] : s \in DOMAIN sshConns}
                        \cup {attached[s] : s \in DOMAIN attached}
  <2>1. 0 \notin DOMAIN open
    BY DEF TypeOK, DialTypeOK
  <2>2. ASSUME NEW c \in DOMAIN open PROVE c \in Owned \ {0}
    BY <2>1 DEF IInv, OwnerInv
  <2>3. ASSUME NEW c \in Owned \ {0} PROVE c \in DOMAIN open
    BY DEF IInv, OwnerInv, PendingOrConnected
  <2> QED
    BY <2>2, <2>3 DEF ConnectionsAreOwned
<1> QED
  BY <1>1, Invariance, PTL
=============================================================================
