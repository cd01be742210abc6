---------------------------- MODULE TailnetDial -----------------------------
(***************************************************************************)
(* How womprat reaches a host of the tailnet (tailnet_dns.go,              *)
(* tailnet_dns_client.go, tailnet_dns_transport.go, dns_local.go): the     *)
(* name is looked up in the network map or asked of the one DNS server     *)
(* that Tailscale selected, IPv4 before IPv6, and every address of the     *)
(* answer is tried in turn.  DNS questions and connections use the stack   *)
(* of the embedded node and nothing else.                                  *)
(*                                                                         *)
(* A request is one call of dialTSNetPreferIPv4 (a proxy, a viewer, a      *)
(* download, an SSH handler) or of the DNS diagnostic, which only asks.    *)
(* The network may keep any of them waiting until its context ends.        *)
(***************************************************************************)
EXTENDS Naturals, Sequences, FiniteSets, SequencesExt

CONSTANTS
  Requests,    \* everything that dials
  Probes,      \* those that are DNS diagnostics
  Deadlined,   \* those whose context has a deadline
  Names,       \* host names
  V4, V6,      \* addresses
  Self,        \* the node's own addresses
  DNSServer,   \* the address of the selected DNS server
  Zone,        \* the addresses of every name
  Local,       \* the names of the network map
  Targets,     \* what is dialled or looked up
  MaxChanges   \* bound on the changes of the routes

Addrs == V4 \cup V6

ASSUME DialAssumption ==
  /\ Probes \subseteq Requests /\ Deadlined \subseteq Requests
  /\ V4 \cap V6 = {} /\ Self \subseteq Addrs /\ DNSServer \in Addrs \ Self
  /\ Local \subseteq Names /\ Names \cap Addrs = {}
  /\ Targets \subseteq Names \cup Addrs /\ (Probes # {} => Targets \subseteq Names)
  /\ Zone \in [Names -> SUBSET Addrs] /\ \A n \in Names : IsFiniteSet(Zone[n])
  /\ MaxChanges \in Nat

VARIABLES
  ts,          \* App.tsServer is set
  route,       \* the addresses that UseNetstackForIP accepts
  changes,
  phase,       \* how far each request is
  target,      \* the name or the address it dials
  family,      \* the record it asks for; "literal" for an address
  left,        \* the addresses it has still to try
  expired,     \* its context has ended
  dnsConn,     \* its connection to the DNS server, or 0
  conn,        \* the connection that was dialled, until its owner takes it, or 0
  open         \* the open connections and their addresses

netVars == <<ts, route, changes>>
dialVars == <<phase, target, family, left, expired, dnsConn, conn, open>>

Waits == {"serverDial", "answer", "dialing"}      \* for the network
Running == Waits \cup {"ask", "server", "addresses", "dial"}
Phases == Running \cup {"idle", "connected", "failed"}
Families == {"A", "AAAA"}

DialTypeOK ==
  /\ ts \in BOOLEAN /\ route \subseteq Addrs /\ changes \in 0..MaxChanges
  /\ phase \in [Requests -> Phases] /\ target \in [Requests -> Names \cup Addrs]
  /\ family \in [Requests -> Families \cup {"literal"}]
  /\ left \in [Requests -> Seq(Addrs)] /\ expired \in [Requests -> BOOLEAN]
  /\ dnsConn \in [Requests -> Nat] /\ conn \in [Requests -> Nat]
  /\ \A c \in DOMAIN open : c \in Nat \ {0} /\ open[c] \in Addrs

DialInit ==
  /\ ts = TRUE /\ route = Addrs /\ changes = 0
  /\ phase = [r \in Requests |-> "idle"]
  /\ target = [r \in Requests |-> DNSServer] /\ family = [r \in Requests |-> "A"]
  /\ left = [r \in Requests |-> <<>>] /\ expired = [r \in Requests |-> FALSE]
  /\ dnsConn = [r \in Requests |-> 0] /\ conn = [r \in Requests |-> 0] /\ open = <<>>
-----------------------------------------------------------------------------
\* The number of the next connection, and the connections with and without one.
Fresh == CHOOSE c \in 1..Cardinality(DOMAIN open) + 1 : c \notin DOMAIN open
Opened(a) == [c \in DOMAIN open \cup {Fresh} |-> IF c \in DOMAIN open THEN open[c] ELSE a]
Closed(c) == [d \in DOMAIN open \ {c} |-> open[d]]

OfFamily(f) == IF f = "A" THEN V4 ELSE V6

\* The routes change with the network map, and may cover the node's own addresses; a
\* disconnect removes them.
RoutesChange ==
  /\ ts /\ changes < MaxChanges /\ changes' = changes + 1
  /\ \/ /\ \E a \in Addrs : route' \in {route \cup {a}, route \ {a}}
        /\ UNCHANGED ts
     \/ route' = {} /\ ts' = FALSE
  /\ UNCHANGED dialVars

\* A deadline passes, or whoever asked is gone.
Expires(r) ==
  /\ phase[r] \in Running /\ ~expired[r]
  /\ expired' = [expired EXCEPT ![r] = TRUE]
  /\ UNCHANGED <<netVars, phase, target, family, left, dnsConn, conn, open>>

\* dialTSNetPreferIPv4 up to its first step: resolverForTSNet may find a part of the
\* node missing; an address is dialled on three networks, which the embedded stack does
\* not tell apart.
Begin(r, t) ==
  /\ phase[r] = "idle" /\ ts
  /\ target' = [target EXCEPT ![r] = t] /\ expired' = [expired EXCEPT ![r] = FALSE]
  /\ \/ /\ phase' = [phase EXCEPT ![r] = "failed"]
        /\ UNCHANGED <<family, left>>
     \/ /\ t \in Names /\ phase' = [phase EXCEPT ![r] = "ask"]
        /\ family' = [family EXCEPT ![r] = "A"] /\ left' = [left EXCEPT ![r] = <<>>]
     \/ /\ t \in Addrs /\ phase' = [phase EXCEPT ![r] = "addresses"]
        /\ family' = [family EXCEPT ![r] = "literal"]
        /\ left' = [left EXCEPT ![r] = <<t, t, t>>]
  /\ UNCHANGED <<netVars, dnsConn, conn, open>>

\* The caller is done with the call and with its connection.
Finish(r) ==
  /\ phase' = [phase EXCEPT ![r] = "idle"] /\ target' = [target EXCEPT ![r] = DNSServer]
  /\ family' = [family EXCEPT ![r] = "A"] /\ left' = [left EXCEPT ![r] = <<>>]
  /\ expired' = [expired EXCEPT ![r] = FALSE] /\ conn' = [conn EXCEPT ![r] = 0]
  /\ UNCHANGED <<netVars, dnsConn>>

\* The loop of dialTailnetResolved goes on to AAAA, or the request has failed.
NextFamily(r) ==
  /\ phase' = [phase EXCEPT ![r] = IF family[r] = "A" THEN "ask" ELSE "failed"]
  /\ family' = [family EXCEPT ![r] = IF @ = "A" THEN "AAAA" ELSE @]
  /\ left' = [left EXCEPT ![r] = <<>>]

Fail(r) ==
  /\ phase' = [phase EXCEPT ![r] = "failed"]
  /\ UNCHANGED <<family, left>>

\* tailnetDNSAddresses keeps the records of the family that was asked for.
Records(answer, f) == answer \cap OfFamily(f)

\* probeTailnetDNS reports what it got, and the diagnostic goes on to the other record.
Probed(r) == NextFamily(r)

\* An answer is parsed: its addresses are tried in its order, or reported by a probe.
Resolved(r, answer) ==
  IF r \in Probes THEN Probed(r)
  ELSE /\ phase' = [phase EXCEPT ![r] = "addresses"]
       /\ \E order \in SetToSeqs(Records(answer, family[r])) :
            left' = [left EXCEPT ![r] = order]
       /\ UNCHANGED family

\* The route function of resolverForTSNet.
Routed(a) == a \in route /\ a \notin Self

\* Mutant: what route has accepted is dialled.
FirstTestStands(a) == TRUE

\* The same test at the start of dial.
StillRouted(a) == Routed(a)

\* readDNSNetmap fails or finds no node.
NoNetmap(r) == NextFamily(r)

\* localTailnetDNSAnswer: nodes or records of the network map have the name.
LocalAnswer(r) == target[r] \in Local /\ Resolved(r, Zone[target[r]])

\* queryDNSOverTailnet up to its route test: no other resolver is tried when the first
\* one is missing, of an unsupported kind or without a route.
FirstResolver(r) ==
  /\ target[r] \notin Local
  /\ \/ NextFamily(r)
     \/ /\ Routed(DNSServer)
        /\ phase' = [phase EXCEPT ![r] = "server"] /\ UNCHANGED <<family, left>>

\* The head of the loop of dialTailnetResolved, and Query.
Ask(r) ==
  /\ phase[r] = "ask"
  /\ \/ expired[r] /\ Fail(r)
     \/ ~expired[r] /\ (NoNetmap(r) \/ LocalAnswer(r) \/ FirstResolver(r))
  /\ UNCHANGED <<netVars, target, expired, dnsConn, conn, open>>

\* queryDNSOverTailnet calls dial, which looks at the routes again.
DialServer(r) ==
  /\ phase[r] = "server"
  /\ IF StillRouted(DNSServer)
     THEN phase' = [phase EXCEPT ![r] = "serverDial"] /\ UNCHANGED <<family, left>>
     ELSE NextFamily(r)
  /\ UNCHANGED <<netVars, target, expired, dnsConn, conn, open>>

\* The server accepts the connection, and the question is sent.
ServerAccepts(r) ==
  /\ phase[r] = "serverDial"
  /\ open' = Opened(DNSServer) /\ dnsConn' = [dnsConn EXCEPT ![r] = Fresh]
  /\ phase' = [phase EXCEPT ![r] = "answer"]
  /\ UNCHANGED <<netVars, target, family, left, expired, conn>>

\* Mutant: the response is taken for the answer to whatever was asked.
MatchesAny(r, name, record) == TRUE

\* The end of queryDNSOverTailnet: the question in the response is the one sent.
Matches(r, name, record) == name = target[r] /\ record = family[r]

\* A response arrives: an error code, or the records of some name, of both families.
ServerAnswers(r) ==
  /\ phase[r] = "answer"
  /\ open' = Closed(dnsConn[r]) /\ dnsConn' = [dnsConn EXCEPT ![r] = 0]
  /\ \E name \in Names, record \in Families :
       IF Matches(r, name, record)
       THEN NextFamily(r) \/ Resolved(r, Zone[name])
       ELSE NextFamily(r)
  /\ UNCHANGED <<netVars, target, expired, conn>>

\* The loop over the addresses, up to the route test of dialAddress.
NextAddress(r) ==
  /\ phase[r] = "addresses"
  /\ IF left[r] = <<>> THEN NextFamily(r)
     ELSE IF expired[r] THEN Fail(r)
     ELSE IF Routed(Head(left[r]))
          THEN phase' = [phase EXCEPT ![r] = "dial"] /\ UNCHANGED <<family, left>>
     ELSE left' = [left EXCEPT ![r] = Tail(@)] /\ UNCHANGED <<phase, family>>
  /\ UNCHANGED <<netVars, target, expired, dnsConn, conn, open>>

\* The dial function of resolverForTSNet: the routes are looked at again, and the node
\* needs an address of the family.
Dial(r) ==
  /\ phase[r] = "dial"
  /\ \/ StillRouted(Head(left[r])) /\ phase' = [phase EXCEPT ![r] = "dialing"] /\ UNCHANGED left
     \/ /\ phase' = [phase EXCEPT ![r] = "addresses"]
        /\ left' = [left EXCEPT ![r] = Tail(@)]
  /\ UNCHANGED <<netVars, target, family, expired, dnsConn, conn, open>>

\* DialContextTCPWithBind: the remote host accepts.
HostAccepts(r) ==
  /\ phase[r] = "dialing"
  /\ open' = Opened(Head(left[r])) /\ conn' = [conn EXCEPT ![r] = Fresh]
  /\ phase' = [phase EXCEPT ![r] = "connected"] /\ left' = [left EXCEPT ![r] = <<>>]
  /\ UNCHANGED <<netVars, target, family, expired, dnsConn>>

\* A dial or a read returns an error.
WaitFails(r) ==
  /\ phase[r] \in Waits
  /\ IF phase[r] = "dialing"
     THEN /\ left' = [left EXCEPT ![r] = Tail(@)]
          /\ phase' = [phase EXCEPT ![r] = "addresses"]
          /\ UNCHANGED <<family, dnsConn, open>>
     ELSE /\ NextFamily(r)
          /\ open' = Closed(dnsConn[r]) /\ dnsConn' = [dnsConn EXCEPT ![r] = 0]
  /\ UNCHANGED <<netVars, target, expired, conn>>

\* Mutant: the read of the answer does not look at the context.
ContextEndsDials(r) == expired[r] /\ phase[r] # "answer"

\* A context that has ended makes the dial return and closes the DNS connection.
ContextEnds(r) == expired[r]

GiveUp(r) == ContextEnds(r) /\ WaitFails(r)

Network(r) == ServerAccepts(r) \/ ServerAnswers(r) \/ HostAccepts(r) \/ WaitFails(r)
Step(r) == Ask(r) \/ DialServer(r) \/ NextAddress(r) \/ Dial(r) \/ GiveUp(r)
-----------------------------------------------------------------------------
\* A proxy, a viewer, a download or a diagnostic, which ends as Relay and Download say.
Start(r) == \E t \in Targets : Begin(r, t)

Return(r) ==
  /\ phase[r] \in {"connected", "failed"} /\ Finish(r)
  /\ open' = Closed(conn[r])
-----------------------------------------------------------------------------
\* The address belongs to what the request dials, and has the family it asked for last.
Fits(r, a) == IF target[r] \in Names THEN a \in Zone[target[r]] \cap OfFamily(family[r])
              ELSE a = target[r]

\* A connection that was dialled goes where its request meant to: to the address it
\* was given, or to one that belongs to its name and has the family that was asked for
\* last, also when the DNS server answers some other question; never to the node itself.
ConnectionsFit ==
  \A r \in Requests : phase[r] = "connected" =>
    Fits(r, open[conn[r]]) /\ open[conn[r]] \notin Self

\* No request begins to dial an address, of a host or of the DNS server, that is not
\* routed to a peer at that moment, although the routes may have changed, and the node
\* may have been disconnected, since the address was looked up and tested.
Begins(r, p) == phase[r] # p /\ phase'[r] = p
RoutesAreCurrent ==
  [][\A r \in Requests : /\ Begins(r, "serverDial") => DNSServer \in route
                         /\ Begins(r, "dialing") => Head(left'[r]) \in route]_<<netVars, dialVars>>

\* Every request with a deadline ends, however silent the DNS server and the hosts are.
DialsEnd == \A r \in Deadlined : phase[r] \in Running ~> phase[r] \notin Running
-----------------------------------------------------------------------------
\* Why ConnectionsFit holds: what a request has still to try is meant for it, and the
\* address that is being dialled is not the node's own.

AddressesFit(r) ==
  /\ phase[r] \in {"addresses", "dial", "dialing"} =>
       \A i \in DOMAIN left[r] : Fits(r, left[r][i])
  /\ phase[r] \in {"dial", "dialing"} => left[r] # <<>>
  /\ phase[r] = "dialing" => Head(left[r]) \notin Self

AddressInv == \A r \in Requests : AddressesFit(r)
=============================================================================
