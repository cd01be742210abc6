---------------------------- MODULE SshSessions -----------------------------
(***************************************************************************)
(* SSH terminals: handleSSHConnect and handleSSHAuthPassword dial through  *)
(* TailnetDial and run the SSH handshake on the connection; a session they *)
(* leave in pendingAuth waits for a password, one in sshConns for the      *)
(* WebSocket of the terminal (main.go, ws_terminal.go and the terminal     *)
(* part of frontend/index.html).  What a terminal transports is in Relay.  *)
(***************************************************************************)
EXTENDS TailnetDial

CONSTANTS
  Terminals,     \* the requests that are SSH terminals
  Hosts,         \* what terminals are opened for
  MaxSessions    \* bound on the session IDs given out

ASSUME SshAssumption ==
  /\ Terminals \subseteq Deadlined \ Probes /\ MaxSessions \in Nat
  /\ Hosts \subseteq Names \cup Addrs

VARIABLES
  screen,        \* what each terminal shows or waits for
  closed,        \* its tab is closed
  host,          \* the host it was opened for
  job,           \* what its request is for: "connect", "reconnect" or "password"
  session,       \* the ID of its session (data.tabId), or 0
  nextID,
  pendingAuth,   \* App.pendingAuth
  sshConns,      \* App.sshConns: session to connection
  attached       \* the running WebSocket handlers: session to connection

shellVars == <<screen, closed, host, job, session>>
sshVars == <<nextID, pendingAuth, sshConns, attached>>
vars == <<netVars, dialVars, shellVars, sshVars>>

IDs == 1..MaxSessions
Jobs == {"connect", "reconnect", "password"}

TypeOK ==
  /\ DialTypeOK
  /\ screen \in [Terminals -> {"new", "waiting", "prompt", "attaching", "attached", "offer"}]
  /\ closed \in [Terminals -> BOOLEAN] /\ host \in [Terminals -> Hosts]
  /\ job \in [Terminals -> Jobs] /\ session \in [Terminals -> 0..nextID - 1]
  /\ nextID \in Nat \ {0} /\ pendingAuth \subseteq 1..nextID - 1
  /\ DOMAIN sshConns \subseteq 1..nextID - 1 /\ DOMAIN attached \subseteq 1..nextID - 1
  /\ \A s \in DOMAIN sshConns : sshConns[s] \in Nat
  /\ \A s \in DOMAIN attached : attached[s] \in Nat

Init ==
  /\ DialInit
  /\ screen = [t \in Terminals |-> "new"] /\ closed = [t \in Terminals |-> FALSE]
  /\ host \in [Terminals -> Hosts] /\ job = [t \in Terminals |-> "connect"]
  /\ session = [t \in Terminals |-> 0] /\ nextID = 1 /\ pendingAuth = {}
  /\ sshConns = <<>> /\ attached = <<>>
-----------------------------------------------------------------------------
Without(f, s) == [x \in DOMAIN f \ {s} |-> f[x]]
With(f, s, c) == [x \in DOMAIN f \cup {s} |-> IF x = s THEN c ELSE f[x]]

\* The shell posts a request: it dials, or is refused without a node.
Post(t, kind) ==
  /\ job' = [job EXCEPT ![t] = kind]
  /\ \/ Begin(t, host[t]) /\ screen' = [screen EXCEPT ![t] = "waiting"]
     \/ /\ phase[t] = "idle" /\ ~ts
        /\ screen' = [screen EXCEPT ![t] = "offer"] /\ UNCHANGED <<netVars, dialVars>>
  /\ UNCHANGED <<closed, host, session, sshVars>>

\* The bound on sessions, with those that the requests under way may need.
RoomForSession ==
  nextID + Cardinality({t \in Terminals : screen[t] = "waiting" /\ job[t] # "password"})
    <= MaxSessions

\* openTerminal
OpenTerminal(t) ==
  RoomForSession /\ screen[t] = "new" /\ ~closed[t] /\ Post(t, "connect")

\* showReconnect and reconnectTerminal: the user presses Enter.
Reconnect(t) ==
  RoomForSession /\ screen[t] = "offer" /\ ~closed[t] /\ Post(t, "reconnect")

\* The user enters a password at the prompt, once; submitPassword.  An empty one, or one
\* for a session that does not wait, is refused.
EnterPassword(t) ==
  /\ screen[t] = "prompt" /\ ~closed[t]
  /\ \/ session[t] \in pendingAuth /\ Post(t, "password")
     \/ /\ screen' = [screen EXCEPT ![t] = "offer"]
        /\ UNCHANGED <<netVars, dialVars, closed, host, job, session, sshVars>>

\* Mutant: the error of a failed dial is not shown.
FailedScreenSilent(t) == "waiting"

\* An error response: the shell offers to reconnect.
FailedScreen(t) == "offer"

\* The dial failed, and with it the request.
DialFailed(t) ==
  /\ phase[t] = "failed" /\ Finish(t)
  /\ screen' = [screen EXCEPT ![t] = FailedScreen(t)]
  /\ job' = [job EXCEPT ![t] = "connect"]
  /\ UNCHANGED <<open, closed, host, session, sshVars>>

\* The handler has its connection and gives it away, or closes it.
Handled(t) ==
  /\ phase[t] = "connected" /\ Finish(t) /\ job' = [job EXCEPT ![t] = "connect"]
  /\ UNCHANGED <<closed, host>>

\* handleSSHConnect: a stored key is accepted.
KeyAccepted(t) ==
  /\ job[t] # "password"
  /\ Handled(t) /\ nextID' = nextID + 1
  /\ sshConns' = With(sshConns, nextID, conn[t])
  /\ session' = [session EXCEPT ![t] = nextID]
  /\ screen' = [screen EXCEPT ![t] = "attaching"]
  /\ UNCHANGED <<open, pendingAuth, attached>>

\* Mutant: the connection of a failed handshake stays open.
AfterRefusalOpen(t) == open

AfterRefusal(t) == Closed(conn[t])

\* handleSSHConnect: there is no key, none is accepted, the host key does not match or
\* the connection breaks.  openTerminal asks for the password; reconnectTerminal takes
\* the session for one that is connected.
KeyRefused(t) ==
  /\ job[t] # "password"
  /\ Handled(t) /\ nextID' = nextID + 1 /\ open' = AfterRefusal(t)
  /\ pendingAuth' = pendingAuth \cup {nextID}
  /\ session' = [session EXCEPT ![t] = nextID]
  /\ screen' = [screen EXCEPT ![t] = IF job[t] = "connect" THEN "prompt" ELSE "attaching"]
  /\ UNCHANGED <<sshConns, attached>>

\* Mutant: the answered prompt stays in the map.
AnsweredKept(s) == pendingAuth

Answered(s) == pendingAuth \ {s}

\* handleSSHAuthPassword: the password is accepted.
PasswordAccepted(t) ==
  /\ job[t] = "password" /\ Handled(t)
  /\ pendingAuth' = Answered(session[t])
  /\ sshConns' = With(sshConns, session[t], conn[t])
  /\ screen' = [screen EXCEPT ![t] = "attaching"]
  /\ UNCHANGED <<open, session, nextID, attached>>

\* handleSSHAuthPassword: it is refused, and the session stays pending.
PasswordRefused(t) ==
  /\ job[t] = "password" /\ Handled(t) /\ open' = AfterRefusal(t)
  /\ screen' = [screen EXCEPT ![t] = FailedScreen(t)]
  /\ UNCHANGED <<session, sshVars>>

\* ssh.NewClientConn returns.
Handshake(t) ==
  KeyAccepted(t) \/ KeyRefused(t) \/ PasswordAccepted(t) \/ PasswordRefused(t)

\* connectWebSocket and the start of handleSSHWebSocketFull: the handler has a client,
\* or the socket is refused and its onclose offers to reconnect.
Attach(t) ==
  /\ screen[t] = "attaching"
  /\ \/ /\ session[t] \in DOMAIN sshConns
        /\ attached' = With(attached, session[t], sshConns[session[t]])
        /\ screen' = [screen EXCEPT ![t] = "attached"]
     \/ screen' = [screen EXCEPT ![t] = "offer"] /\ UNCHANGED attached
  /\ UNCHANGED <<netVars, dialVars, closed, host, job, session, nextID, pendingAuth, sshConns>>

\* The socket closes, also with its tab, while the handler waits for the remote program.
SocketCloses(t) ==
  /\ screen[t] = "attached" /\ screen' = [screen EXCEPT ![t] = "offer"]
  /\ UNCHANGED <<netVars, dialVars, closed, host, job, session, sshVars>>

\* The handler returns, at once when the PTY cannot be set up: the deferred function
\* forgets and closes the client, and the socket closes.
SessionEnds(s) ==
  /\ s \in DOMAIN attached
  /\ attached' = Without(attached, s) /\ sshConns' = Without(sshConns, s)
  /\ open' = Closed(attached[s])
  /\ screen' = [t \in Terminals |->
                  IF session[t] = s /\ screen[t] = "attached" THEN "offer" ELSE screen[t]]
  /\ UNCHANGED <<netVars, phase, target, family, left, expired, dnsConn, conn, closed, host,
                 job, session, nextID, pendingAuth>>

\* closeTab: the terminal is disposed of and takes no more input.  What it has asked
\* for goes on.
CloseTab(t) ==
  /\ ~closed[t] /\ closed' = [closed EXCEPT ![t] = TRUE]
  /\ UNCHANGED <<netVars, dialVars, screen, host, job, session, sshVars>>
-----------------------------------------------------------------------------
User(t) == OpenTerminal(t) \/ Reconnect(t) \/ EnterPassword(t) \/ CloseTab(t)

\* One after the other.
Serve(t) == DialFailed(t) \/ Handshake(t) \/ Attach(t)

Dialling ==
  \/ RoutesChange
  \/ \E r \in Requests : Expires(r) \/ Step(r) \/ Network(r)
  \/ \E r \in Requests \ Terminals : Start(r) \/ Return(r)

Next ==
  \/ Dialling /\ UNCHANGED <<shellVars, sshVars>>
  \/ \E t \in Terminals : User(t) \/ Serve(t) \/ SocketCloses(t)
  \/ \E s \in IDs : SessionEnds(s)

\* Goroutines go on, a context that has ended cuts off what waits, and deadlines pass,
\* but the network may stay silent.  Handlers that have an answer give it, the shell opens
\* the socket it was answered for, and an SSH server completes its handshake or hangs up.
Fairness ==
  /\ \A r \in Requests :
       /\ WF_vars(Step(r) /\ UNCHANGED <<shellVars, sshVars>>)
       /\ r \in Deadlined => WF_vars(Expires(r) /\ UNCHANGED <<shellVars, sshVars>>)
  /\ \A t \in Terminals : WF_vars(Serve(t))

Spec == Init /\ [][Next]_vars /\ Fairness
-----------------------------------------------------------------------------
\* Every open connection is still known: to the request that is at work on it, to
\* sshConns or to the handler of a terminal; and sshConns holds no client that was
\* closed.  No failed handshake, answer, error or repeated login leaks one.  (A client
\* in sshConns whose terminal never attached is known and yet stays open.)
ConnectionsAreOwned ==
  DOMAIN open = ({dnsConn[r] : r \in Requests} \cup {conn[r] : r \in Requests}
                   \cup {sshConns[s] : s \in DOMAIN sshConns}
                   \cup {attached[s] : s \in DOMAIN attached}) \ {0}

\* A session waits for a password or has a client, never both, and a client that serves
\* a terminal is the one that sshConns knows: a prompt is answered once.
PendingOrConnected ==
  /\ pendingAuth \cap DOMAIN sshConns = {}
  /\ \A s \in DOMAIN attached : s \in DOMAIN sshConns /\ sshConns[s] = attached[s]

\* A terminal that has asked for something is answered: with a prompt, a session or an
\* offer to try again.
TerminalsAnswer ==
  \A t \in Terminals : screen[t] \in {"waiting", "attaching"} ~>
                         screen[t] \in {"prompt", "attached", "offer"}

\* A terminal is only attached to a session that does not wait for a password: when the
\* keys are refused, the user is asked for it.
AsksForPassword ==
  \A t \in Terminals : screen[t] = "attaching" => session[t] \notin pendingAuth
-----------------------------------------------------------------------------
\* Why they hold: the inductive invariant of the proofs.

\* A connection of a request is there exactly while it waits for its answer or for the
\* handler that dialled it.
PhaseInv ==
  \A r \in Requests : /\ dnsConn[r] # 0 <=> phase[r] = "answer"
                      /\ conn[r] # 0 <=> phase[r] = "connected"

\* Every connection has an owner, every owner's connection is open, and no connection
\* has two, so that closing one takes it from nobody else.
OwnerInv ==
  /\ IsFiniteSet(DOMAIN open)
  /\ \A c \in DOMAIN open : \/ \E r \in Requests : c \in {dnsConn[r], conn[r]}
                            \/ \E s \in DOMAIN sshConns : c = sshConns[s]
  /\ \A r \in Requests : {dnsConn[r], conn[r]} \subseteq DOMAIN open \cup {0}
  /\ \A s \in DOMAIN sshConns : sshConns[s] \in DOMAIN open
  /\ \A r, q \in Requests :
       /\ dnsConn[r] = dnsConn[q] => r = q \/ dnsConn[r] = 0
       /\ conn[r] = conn[q] => r = q \/ conn[r] = 0
       /\ dnsConn[r] = conn[q] => conn[q] = 0
  /\ \A s \in DOMAIN sshConns :
       /\ \A u \in DOMAIN sshConns : sshConns[s] = sshConns[u] => s = u
       /\ \A r \in Requests : sshConns[s] \notin {dnsConn[r], conn[r]}

\* A session belongs to one terminal, and waits for its password while that is tried.
SessionInv ==
  \A t \in Terminals :
    /\ \A u \in Terminals : session[t] = session[u] => t = u \/ session[t] = 0
    /\ phase[t] # "idle" /\ job[t] = "password" => session[t] \in pendingAuth

\* The inductive invariant beyond TypeOK.
IInv ==
  AddressInv /\ PhaseInv /\ OwnerInv /\ SessionInv /\ PendingOrConnected /\ ConnectionsFit
=============================================================================
