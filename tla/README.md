# womprat: TLA+ models, model checking and proofs

womprat (`cmd/womprat`) is a browser with a built-in Tailscale node: one Go
process that runs an embedded `tsnet` server, a local HTTP API, SOCKS and HTTP
proxies, SSH, VNC and RDP sessions over the tailnet, and a window whose shell
is a web page (`frontend/index.html`) and whose tabs are native WebViews (WebKitGTK on
Linux, WebView2 on Windows). This directory holds specifications of the parts
whose correctness depends on the order of things, the TLC runs that check them
on small instances, and TLAPS proofs of the most important results for every
size of the system.

Everything is checked against the source under `src/`; `PROJECT.json` maps every
definition to the lines it models, names the runs, the mutants that show a
property can fail, the hazards and the theorems.

## 1. Inventory

| Component | State | Operations | Interacts with | What is hard |
|---|---|---|---|---|
| Tailscale life cycle (`main.go`, `settings_api.go`) | `tsServer`, `tsStartMu`, retry worker (`tsRetryCancel`, `tsRetryDone`), stored key | start, retry with back-off, disconnect, key change, unlock, shutdown | exit node, unlock gate, every dialer | two starts at once; a worker cancelled in the middle of a start; joins under locks |
| Exit node (`exit_node_recovery.go`, `exit_node_preferences.go`, `settings_api.go`) | `config.ExitNode`, `exitNodeActive`, tsnet's own preferences, recovery worker | select, clear, apply-verify-rollback, reapply after a failure | life cycle, settings | two writers of the preferences; half-done changes; lost requests for recovery |
| Settings (`config.go` and all settings handlers) | `App.config`, `config.enc`, `configSaveMu`, master hash | clone, edit, save (temp file and rename), commit | tabs, SSH host keys, exit node, history | lost updates, failed saves, crashes, an unreadable file |
| Downloads (`download.go`, `download_cookie.go`) | the one slot (`downloadStarting`, `currentDownload`), tickets, files | reserve, ticket, choose a path, fetch, clean up | tailnet, file system, other programs | check-then-act on the slot and on paths, clean-up after the slot is free |
| Windows host (`gui_windows.go`, `native_content_windows.go`, `internal/go-webview2`) | dispatch queue, message queue, child windows and views, layout of the shell | bindings, `Dispatch`, `Ensure`, `Show`, `HideAll`, `Destroy`, `Embed` | tabs, shell, WebView2 | a second message loop inside `Embed`: everything is re-entered in the middle of a creation |
| Tabs and views on Linux (`main.go`, `gui_linux.go`, `webkit_linux.c`) | `tabs`, `activeTab`, saved session; GTK queue, native views | open, close, switch, reorder, register, restore, popup | shell, settings | goroutine per message, one UI thread, two sources of truth |
| Certificate exceptions (`certificate.go`, both hosts) | `certificateDecision` (current, pending, grant), kept certificate, the shell's button | error, offer, click, approve, clear | engine, shell, tabs | stale buttons, redirects, consent used for something else |
| SSH sessions and terminals (`main.go`, `ws_terminal.go`) | `sshConns`, `pendingAuth`, pinned host keys; the prompts of the shell | connect, authenticate by key or password, attach, reconnect, detach | settings, tailnet, DNS | handshakes that fail half way, two answers to a prompt, who closes a client |
| VNC and RDP bridges (`vnc.go`, `rdp.go`) | a connection per WebSocket, a context | set up, relay, close | tailnet | a loop left behind when the other ends |
| SOCKS and HTTP proxies (`socks.go`, `browser_proxy_linux.go`) | listener, connections | accept, dial, relay, stop | tailnet, DNS | half-closed streams, set-up that fails half way |
| DNS and dialling (`dns_policy.go`, `dns_local.go`, `dns_diagnostic.go`, `tailnet_dns*.go`) | a request's addresses and deadline | look a name up in the network map or ask the selected server, try every address | tailnet, every dialer | silent servers, answers to other questions, routes that change between check and use |
| Machine key (`crypto*.go`) | `machine.key` | load or create, encrypt, decrypt | settings | two processes that create the key |
| Frontend (`frontend/index.html`) | tab strip, mutation queue, certificate button | user actions | all of the API | acts on what it was last told |
| Diagnostics, logging, address bar, profile | text | formatting, parsing | – | – |
| Vendored `third_party/go-rdp`, `internal/go-webview2` | – | – | – | third-party code |

What makes them correct, in the same order: at most one tsnet server runs, a
published one is alive, a disconnect is final and nothing blocks for ever; the
recovery worker never writes an old choice; the file and memory agree between
saves, whatever fails, and a trusted host key stays pinned; downloads run one at
a time and touch no one else's file; tab list, saved session and views agree
once nothing is in flight, and a closed tab comes back only where the shell shows it;
an exception is only ever
given for the tab, address and certificate that the user was shown and clicked;
a relayed stream arrives whole while both peers are there, and a relay leaves
neither a socket nor a goroutine behind. On Windows no window is left over, the
layout fits the view on the screen, which ends as that of the active tab, and the one GUI thread never blocks; a dial ends by its
deadline and reaches only an address of the name it was for; every SSH connection is
accounted for, and a session has a prompt or a client, not both.

## 2. Modules

| Module | Role |
|---|---|
| `Tailnet` | life cycle, retry and recovery workers, exit node, unlock gate, shutdown |
| `TailnetProofs` | its theorems |
| `AtomicConfig` | what the settings promise: one durable configuration, changed atomically |
| `ConfigStore` | the settings handlers; refines `AtomicConfig` |
| `ConfigStoreProofs` | its theorems, the refinement included |
| `Download` | download handlers, goroutines, tickets, the Downloads directory |
| `DownloadProofs` | its theorems |
| `Tabs` | tab list, saved session, GTK queue and native views on Linux |
| `TabsProofs` | its theorems |
| `WindowsViews` | the GUI thread of Windows: both message loops, the dispatch queue, views, windows, layout |
| `WindowsProofs` | its theorems |
| `TailnetDial` | name lookup and dialling over the tailnet, with routes that change |
| `SshSessions` | SSH terminals on top of `TailnetDial`, which it extends |
| `SshProofs` | the theorems of both |
| `Consent` | what a certificate exception promises |
| `Certificate` | the decision, both engines' events, the shell's button; refines `Consent` |
| `CertificateProofs` | its theorems, the refinement included |
| `Relay` | a connection through the SOCKS5 or HTTP proxy, a viewer or a terminal |
| `RelayProofs` | its theorems |
| `MCTailnet`, `MCConfigStore`, `MCDownload`, `MCTabs`, `MCCertificate`, `MCRelay`, `MCWindows`, `MCSsh` | instances for TLC |

`SshSessions` composes the dialler with the SSH handlers and the shell's terminals, and
runs the DNS diagnostic beside them. The other modules meet at the settings
(`configSaveMu` is a variable in `Tailnet`, `ConfigStore` and `Tabs`, each with the
handlers that matter to it), at the tab (`Tabs`, `WindowsViews` and `Certificate`) and at
the dialled connection (`TailnetDial` ends where `Relay` and `Download` begin).
Definitions marked "Mutant" are plausible errors in the definition that follows
them; nothing in the specifications uses them.

### Tailnet

Every goroutine is a process with a program counter `pc` and locals: two HTTP
handlers (a parameter), `main`, and the workers `scheduleTailscaleRetry` and
`scheduleExitNodeRecovery` start. A section under `mu`, `tsRetryMu` or `exitRetryMu` is
one step. `tsStartMu` and `configSaveMu` are held across calls of tsnet, so they
are variables; `TryLock` of the recovery worker is a guard. A worker's `done`
channel is the set of processes that wait for it. A tsnet server is named by the
process that created it; `live` is what is running, `tsServer` what is published,
`route` the exit node in tsnet's persisted preferences (external, modelled from the
calls `EditPrefs`, `GetPrefs`, `Up`, `Close`).

| Code | Actions |
|---|---|
| `startTailscaleContext` | `StopRecovery("stop0")`, `StartLock`, `StartClose`, `StartUp`, `StartUpFails`, `StartUpSucceeds`, `StartReadExit`, `RefreshRead`, `RefreshCommit`, `ConfiguredApplied`, `ScheduleRecovery` |
| `scheduleTailscaleRetry`, `stopTailscaleRetry` | `ScheduleRetry`, `RetryWait`, `RetryCleanup`, `StopTailscaleRetry` |
| `scheduleExitNodeRecovery`, `stopExitNodeRecovery` | `ScheduleRecovery`, `RecoveryTry`, `RecoveryStopped`, `RecoveryCleanup`, `StopRecovery` |
| `applyAndVerifyExitNode` | `ApplyRead`, `ApplyEdit` (`ExitNodePreference`), `ApplyVerify` (`EffectiveExitNode`) |
| `handleExitNode` | `ExitNodeLock`, `ExitNodeSave`, `ExitNodeRefused`, `ExitNodeRolledBack` |
| `handleUnlock`, `handleSaveKey`, `handleSetTailscaleKey`, `handleTailscaleDisconnect` | `Request`, `SaveKey`, `DisconnectLock`, `DisconnectClose` |
| `shutdown` | `Shutdown`, then the actions of a disconnect |

### ConfigStore

`Begin` takes `configSaveMu`, clones `App.config` and edits the clone;
`SaveSucceeds` writes the normalised clone to the file; `SaveFails` leaves
everything alone; `Commit` takes the changed part to memory. `Crash` may happen
between any two of these, `Start` loads the file again, and `StartUnreadable` is the
start with a file that cannot be read. One action per handler says who may run it
(behind the unlock gate or not) and with what value. `trusted` records which host
keys a handshake has accepted; it is the only history variable.

### Download

`Reserve`, `ConsumeTicket`, `ChoosePath`, `Publish` are the steps of
`handleDownload`, with `Refuse` for its deferred release; `Goroutine(d)` are the
stages of `downloadToFile`, with the file's creation, the end of the copy, the
close, and the removal as steps of their own. Other programs create and delete files,
`MaxUserChanges` times. `Exit` is the end of the
program. A file is its owner and whether it is whole.

### Tabs

A message of the shell runs its first locked section at once and is left with a
`todo` list: persist, dispatch to the GTK thread, the second locked section of
`registerLocalTab`, or the tail of `closeTab`. `Step` runs the first of them. The GTK
thread runs its `queue` in order; a popup runs `newBrowserTab` on that thread, or has an address that is refused. `SaveConfig` normalises what it writes: `savedTabs`, the file,
gets the `Sanitized` list and `openTabs`, the memory, the raw one. `gone` and `saveOK` are
history.

The shell is modelled as far as it decides which tabs come and go: `shellTabs` are those it
shows, `mutations` the queue of `queueNativeTabMutation`, and `mutating` that the next
has to wait for the reply to the last. A click (`ClickTab`, `ClickNewTab`) queues a
mutation, `SendMutation` sends the oldest. `Show` is `showBrowserTab`, which the program
evaluates in the shell after the save of a navigation or of a new tab: the shell adds a tab
it does not know and registers it, so a tab may be closed in one of the two lists while
the other is about to show it. `registerLocalTab` refuses no ID.

| Code | Definitions |
|---|---|
| `newBrowserTab`, `newTerminalTab`, `newVNCTab`, `newRDPTab`, `openSettingsTab`, `navigateBrowser`, `updateActiveBrowserTitle`, `switchTab` | the actions of the same names (`NewRemoteTab` for the three) |
| `reorderTab`, `forgetTab`, `closeTab`, `registerLocalTab`, `clearActiveTab` | sent by `SendMutation`: `ReorderTab`, `ForgetTab`, `CloseTab`, `CloseNothing`, `RegisterLocalTab`, `ClearActiveTab`; then `EndRegister`, `EndClose` |
| `persistOpenTabs`, `SaveConfig`, `handleSaveTabs` | `BeginPersist`, `EndPersist`, `HandleSaveTabs` |
| `shellTabs`, `hydrateNativeTabs` | `ShellTabs` |
| `dispatch`, `drainQueue`, `closeQueue` | `QueueWork`, `RunQueued`, `RunPopup`, `CloseWindow` |

### WindowsViews

One thread does everything, so the actions are what it does between two calls of
`GetMessage`. `Run` and `Chromium.Embed` both call it: `embedding` says which of the two
the thread is in, and `Waiting` that it is there. `calls` are the messages of the shell
to its bindings, `app` the posted `WM_APP`, `dispatchq` the functions that only `Run`
takes (`TakeApp`) and runs (`batch`); the loop of `Embed` drops the message (`DropApp`).
A function is reduced to what it does to the views: open, select, hide, destroy, or a
script for the shell. `Show` makes a tab the manager's active one whether or not `Ensure`
has made its view: `unmade` says that it has not. `registerLocalTab` makes a
tab active and shows or hides nothing: `unshown` says that this is how the active tab came
about (a new terminal, VNC or RDP tab over a page, or a page that was closed and comes
back), until something is shown again.

| Code | Definitions |
|---|---|
| `msgcb`, `callbinding`, `MessageReceived` | `MessageReceived`, `Call` |
| the bindings of `runGUI` and the tab functions of `App` | `NewBrowserTab`, `NavigateBrowser`, `SwitchTab`, `ShowShell`, `RegisterLocalTab`, `RegisterClosedTab`, `CloseTab`, `ForgetTab`, `SetChromeHeight`, `UseActiveView` |
| `hostWndProc` | `HostResized`, `HostDestroyed` |
| `Run` | `TakeApp`, `RunFunction`, `RunEnds` |
| `Ensure`, `newNativeContentView` | `CreateView`, `CreateFails`, `EmbedSucceeds`, `EmbedFails`, `FailedWindows` |
| `Embed`, `EnvironmentCompleted`, `CreateCoreWebView2ControllerCompleted` | `Asked`, `DropApp`, `EmbedQuits`, `EnvironmentCompleted`, `ControllerCompleted` |
| `Show`, `HideAll`, `Destroy`, `resizeAll` | `Show`, `ShownWindows`, `DestroyedWindows`, `DestroyedLayout`, `Resized` |

A mutex that the thread already holds is `blocked`; `HeldWhileEmbedding` is the question
whether `Ensure` keeps its mutex while the nested loop runs.

### TailnetDial and SshSessions

A request is one call of `dialTSNetPreferIPv4`, or the DNS diagnostic, which only asks.
`phase` is where it is; the phases of `Waits` are those in which only the network or
the context can move it on. The routes that `UseNetstackForIP` knows (`route`), the node's
own addresses among them, change at any time and disappear with the node, so they may be
gone between a test and its use; `StillRouted` is the second test, at the dial itself.
A DNS server may answer for any name and record, or not at all. A connection is a
number with the address it goes to; `open` are those not closed.

A terminal of `SshSessions` is such a request whose target is its host. `screen` is what
the shell shows for it, `session` the ID that it got; `pendingAuth`, `sshConns` and
`attached` (the running WebSocket handlers) are the maps of the program.

| Code | Definitions |
|---|---|
| `resolverForTSNet`, `dialTailnetResolved` | `Begin`, `NextFamily`, `NextAddress`, `Routed`, `StillRouted`, `Dial`, `HostAccepts`, `WaitFails`, `GiveUp` |
| `Query`, `localTailnetDNSAnswer`, `queryDNSOverTailnet` | `Ask`, `NoNetmap`, `LocalAnswer`, `FirstResolver`, `DialServer`, `ServerAccepts`, `ServerAnswers`, `Matches`, `Records` |
| `handleDNSDiagnostic`, `probeTailnetDNS` | `Start`, `Probed`, `Return` |
| `handleSSHConnect` | `Post`, `DialFailed`, `KeyAccepted`, `KeyRefused` |
| `handleSSHAuthPassword` | `EnterPassword`, `PasswordAccepted`, `PasswordRefused` |
| `handleSSHWebSocketFull` | `Attach`, `SessionEnds` (what it transports is in `Relay`) |
| terminals of the shell | `OpenTerminal`, `Reconnect`, `SocketCloses`, `CloseTab` |

### Certificate

One `certificateDecision` per tab; `Starting`, `Finished`, `Failed`,
`TLSFailedLinux`, `TLSErrorWindows`, `TLSDiagnostic` are the engine's events,
`Navigate` the toolbar, `Click` the user. `evals` and `calls` are the two queues
between the program and the shell, so a button and a click may be stale.
`certificate` is what the C side of the Linux host keeps. On Linux the approval is
given when the click is handled; on Windows when the next load fails the same
way (`Granted`). The engine is external: it reports any certificate for any load,
and no error for a host and certificate it has an exception for.

### Relay

One connection is one behaviour, of the `kind` chosen in `Init`: seven kinds with the
same life and different rules at its end. `stage` is where the handler is, `pc` where
its two loops are, `sock` our socket to either end (`shut` is half-closed), `peer` the
end itself (`fin` has finished sending, `gone` has left). Chunks are counted as sent,
read (`got`) and delivered.

| Code | Definitions |
|---|---|
| greeting, credentials, checks, dial, reply, hijack, PTY | `Hello`, `Refuse`, `Dialled`, `SetupFails`, `SetupDone` |
| `relay`, `writeFull`, `io.Copy` and the loops of the viewers and the terminal | `CheckContext`, `ReadChunk`, `ReadEnds`, `WriteChunk`, `SkipChunk`, `WriteFails` |
| end of a loop in `handleSOCKS5WithDial` | `SocksEnded`: half-close the destination |
| in a CONNECT tunnel | `TunnelEnded`: pass on the end of the upload, close both after the download |
| in an upgraded request | `UpgradeEnded`: either end closes |
| in `handleSSHWebSocketFull` | `TerminalEnded`: close stdin; `HandlerEnds` waits for the program too |
| in `handleVNCWebSocket`, `handleRDPWebSocket`, a plain request | `HandlerReturns` when the loop is the handler, else the context is cancelled |
| `context.AfterFunc`, the stop function of `startBrowserProxy` | `StopCancel`, `ProxyStops` |
| net/http's background read (external) | `RequestAbandoned` |

## 3. Runs

| Run | Instance | Shows |
|---|---|---|
| `tailnet` | 2 handlers, main, both workers, 1 exit node, all five requests, 2 requests | `OneLiveServer`, `PublishedIsLive`, `DisconnectIsFinal`, `LockedMeansDown`, `RecoveryWritesSavedChoice`, the inductive invariant `IInv` |
| `tailnet_live` | the same, key changes and disconnects, started with a key and a saved exit node | every request is answered (`RequestsEnd`), closing the window ends the program (`ShutdownEnds`) |
| `config` | 2 workers, 1 host, 2 keys, lists of 2 with 3 entries, 4 requests, any crashes | `FileHoldsMemory`, `TrustIsPinned`, `HiddenStays`, refinement `SavesAreAtomic` |
| `download` | 2 handlers, 2 downloads, 2 URLs with one file name, 1 ticket, 1 file created or deleted by others | `OneDownload`, `CookiesFollowTicket`, `PartialIsOwned`, `WholeFilesStay`; under fairness `DownloadEnds`, `SlotIsReleased` |
| `tabs` | 2 goroutines and the GTK thread, 3 tab IDs, 3 messages or popups, 1 address, 1 saved tab, 2 tabs in a saved session, the shell's own saves | `ActiveIsOpen`, `SessionIsSaved`, `OnlyShownReturn`; under fairness `WorkEnds` |
| `tabs_orphan` | 2 goroutines, 3 messages, without popups | *violated*: `ViewsAreOpen` |
| `certificate` | both platforms, 2 tabs, 2 addresses of one host and a third spelling, 3 certificates (1 revoked), 2 tokens, 3 loads, 2 clicks | refinement `ConsentIsBound`, `RevokedStayBlocked`, `IInv` |
| `relay` | all seven kinds, 3 chunks each way | `NothingTruncated`, `EndedIsClosed`; under fairness `RelayEnds`, `NoLoopLeft` |
| `windows` | 2 tabs, 4 calls of the shell, the window may be closed at any time | `WindowsAreOwned`, `ManagerFollowsApp`, `LayoutFollowsViews`, `ViewsAreOpen`; under fairness `CallsAreHandled` |
| `windows_quit` | 1 call | *violated*: `QuitEndsRun` |
| `ssh` | 1 terminal and 1 DNS diagnostic, a name of the network map, a name of the DNS server and an address, both families, 1 change of the routes, 2 sessions | `ConnectionsFit`, `ConnectionsAreOwned`, `PendingOrConnected`, `RoutesAreCurrent`; under fairness `DialsEnd`, `TerminalsAnswer` |
| `ssh_reconnect` | 1 terminal | *violated*: `AsksForPassword` |

Why the bounds are enough: two actors are the least that race, and every race
described in the hazards is between two; with two requests in `tailnet` the second
meets every state of the first, and the workers add two more concurrent actors.
`config` needs four requests to fill a list of two, overflow it and save once more
from another worker. Two downloads with one name are needed to collide; a third
would meet the same states. In `tabs` three messages are a navigation, a close and what is
shown or registered between them, and with a limit of two for the saved session three tabs
pass it. In `certificate` two tokens are an old and a new
prompt, three loads an error, a redirect and the approved reload. In `relay` three
chunks are the client's first message, one delivered and one on its way. In `windows`
four calls are enough to open two tabs, and to close and reopen one of them in the
nested loop. In `ssh` two sessions are an old and a reconnected one; one change of the
routes comes before, between and after every test and its use. What does not
depend on the bounds is proved (section 5).

The type invariants are not listed in the runs: `TypeOK` is proved for `Tailnet`,
`Certificate`, `Download`, `Tabs`, `WindowsViews` and `SshSessions`, is part of the
reasoning in the other proofs, and was checked with TLC for every module while it was
written. So were the inductive invariants that no run lists, those of `ConfigStore`, `Download`,
`Relay`, `Tabs`, `WindowsViews` and `SshSessions`, before they were proved.

Deadlock is checked in `Tailnet`, `ConfigStore` and `Download`. `Tabs`, `Certificate`,
`Relay`, `WindowsViews` and `SshSessions` may stop: all messages, loads, clicks, calls,
sessions and chunks of the bound are used up, or the connection or the program is over.

Each property has a mutant, a plausible error in a mapped definition under which
TLC finds the property violated: for example, a missing join in
`stopTailscaleRetry` (`DisconnectIsFinal`), a missing `O_EXCL` (`WholeFilesStay`), or a
grant that ignores the certificate (`ConsentIsBound`).

### Fairness

- `Tailnet`: goroutines are scheduled (weak fairness of each process); every call of
  tsnet ends, because `Up` and the preference calls have deadlines, and timers
  fire; a `sync.Mutex` goes to a waiter that has waited for 1 ms (starvation mode),
  which is strong fairness of taking it. The recovery worker uses `TryLock`, which
  promises nothing, so it gets none. Nothing makes a user act.
- `Download`: handlers and goroutines are scheduled; a fetch ends because the client
  has a timeout of five minutes.
- `Tabs`: goroutines, the GTK main loop and the shell's promises are scheduled; the mutex
  as above.
- `WindowsViews`: `GetMessage` delivers every message in its turn, the thread goes on
  with what it has taken, and WebView2 answers a request for an environment or a
  controller. Nothing makes the shell call or the user close the window.
- `SshSessions`: goroutines go on; a deadline passes (ten seconds for an SSH dial, twelve
  for a diagnostic) and cuts off whatever waits, but neither a host nor a DNS server ever
  has to answer. An SSH server completes its handshake or hangs up: that is an assumption
  on the server, because `ssh.NewClientConn` has no deadline. Requests without a deadline
  (VNC, RDP and plain proxy requests) are outside `Deadlined` and nothing is claimed of them.
- `Relay`: goroutines are scheduled; a dial ends (`socksDialTimeout`; the viewers rely
  on the time-out of TCP itself), and so does a write, because a peer that is there
  reads what it is sent. Nothing makes a peer send, finish or leave.

## 4. Where the code does not do what is said

Three runs show a disagreement, recorded as findings:

1. `tabs_orphan`: `switchTab` (main.go:462) queues its `Ensure` after it has released
   `mu`; when `closeTab` queues its `Destroy` first, a view is made for a closed tab
   and never destroyed.
2. `windows_quit`: the loop of `Embed` (chromium.go:126) leaves on `WM_QUIT` and does not
   post it again. `Run`, further up the stack, never sees it: a window that is closed
   while a tab is being opened leaves a process without a window.
3. `ssh_reconnect`: `reconnectTerminal` (frontend/index.html:1327) ignores `needsPassword`
   and opens the WebSocket of a session that has no client; the user is offered another
   reconnect instead of the prompt that docs/usage.md describes.

### Known divergences

The models also reach these; they are not runs of their own, and where a
property would be spoiled by one, the passing run excludes its cause:

- `handleExitNode` (settings_api.go:579) sets `exitNodeActive` without looking at
  `tsServer`; a disconnect between its apply and its commit leaves a route marked active
  with no session.
- A start reads the configured exit node (main.go:909) and applies it later under
  another mutex than `handleExitNode`, so it may write an older choice.
- The rollback of a failed save (settings_api.go:559) applies the saved choice; if
  none was saved it clears a route that tsnet had restored by itself, while
  `exitNodeActive` stays as it was.
- A request for a recovery or a retry that comes between the old worker's last
  decision and its clean-up is dropped (exit_node_recovery.go:13, main.go:996).
- `handleSaveKey` stops the retry worker before it stores the key; when storing
  fails (main.go:1309) nothing retries the start any more.
- `setDownloadError` (download.go:171) frees the slot before the deferred `os.Remove`. If
  another program has removed the partial file, the next download takes its name and
  loses its file to the first one's clean-up. `WholeFilesStay` exempts just this removal.
- `shutdown` (main.go:845) neither cancels nor joins a download; its partial file
  stays.
- `activeTab` and the queue of the GTK thread are ordered independently
  (main.go:459): two switches may leave the other view on the screen.
- A tab operation before the shell has fetched its tabs saves a list without the
  session that was to be restored (main.go:394, 413). `EarlyMessages = FALSE`
  excludes this.
- A closed tab can come back. `navigateBrowser` (main.go:306) shows its tab after the save;
  if the tab was closed meanwhile, the shell adds it again and registers it.
  `OnlyShownReturn` says that this happens only to tabs that the shell shows, or is about
  to close again, so that both lists agree about it.
- A tab that came back and is closed again within 250 ms of its first close, with no other
  close between them, stays in the tab manager's list (main.go:553): the second close counts
  as a duplicate. The model abstracts the time; `CloseNothing` is either case.
- Past the limit of `sanitizeSavedTabs` (config.go:274) the file has less than
  `config.OpenTabs` in memory. `SessionIsSaved` says which part.
- A view that `Ensure` could not make is shown all the same (native_content_windows.go:123,
  main.go:309): the shell is reduced to its strip with no view beside it, and the error it
  draws for the tab is covered. `LayoutFollowsViews` states it as its exception (`unmade`).
- A tab that is only registered is active while the page before it stays on the screen,
  since `registerLocalTab` (main.go:796) hides nothing. The shell switches to a terminal
  after it has registered it, but opens a VNC or RDP tab with `skipNative`
  (frontend/index.html:779): on Windows the viewer and its form for the credentials
  (docs/usage.md:43) stay behind the page until the user switches tabs.
  `ManagerFollowsApp` exempts such a tab (`unshown`).
- The shell saves its own, deduplicated list (settings_api.go:616), which may
  replace the tab manager's. `SessionIsSaved` therefore asks for the tab list after a save
  of the tab manager (`saveOK`), with the shell's saves before and between.
- A `WM_APP` that the loop of `Embed` takes is lost (webview.go:464): the work stays in the
  queue until the next `Dispatch`. `ViewsAreOpen` is about an empty queue.
- A tab closed while its terminal connects, or a terminal whose WebSocket is not accepted
  (ws_terminal.go:85), leaves a client in `sshConns`, and a prompt that is never answered
  an entry in `pendingAuth` (main.go:1539): nothing removes either.
  `ConnectionsAreOwned` counts `sshConns` as the owner.
- `ssh.NewClientConn` (main.go:1525) has no deadline once the dial has succeeded;
  `TerminalsAnswer` assumes that the server completes its handshake or hangs up.
- `handleSSHAuthPassword` (main.go:1617, 1659) does not look at `pendingAuth` again after
  its dial, so of two posts for one prompt the second would replace the first one's client
  unclosed. The shell disposes of a prompt before it posts (frontend/index.html:1217), and
  the model sends one answer to a prompt.
- `tailnetDNSAddresses` (tailnet_dns.go:85) takes the records of an answer to the question
  that was asked whatever name they carry. `ConnectionsFit` is about answers to other
  questions; what a server says of the right one is believed.
- On Linux a new load does not clear the shell's certificate button; a click on
  the old one is refused as expired. And when the failing address is spelt
  otherwise than its normal form, a click is accepted and nothing is approved
  (webkit_linux.c:608). Both are safe: `ConsentIsBound` holds.
- An RDP viewer whose tab is closed keeps its handler and connection until the
  server speaks: `GetUpdate` (rdp.go:271) takes no context. A closed terminal waits
  for the remote program (`session.Wait`, ws_terminal.go:236), and when the program
  ends first the handler stays until the client types or leaves. `Over` in
  `RelayEnds` says what each kind needs.
- A remote reset looks like a clean end to a SOCKS5 client (socks.go:186), and the
  error of the last `io.Copy` of a plain request is ignored
  (browser_proxy_linux.go:155). `NothingTruncated` is about peers that are there.

## 5. Proofs

All theorems hold for every value of the constants that satisfies the named
assumptions (`ConstantsAssumption`, `ConfigAssumption`, `CertificateAssumption`,
`RelayAssumption`, `DownloadAssumption`, `TabsAssumption`, `WindowsAssumption`,
`DialAssumption`, `SshAssumption`): that the special values differ from the ordinary
ones, that normalisation is idempotent, that the bounds are natural numbers, that there
is a URL to download, that a name has finitely many addresses, and that the session
saved by an earlier run fits the limit. TLC evaluates each of them in the run of its
module.

Every invariant and every action property of the passing runs is proved. Hardly one is
inductive by itself; what follows says what had to be added. The definitions of the invariants are at the end of the modules
they are about.

**TailnetProofs.** `TypeCorrect`, `Invariance`, `AtMostOneServer`,
`PublishedServerRuns`, `NothingRunsWhileLocked`, `DisconnectHolds`,
`RecoveryKeepsChoice`. "At most one server" does not say who is replacing it. `IInv`
adds that (`OpInv`) what a process runs agrees with where it is, (`MutexInv`) a process
inside a section of `tsStartMu` or `configSaveMu` holds it, (`ServerInv`) which servers
run at each step of a replacement, and (`ChoiceInv`) the recovery worker applies what is
configured. By `MutexInv` one process is in a section at a time; so `ServerInv` changes
by that process alone, and `live` is empty when a server comes up. Behind the closed
gate (`GateInv`) every process but main is idle or off, so nothing can be half-way
through a start. `DisconnectInv` follows an undisturbed disconnect in the order in which
it takes things down: once the retry worker is gone nothing can schedule a recovery,
once the recovery worker is gone nothing can start a server, and only then is the server
closed. In any other order the invariant, and the property, would fail.

**ConfigStoreProofs.** `Invariance`, `FileIsMemory`, `HostKeysStayPinned`,
`DismissedStayDismissed`, `StoreIsAtomic`. `IInv` says the mutex is held by the worker with a request
(`IMutex`), that its clone is memory with the request carried out (`IClone`), and
which of file and memory is ahead (`IFile`). The refinement maps the abstract
`saved` to the file and `view` to memory with a saved but uncommitted change in it, so
that `SaveSucceeds` is the abstract change and `Commit` a stutter. `HiddenStays` needs
that the dismissed cards keep their limit in memory and in the file (`IRecents`); a save
then writes what memory held, with at most one card pushed out of a full list.

**CertificateProofs.** `TypeCorrect`, `Invariance`, `RevokedNeverApproved`,
`ConsentKept`. `IInv` says that tokens identify offers (`OfferInv`), that buttons,
queued calls and clicks are of offers (`ShellInv`), that a prompt is an offer not
yet approved and, on Linux, for the certificate the C side kept (`PendingInv`), and
that a grant was clicked and, on Windows, not yet used (`GrantInv`). Every approval
is then a step of `Consent`, every other step an offer, a click or a stutter.

**RelayProofs.** `Invariance`, `NothingLeftOpen`, `StreamsArriveWhole`. That a stream is
whole when its destination sees the end is not inductive: `IInv` adds that no chunk
is delivered twice or unread (`Accounted`), that the loops start with both sockets
open (`InOrder`), and that, while nothing disturbs it, a loop has delivered all it
has read, ends only after its source has finished, and has its sockets until then
(`Lossless`). The half-close of the other direction leaves all of that alone.

**DownloadProofs.** `TypeCorrect`, `Invariance`, `OneAtATime`, `CookiesStay`,
`PartialFilesOwned`, `WholeFilesAreSafe`. The slot is held in two ways, by the flag
`downloadStarting` and by the current download's status: `SlotInv` says that a handler
past its reservation holds the flag, that there is one such handler, and that no
download runs meanwhile. `TicketInv` says that a ticket whose cookies somebody has is
out of the map for good, so that it keeps its URL and nobody else can take it.
`FileInv` ties a file to its download's path and stage; from it follow both that an
incomplete file has someone to remove it and that a whole one is left alone.

**SshProofs.** `Invariance`, `DialsGoWhereMeant`, `DialsAreRouted`,
`SessionsAreOneThing`, `NoConnectionLeaks`, over the composition of dialler, diagnostic and terminals. All that
a request has left to try fits what it dials (`AddressInv`), and at the moment of a dial
the address was just tested against the node's own. `DialsAreRouted` needs no more than the
types: only `DialServer` and `Dial` begin a dial, and both test the routes then. A
request holds a connection in exactly the phases that need one (`PhaseInv`). That nothing leaks needs more than an
owner for every connection: `OwnerInv` says that no connection has two, or closing it
for one would leave the other with a closed one. `SessionInv` gives a session one
terminal and keeps its entry in `pendingAuth` while a password is tried, so that two
answers never become two clients.

**WindowsProofs.** `Invariance`, `NoWindowLeaks`, `LayoutIsRight`,
`ClosedTabsHaveNoView`, `ManagerShowsActive`. The invariant has to hold inside the nested
loop of `Embed`, where bindings run: `EmbedInv` says that the view being made belongs to the function the
thread is at and has a window of its own, `ViewWindowsInv` that no two views share a
window, `LayoutInv` that the shell is laid out for the manager's active tab also then,
`ActiveViewInv` that this tab has a view or is the one that could not be made, and
`VisibleInv` that between two functions its window alone is visible. Together they give
`LayoutFollowsViews`, which does not mention the manager's flag at all.
`QueueInv` is about the dispatched functions as one queue, the batch in work followed
by `dispatchq`: whatever shows a tab that is gone is followed by something that
destroys its view. Once the queue is empty, `ViewsAreOpen` is what remains of it.
`FollowInv` reads the same queue from its end: the last function that chooses a tab, or
the shell, and what is destroyed behind it lead to the App's active tab (`Leads`). A
binding appends to that end, Run takes from the front, and a view that is being made or
cannot be made changes neither; an empty queue leaves `ManagerFollowsApp`.

**TabsProofs.** `Invariance`, `ActiveOpen`, `ReturnsAreShown`, `SessionSaved`.
`ListInv` says that an ID in the list stands for one tab and has been given out.
`OnlyShownReturn` is about the second locked section of `registerLocalTab`, long after the
shell queued the registration: `PendingInv` says that the tab of a queued registration
is shown, or that its close is queued behind it, `RegisterInv` the same of the tabs
still to be written, and `MutationInv` why that close cannot be sent before: the shell's
queue has one mutation under way until its answer has run. For the session, `SaverInv` says that who saves holds `configSaveMu`, `CollectedInv` that a
list that was collected, or was saved last, is the present one, or somebody is still to
persist, and `FirstInv` that nothing has happened before the restore. `SessionSaved` has
the hypothesis `~EarlyMessages` (the user acts after the restore): without it a restore
overlaps a save and the property is false, see the known divergences. The loops that
filter a list are written as `Picked`, the elements at a set of positions, so that what
they return is proved from cardinalities, without induction over sequences.

Only model-checked: liveness (`RequestsEnd`, `ShutdownEnds`, `DownloadEnds`,
`SlotIsReleased`, `WorkEnds`, `RelayEnds`, `NoLoopLeft`, `CallsAreHandled`, `DialsEnd`,
`TerminalsAnswer`), which needs fairness and is out of the prover's reach.

## 6. Not modelled

The engines, tsnet, the file system and the encryption are libraries: they appear
as the nondeterminism the code can meet. Text (addresses, HTML, diagnostics, wire
formats, the explanations of `describeDNSPolicy`), drawing, focus, icons and pixel sizes
are left out. So are:

- the choice of the machine key and of the WebKit profile, which happen once, before
  anything runs concurrently; the stored SSH keys, which are files of their own;
- `allowDirectDial`, which only tests set;
- in `Tabs`, the reload of the shell at the end of `goHome` (main.go:841), the second
  registration of a tab by `showBrowserTab` when nothing has changed, and those of
  `activateTab`: `ClickTab` registers any shown tab at any time. What a registration says
  of its tab is chosen when it is sent, which includes what it said when it was queued;
- on Windows, the embedding of the shell itself, which ends before the first call, and
  the callbacks of a page (title, icon, address) that only send scripts to the shell;
- clearing of browser data, history and cookies, one call of the engine each;
- the proxies' own dials in the `ssh` run: a proxy dials as a terminal does and then
  continues in `Relay`;
- vendored code: `third_party/go-rdp` and the COM bindings of `internal/go-webview2`.

## 7. Plan

1. Further action properties, from the invariants that are proved: that an exit node
   is reported only by the process that applied it, and that a session's client is
   replaced only after it was closed.
2. The machine key's creation by two processes, and the stored SSH keys.
