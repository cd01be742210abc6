---------------------------- MODULE WindowsViews ----------------------------
(***************************************************************************)
(* The browser views of womprat on Windows (gui_windows.go,                *)
(* native_content_windows.go, internal/go-webview2).                       *)
(*                                                                         *)
(* One thread does everything.  It waits for messages in Run, or in the    *)
(* second loop that Chromium.Embed runs until WebView2 has answered.  Both *)
(* hand messages to the shell's bindings and to the host window.  Work on  *)
(* the views is never done by a binding: it is queued by Dispatch, which   *)
(* posts one WM_APP message, and only Run empties the queue on a WM_APP.   *)
(* A WM_APP or WM_QUIT that the loop of Embed takes is gone.               *)
(***************************************************************************)
EXTENDS Naturals, Sequences

CONSTANTS
  Nobody,      \* no tab
  MaxTabs,     \* bound on the tab IDs given out
  MaxCalls,    \* bound on the calls of the shell
  MayClose     \* the user may close the window

ASSUME WindowsAssumption ==
  /\ MaxTabs \in Nat \ {0} /\ MaxCalls \in Nat /\ MayClose \in BOOLEAN
  /\ Nobody \notin 1..MaxTabs

VARIABLES
  tabs,          \* the open tabs that show a page
  activeTab,     \* App.activeTab; Nobody when the shell draws the active tab
  nextID,
  unshown,       \* the active tab was only registered: nothing was shown or hidden for it
  calls, sent,   \* calls of the shell that wait in the message queue; all so far
  dispatchq,     \* webview.dispatchq
  app,           \* WM_APP messages posted and not yet taken
  quit,          \* WM_QUIT is posted
  batch,         \* what Run took from the queue and has not run yet
  embedding,     \* the tab whose view Embed is waiting for, or Nobody
  inited,        \* how far WebView2 is with it: "env", "controller", "ok" or "failed"
  newWindow,     \* its child window
  views,         \* nativeContentManager.views: tab ID to child window
  browserActive, \* nativeContentManager.browserActive
  unmade,        \* its view could not be made
  windows,       \* the child windows that exist
  visible,       \* those on the screen
  shellFull,     \* the shell covers the host, not only the chrome strip
  nextWindow,
  closed,        \* the host window is destroyed
  blocked,       \* the thread waits for a mutex that it holds
  ended          \* Run has returned

appVars == <<tabs, activeTab, nextID, unshown>>
postVars == <<calls, sent, dispatchq, app, quit>>
embedVars == <<embedding, inited, newWindow, nextWindow>>
viewVars == <<views, browserActive, unmade, windows, visible, shellFull>>
vars == <<appVars, postVars, batch, embedVars, viewVars, closed, blocked, ended>>

IDs == 1..MaxTabs

\* What a queued function does.  Eval stands for every script sent to the shell,
\* the reply to a call included.
Eval == [fn |-> "eval", id |-> Nobody]
Open(id) == [fn |-> "open", id |-> id]        \* Ensure, Show, Navigate
Select(id) == [fn |-> "select", id |-> id]    \* Get, or Ensure and Navigate; Show
HideAll == [fn |-> "hide", id |-> Nobody]
Destroy(id) == [fn |-> "destroy", id |-> id]
Functions == [fn : {"eval", "hide"}, id : {Nobody}]
               \cup [fn : {"open", "select", "destroy"}, id : IDs]

TypeOK ==
  /\ tabs \subseteq 1..nextID - 1 /\ activeTab \in tabs \cup {Nobody}
  /\ nextID \in 1..MaxTabs + 1
  /\ sent \in 0..MaxCalls /\ calls \in 0..sent
  /\ dispatchq \in Seq(Functions) /\ batch \in Seq(Functions)
  /\ app \in Nat /\ quit \in BOOLEAN
  /\ embedding \in IDs \cup {Nobody} /\ inited \in {"env", "controller", "ok", "failed"}
  /\ nextWindow \in Nat \ {0} /\ newWindow \in 0..nextWindow - 1
  /\ DOMAIN views \subseteq IDs
  /\ \A id \in DOMAIN views : views[id] \in 1..nextWindow - 1
  /\ browserActive \in IDs \cup {Nobody}
  /\ windows \subseteq 1..nextWindow - 1 /\ visible \subseteq windows
  /\ {unshown, unmade, shellFull, closed, blocked, ended} \subseteq BOOLEAN

\* runGUI up to Run: the manager has no views and HideAll has laid out the shell.
Init ==
  /\ tabs = {} /\ activeTab = Nobody /\ nextID = 1 /\ unshown = FALSE
  /\ calls = 0 /\ sent = 0 /\ dispatchq = <<>> /\ app = 0 /\ quit = FALSE
  /\ batch = <<>>
  /\ embedding = Nobody /\ inited = "env" /\ newWindow = 0 /\ nextWindow = 1
  /\ views = <<>> /\ browserActive = Nobody /\ unmade = FALSE /\ windows = {} /\ visible = {}
  /\ shellFull = TRUE
  /\ closed = FALSE /\ blocked = FALSE /\ ended = FALSE
-----------------------------------------------------------------------------
\* The thread waits in GetMessage, in Run or in Embed.
Waiting ==
  /\ ~blocked /\ ~ended
  /\ IF embedding = Nobody THEN batch = <<>> ELSE inited \in {"env", "controller"}

\* A script of the shell calls a bound function.
ShellCalls ==
  /\ ~closed /\ sent < MaxCalls
  /\ sent' = sent + 1 /\ calls' = calls + 1
  /\ UNCHANGED <<appVars, dispatchq, app, quit, batch, embedVars, viewVars, closed, blocked,
                 ended>>

\* The engine reports the oldest message of the shell, in whichever loop the thread is.
MessageReceived == Waiting /\ calls > 0 /\ calls' = calls - 1

\* msgcb runs the bound function, whose work and whose reply are dispatched: every
\* Dispatch appends one function and posts one message.
Call(work) ==
  /\ MessageReceived
  /\ dispatchq' = dispatchq \o work \o <<Eval>>
  /\ app' = app + Len(work) + 1
  /\ UNCHANGED <<sent, quit, batch, embedVars, closed, ended>>

\* newBrowserTab, or navigateBrowser of a blank tab, which the shell has drawn so far.
NewBrowserTab ==
  /\ nextID <= MaxTabs
  /\ tabs' = tabs \cup {nextID} /\ activeTab' = nextID /\ nextID' = nextID + 1
  /\ unshown' = FALSE
  /\ Call(<<Eval, Open(nextID)>>)
  /\ UNCHANGED <<viewVars, blocked>>

\* navigateBrowser: nothing is dispatched when the active tab is no page.
NavigateBrowser ==
  /\ Call(IF activeTab = Nobody THEN <<>> ELSE <<Eval, Open(activeTab)>>)
  /\ unshown' = (unshown /\ activeTab = Nobody)
  /\ UNCHANGED <<tabs, activeTab, nextID, viewVars, blocked>>

SwitchTab(id) ==
  /\ id \in tabs /\ activeTab' = id /\ unshown' = FALSE
  /\ Call(<<Eval, Select(id)>>)
  /\ UNCHANGED <<tabs, nextID, viewVars, blocked>>

\* Mutant: the page stays when the shell takes over.
NothingHidden == {<<Eval>>}

\* hideBrowserContentOnUI, by goHome and clearActiveTab, or followed by evalShell.
ShellWork == {<<HideAll>>, <<HideAll, Eval>>}

\* openSettingsTab, newTerminalTab, newVNCTab, newRDPTab, goHome, clearActiveTab, and
\* switchTab to a tab that the shell draws.
ShowShell ==
  /\ activeTab' = Nobody /\ unshown' = FALSE
  /\ \E work \in ShellWork : Call(work)
  /\ UNCHANGED <<tabs, nextID, viewVars, blocked>>

\* registerLocalTab of a new tab that the shell draws, which shows and hides nothing.
\* newBlankTab clears the active tab first and openTerminal switches to the tab next;
\* openCustomViewerFallback does neither, and a page may be chosen in between.
RegisterLocalTab ==
  /\ activeTab' = Nobody /\ unshown' = (unshown \/ activeTab # Nobody)
  /\ Call(<<>>)
  /\ UNCHANGED <<tabs, nextID, viewVars, blocked>>

\* registerLocalTab by the showBrowserTab of a navigation, after its page was closed.
RegisterClosedTab(id) ==
  /\ id \in (1..nextID - 1) \ tabs
  /\ tabs' = tabs \cup {id} /\ activeTab' = id /\ unshown' = TRUE
  /\ Call(<<>>)
  /\ UNCHANGED <<nextID, viewVars, blocked>>

\* Mutant: a tab without a view has nothing to destroy.
DestroyWorkIfKnown(id) == IF id \in DOMAIN views THEN <<Destroy(id)>> ELSE <<>>

\* destroyContentOnUI, which does not look at the views.
DestroyWork(id) == <<Destroy(id)>>

\* closeTab: the active tab gives way to a neighbour, which is a page or drawn by
\* the shell, or to the home screen; without an active tab the home screen is shown.
CloseTab(id) ==
  /\ id \in tabs /\ tabs' = tabs \ {id}
  /\ \/ activeTab # id /\ Call(DestroyWork(id)) /\ UNCHANGED <<activeTab, unshown>>
     \/ /\ activeTab \in {id, Nobody} /\ activeTab' = Nobody /\ unshown' = FALSE
        /\ \E work \in ShellWork : Call(DestroyWork(id) \o work)
     \/ /\ activeTab = id /\ activeTab' \in tabs' /\ unshown' = FALSE
        /\ Call(DestroyWork(id) \o <<Eval, Select(activeTab')>>)
  /\ UNCHANGED <<nextID, viewVars, blocked>>

Forgotten(id) == IF activeTab = id THEN Nobody ELSE activeTab

ForgetTab(id) ==
  /\ id \in tabs /\ tabs' = tabs \ {id} /\ activeTab' = Forgotten(id)
  /\ Call(DestroyWork(id))
  /\ UNCHANGED <<nextID, unshown, viewVars, blocked>>

\* Mutant: Ensure keeps the mutex of the manager until the view is there.
HeldWhileEmbeddingAlways == TRUE

\* Ensure releases the mutex before newNativeContentView and takes it again after.
HeldWhileEmbedding == FALSE

\* A function that takes the mutex in the loop of Embed would wait for its own thread.
SelfDeadlock == embedding # Nobody /\ HeldWhileEmbedding

\* resizeAll: the shell gets the whole host or its chrome strip; a destroyed host has
\* no size.
Resized(active) == IF closed THEN shellFull ELSE active = Nobody

\* womprat_setChromeHeight calls resizeAll in the callback itself.
SetChromeHeight ==
  /\ Call(<<>>)
  /\ blocked' = SelfDeadlock
  /\ shellFull' = IF SelfDeadlock THEN shellFull ELSE Resized(browserActive)
  /\ UNCHANGED <<appVars, views, browserActive, unmade, windows, visible>>

\* womprat_browserBack, Forward and Reload look the active view up in the callback.
UseActiveView ==
  /\ activeTab # Nobody
  /\ Call(<<>>)
  /\ blocked' = SelfDeadlock
  /\ UNCHANGED <<appVars, viewVars>>

HandleCall ==
  \/ NewBrowserTab \/ NavigateBrowser \/ ShowShell \/ RegisterLocalTab
  \/ SetChromeHeight \/ UseActiveView
  \/ \E id \in IDs : 
       SwitchTab(id) \/ CloseTab(id) \/ ForgetTab(id) \/ RegisterClosedTab(id)

\* hostWndProc: WM_SIZE, WM_EXITSIZEMOVE, WM_DPICHANGED.
HostResized ==
  /\ Waiting /\ ~closed
  /\ blocked' = SelfDeadlock
  /\ shellFull' = IF SelfDeadlock THEN shellFull ELSE Resized(browserActive)
  /\ UNCHANGED <<appVars, postVars, batch, embedVars, views, browserActive, unmade, windows,
                 visible, closed, ended>>

\* The user closes the window: DestroyWindow takes the child windows along, and
\* WM_DESTROY posts the quit message.
HostDestroyed ==
  /\ MayClose /\ Waiting /\ ~closed
  /\ closed' = TRUE /\ quit' = TRUE /\ calls' = 0
  /\ windows' = {} /\ visible' = {}
  /\ UNCHANGED <<appVars, sent, dispatchq, app, batch, embedVars, views, browserActive,
                 unmade, shellFull, blocked, ended>>
-----------------------------------------------------------------------------
\* Run: WM_APP takes the whole queue.
TakeApp ==
  /\ Waiting /\ embedding = Nobody /\ app > 0 /\ app' = app - 1
  /\ batch' = dispatchq /\ dispatchq' = <<>>
  /\ UNCHANGED <<appVars, calls, sent, quit, embedVars, viewVars, closed, blocked, ended>>

\* Embed: the message has no window, so DispatchMessage does nothing with it.
DropApp ==
  /\ Waiting /\ embedding # Nobody /\ app > 0 /\ app' = app - 1
  /\ UNCHANGED <<appVars, calls, sent, dispatchq, quit, batch, embedVars, viewVars, closed,
                 blocked, ended>>

\* Run: GetMessage delivers WM_QUIT after every posted message.
RunEnds ==
  /\ Waiting /\ embedding = Nobody /\ quit /\ app = 0
  /\ quit' = FALSE /\ ended' = TRUE
  /\ UNCHANGED <<appVars, calls, sent, dispatchq, app, batch, embedVars, viewVars, closed,
                 blocked>>

\* Embed: GetMessage returns 0 and the loop ends without a view.
EmbedQuits ==
  /\ Waiting /\ embedding # Nobody /\ quit /\ app = 0
  /\ quit' = FALSE /\ inited' = "failed"
  /\ UNCHANGED <<appVars, calls, sent, dispatchq, app, batch, embedding, newWindow,
                 nextWindow, viewVars, closed, blocked, ended>>

\* EnvironmentCompleted: the controller is asked for, or something failed.
EnvironmentCompleted ==
  /\ Waiting /\ embedding # Nobody /\ inited = "env"
  /\ inited' \in {"controller", "failed"}
  /\ UNCHANGED <<appVars, postVars, batch, embedding, newWindow, nextWindow, viewVars, closed,
                 blocked, ended>>

\* CreateCoreWebView2ControllerCompleted: every handler is registered, or one is not.
ControllerCompleted ==
  /\ Waiting /\ embedding # Nobody /\ inited = "controller"
  /\ inited' \in {"ok", "failed"}
  /\ UNCHANGED <<appVars, postVars, batch, embedding, newWindow, nextWindow, viewVars, closed,
                 blocked, ended>>
-----------------------------------------------------------------------------
\* nativeContentView.Show of one view and Hide of the others.
ShownWindows(id, known, wins) == {known[i] : i \in DOMAIN known \cap {id}} \cap wins

\* nativeContentManager.Show, with the views and windows of this moment.
Show(id, known, wins) ==
  /\ browserActive' = id /\ shellFull' = Resized(id)
  /\ visible' = ShownWindows(id, known, wins)

\* The first half of Embed: an environment is asked for, or the data folder or the call
\* of the loader fails.
Asked == {"env", "failed"}

\* Ensure has no view to reuse: newNativeContentView makes the child window, visible,
\* and embeds a view in it.
CreateView ==
  /\ ~blocked /\ embedding = Nobody /\ batch # <<>>
  /\ Head(batch).fn \in {"open", "select"} /\ Head(batch).id \notin DOMAIN views
  /\ ~closed
  /\ embedding' = Head(batch).id /\ inited' \in Asked
  /\ newWindow' = nextWindow /\ nextWindow' = nextWindow + 1
  /\ windows' = windows \cup {nextWindow} /\ visible' = visible \cup {nextWindow}
  /\ UNCHANGED <<appVars, postVars, batch, views, browserActive, unmade, shellFull, closed,
                 blocked, ended>>

\* The class or the window cannot be made: Ensure returns a view that does nothing, and
\* Show is called all the same.
CreateFails ==
  /\ ~blocked /\ embedding = Nobody /\ batch # <<>>
  /\ Head(batch).fn \in {"open", "select"} /\ Head(batch).id \notin DOMAIN views
  /\ batch' = Tail(batch)
  /\ Show(Head(batch).id, views, windows) /\ unmade' = TRUE
  /\ UNCHANGED <<appVars, postVars, embedVars, views, windows, closed, blocked, ended>>

\* Mutant: a view that could not be embedded leaves its window.
FailedWindowsKept == windows

\* DestroyWindow on every error path after the window was made.
FailedWindows == windows \ {newWindow}

\* Embed returned false, or NavigationCompleted could not be registered.
EmbedFails ==
  /\ ~blocked /\ embedding # Nobody /\ inited \in {"ok", "failed"}
  /\ embedding' = Nobody /\ newWindow' = 0 /\ batch' = Tail(batch)
  /\ windows' = FailedWindows
  /\ Show(embedding, views, windows') /\ unmade' = TRUE
  /\ UNCHANGED <<appVars, postVars, inited, nextWindow, views, closed, blocked, ended>>

\* Ensure publishes the view, or discards it for one that was published meanwhile.
EmbedSucceeds ==
  /\ ~blocked /\ embedding # Nobody /\ inited = "ok"
  /\ embedding' = Nobody /\ newWindow' = 0 /\ batch' = Tail(batch)
  /\ LET first == embedding \in DOMAIN views
         known == [id \in DOMAIN views \cup {embedding} |->
                     IF id \in DOMAIN views THEN views[id] ELSE newWindow]
         wins  == IF first THEN windows \ {newWindow} ELSE windows
     IN  /\ views' = known /\ windows' = wins
         /\ Show(embedding, known, wins) /\ unmade' = FALSE
  /\ UNCHANGED <<appVars, postVars, inited, nextWindow, closed, blocked, ended>>

\* Mutant: the shell keeps the chrome strip when the active view is destroyed.
DestroyedLayoutKept(id) == shellFull

\* The end of nativeContentManager.Destroy.
DestroyedLayout(id) == IF browserActive = id THEN Resized(Nobody) ELSE shellFull

\* nativeContentView.Destroy, if the manager knows the view.
DestroyedWindows(id) == {views[i] : i \in DOMAIN views \cap {id}}

\* A queued function that creates no view.
RunFunction ==
  /\ ~blocked /\ embedding = Nobody /\ batch # <<>> /\ batch' = Tail(batch)
  /\ LET f == Head(batch)
     IN  \/ f.fn = "eval" /\ UNCHANGED viewVars
         \/ /\ f.fn \in {"open", "select"} /\ f.id \in DOMAIN views
            /\ Show(f.id, views, windows) /\ unmade' = FALSE
            /\ UNCHANGED <<views, windows>>
         \/ /\ f.fn = "hide"
            /\ browserActive' = Nobody /\ unmade' = FALSE /\ shellFull' = Resized(Nobody)
            /\ visible' = {}
            /\ UNCHANGED <<views, windows>>
         \/ /\ f.fn = "destroy"
            /\ views' = [id \in DOMAIN views \ {f.id} |-> views[id]]
            /\ windows' = windows \ DestroyedWindows(f.id)
            /\ visible' = visible \cap windows'
            /\ browserActive' = IF browserActive = f.id THEN Nobody ELSE browserActive
            /\ unmade' = (unmade /\ browserActive # f.id)
            /\ shellFull' = DestroyedLayout(f.id)
  /\ UNCHANGED <<appVars, postVars, embedVars, closed, blocked, ended>>
-----------------------------------------------------------------------------
Loop == TakeApp \/ DropApp \/ RunEnds \/ EmbedQuits
WebView2 == EnvironmentCompleted \/ ControllerCompleted
Work == CreateView \/ CreateFails \/ EmbedFails \/ EmbedSucceeds \/ RunFunction

Next == ShellCalls \/ HandleCall \/ HostResized \/ HostDestroyed \/ Loop \/ WebView2 \/ Work

\* The thread goes on while it has something to do, GetMessage delivers every message
\* in its turn, and WebView2 answers.
Fairness ==
  WF_vars(HandleCall) /\ WF_vars(Loop) /\ WF_vars(WebView2) /\ WF_vars(Work)

Spec == Init /\ [][Next]_vars /\ Fairness
-----------------------------------------------------------------------------
\* The thread is between two functions.
Settled == embedding = Nobody

\* No child window is left behind, however far the creation of a view came: every
\* window is that of a known view or of the one that is being made.
WindowsAreOwned ==
  windows \subseteq {views[id] : id \in DOMAIN views}
                      \cup (IF Settled THEN {} ELSE {newWindow})

\* Between two functions the shell is reduced to the chrome strip for the sake of one
\* view, which exists and is the only one on the screen, also after the active view was
\* destroyed and whatever the bindings did in the loop of Embed.  The one exception is
\* the view that Ensure could not make: Show reduces the shell for it too.
LayoutFollowsViews ==
  Settled /\ ~closed =>
    \/ shellFull /\ visible = {}
    \/ ~shellFull /\ \E id \in DOMAIN views : views[id] \in windows /\ visible = {views[id]}
    \/ ~shellFull /\ unmade /\ visible = {}

\* Nothing that was dispatched is left to run.
Quiet == Settled /\ batch = <<>> /\ dispatchq = <<>>

\* Once everything that was dispatched has run, the manager shows the tab that the App
\* has as active, whatever was called in the loop of Embed, however many views could not be
\* made and whatever was closed meanwhile.  A tab that was only registered is not shown:
\* the shell switches to a terminal that it registered, but not to a VNC or RDP tab.
ManagerFollowsApp == Quiet /\ ~closed /\ ~unshown => browserActive = activeTab

\* Once everything that was dispatched has run, every view belongs to an open tab,
\* also of a tab that was closed in the loop of Embed that made its view.
ViewsAreOpen ==
  Quiet => DOMAIN views \subseteq tabs

\* Every call of the shell is handled, in whichever loop it arrives: no binding waits
\* for the mutex of a manager that is embedding a view.
CallsAreHandled == calls > 0 ~> calls = 0

\* A closed window ends Run, and with it the program.
QuitEndsRun == closed ~> ended
-----------------------------------------------------------------------------
\* Why they hold: the inductive invariant of the proofs.

\* A view is being made for the function that the thread is at, in a window of its own.
EmbedInv ==
  embedding # Nobody =>
    /\ batch # <<>> /\ Head(batch) \in {Open(embedding), Select(embedding)}
    /\ embedding \notin DOMAIN views
    /\ newWindow # 0 /\ \A id \in DOMAIN views : views[id] # newWindow

\* The windows of the views exist as long as the host does, and no two views share one.
ViewWindowsInv ==
  /\ \A i, j \in DOMAIN views : views[i] = views[j] => i = j
  /\ ~closed => /\ \A id \in DOMAIN views : views[id] \in windows
                /\ embedding # Nobody => newWindow \in windows

\* The shell is laid out for the active view also while another is made.
LayoutInv == ~closed => shellFull = (browserActive = Nobody)

\* That view is known unless it could not be made.
ActiveViewInv == browserActive # Nobody => unmade \/ browserActive \in DOMAIN views

\* Between two functions only the window of the active view is visible.
VisibleInv ==
  Settled /\ ~closed => visible = {views[id] : id \in DOMAIN views \cap {browserActive}}

\* A queue that shows only open tabs, or tabs that it destroys after that.
Covered(queue, open) ==
  \A i \in DOMAIN queue : queue[i].fn \in {"open", "select"} =>
    \/ queue[i].id \in open
    \/ \E j \in DOMAIN queue : j > i /\ queue[j] = Destroy(queue[i].id)

\* Everything that was dispatched and has not run to its end.
Dispatched == batch \o dispatchq

\* A view of a tab that is gone is destroyed by something that is still queued, and
\* nothing behind that makes it again.
QueueInv ==
  /\ \A id \in DOMAIN views : id \in tabs \/ \E j \in DOMAIN Dispatched : Dispatched[j] = Destroy(id)
  /\ Covered(Dispatched, tabs)

\* The functions that choose what the manager shows: a tab, or the shell for HideAll.
Chooses(f) == f.fn \in {"open", "select", "hide"}

\* What was chosen at position i of a queue is what the manager has at its end, unless it
\* is destroyed behind that.
Ends(queue, i, chosen, final) ==
  /\ \A j \in DOMAIN queue : j > i => ~Chooses(queue[j])
  /\ final = IF \E j \in DOMAIN queue : j > i /\ queue[j] = Destroy(chosen) THEN Nobody
             ELSE chosen

\* A queue leads the manager from one active tab to another.
Leads(queue, now, final) ==
  \/ Ends(queue, 0, now, final)
  \/ \E i \in DOMAIN queue : Chooses(queue[i]) /\ Ends(queue, i, queue[i].id, final)

\* What was dispatched leads the manager to the App's active tab.
FollowInv == unshown \/ Leads(Dispatched, browserActive, activeTab)

\* The inductive invariant beyond TypeOK.
IInv ==
  /\ EmbedInv /\ ViewWindowsInv /\ WindowsAreOwned
  /\ LayoutInv /\ ActiveViewInv /\ VisibleInv
  /\ QueueInv
=============================================================================
