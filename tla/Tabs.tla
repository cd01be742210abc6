-------------------------------- MODULE Tabs --------------------------------
(***************************************************************************)
(* The tabs of womprat on Linux: the tab list and the active tab that      *)
(* App.mu protects (cmd/womprat/main.go), the saved session in the         *)
(* configuration, and the native browser views that only the GTK thread    *)
(* touches (cmd/womprat/gui_linux.go, webkit_linux.c).                     *)
(*                                                                         *)
(* Every message of the shell runs in a goroutine of its own: it changes   *)
(* the list under App.mu, then persists it, then queues its work for the   *)
(* GTK thread, with other goroutines between any two of these.  What is    *)
(* left for a goroutine to do is its todo list.  A popup of a page is a    *)
(* queued function that opens a tab on the GTK thread itself.              *)
(*                                                                         *)
(* The shell is the page that draws the tabs, and keeps a tab list of its  *)
(* own.  It sends some messages at once and puts the others, the mutations *)
(* of the tab list, into a queue (queueNativeTabMutation) that waits for   *)
(* each answer; the program tells it of new tabs by functions queued for   *)
(* the GTK thread.  So a tab may be closed in one of the two lists while   *)
(* the other is about to show it again.                                    *)
(***************************************************************************)
EXTENDS Naturals, Sequences, FiniteSets, SequencesExt

CONSTANTS
  Threads,       \* goroutines that handle shell messages
  UI,            \* the GTK thread
  Nobody,        \* a free mutex, no tab
  Urls, Blank,   \* addresses; about:blank, never saved
  Missing,       \* a field the shell left out
  SavedSession,  \* config.OpenTabs when the program starts
  SessionLimit,  \* sanitizeSavedTabs keeps so many tabs (100 in the code)
  ShellSaves,    \* the shell posts /api/settings/save-tabs too
  Popups,        \* pages open tabs
  EarlyMessages, \* the user acts before the shell has fetched its tabs
  MaxTabs,       \* bound on the tab IDs given out
  MaxMessages    \* bound on the messages of the shell and on the popups

Kinds == {"browser", "remote", "settings"}   \* remote: terminal, vnc or rdp
SavedTab == [kind : {"browser", "remote"}, url : Urls]

ASSUME TabsAssumption ==
  /\ UI \notin Threads /\ Nobody \notin Threads \cup {UI}
  /\ Blank \notin Urls /\ Missing \notin Urls \cup {Blank}
  /\ SavedSession \in Seq(SavedTab) /\ Len(SavedSession) <= SessionLimit
  /\ SessionLimit \in Nat \ {0} /\ MaxTabs \in Nat /\ MaxMessages \in Nat
  /\ {ShellSaves, Popups, EarlyMessages} \subseteq BOOLEAN

VARIABLES
  tabs,          \* App.tabs
  activeTab,     \* App.activeTab, Nobody for ""
  lastCloseTab,  \* App.lastCloseTab
  openTabs,      \* App.config.OpenTabs
  savedTabs,     \* openTabs of the configuration file
  restoreTabs,   \* App.config.RestoreTabs
  restored,      \* App.sessionRestored
  locked,        \* App.locked
  configSaveMu,
  todo,          \* what each goroutine, and the GTK thread, has left to do
  queue, closed, \* linuxContentManager.queue and closed
  views,         \* the native views, by tab ID: the address each was sent to
  shown,         \* the view on the screen
  shellTabs,     \* the shell's state.tabs: the IDs of the tabs it shows
  mutations,     \* nativeTabMutationQueue, without the one under way
  mutating,      \* a mutation of the shell's queue waits for its reply
  nextID,        \* newTabID's sequence
  gone,          \* IDs of tabs that were closed
  saveOK,        \* the last save succeeded and was of the tab manager
  messages       \* messages and popups so far

vars == <<tabs, activeTab, lastCloseTab, openTabs, savedTabs, restoreTabs, restored, locked,
          configSaveMu, todo, queue, closed, views, shown, shellTabs, mutations, mutating,
          nextID, gone, saveOK, messages>>

Settings == 0                      \* the ID "settings"
IDs == 0..MaxTabs
Tab == [id : IDs, kind : Kinds, url : Urls \cup {Blank}]
TabIDs(list) == {list[i].id : i \in DOMAIN list}
Find(list, id) == CHOOSE i \in DOMAIN list : list[i].id = id

\* What a queued function of the GTK thread does.
Open(id, u)   == [fn |-> "open", id |-> id, url |-> u]
Select(id, u) == [fn |-> "select", id |-> id, url |-> u]
Destroy(id)   == [fn |-> "destroy", id |-> id]
HideAll       == [fn |-> "hide"]
Popup(u)      == [fn |-> "popup", url |-> u]
Show(id)      == [fn |-> "show", id |-> id]
Resolve       == [fn |-> "resolve"]

\* A mutation that waits in the shell's queue.
Clear            == [op |-> "clear"]
Mutation(op, id) == [op |-> op, id |-> id]
Close(id)        == Mutation("close", id)
Register(id)     == Mutation("register", id)

\* The steps of a todo list.
Persist      == [do |-> "persist"]
SaveList(s, own) == [do |-> "save", session |-> s, own |-> own]
SaveTabs(s)  == [do |-> "saveTabs", session |-> s]
Dispatch(f)  == [do |-> "dispatch", work |-> f]
GoHome       == [do |-> "goHome"]
SwitchTo(id) == [do |-> "switch", id |-> id]
Upsert(t)    == [do |-> "upsert", tab |-> t]

Work ==
  [fn : {"open", "select"}, id : IDs, url : Urls] \cup [fn : {"destroy", "show"}, id : IDs]
    \cup [fn : {"hide", "resolve"}] \cup [fn : {"popup"}, url : Urls]
Mutations ==
  [op : {"reorder", "forget", "close", "register"}, id : IDs] \cup [op : {"clear"}]
Steps ==
  [do : {"persist", "goHome"}] \cup [do : {"switch"}, id : IDs]
    \cup [do : {"dispatch"}, work : Work] \cup [do : {"upsert"}, tab : Tab]
    \cup [do : {"saveTabs"}, session : Seq(SavedTab)]
    \cup [do : {"save"}, session : Seq(SavedTab), own : BOOLEAN]

TypeOK ==
  /\ tabs \in Seq(Tab)
  /\ activeTab \in IDs \cup {Nobody} /\ lastCloseTab \in IDs \cup {Nobody}
  /\ openTabs \in Seq(SavedTab) /\ savedTabs \in Seq(SavedTab)
  /\ restoreTabs \in BOOLEAN /\ restored \in BOOLEAN /\ locked \in BOOLEAN
  /\ configSaveMu \in Threads \cup {UI, Nobody}
  /\ todo \in [Threads \cup {UI} -> Seq(Steps)] /\ queue \in Seq(Work)
  /\ closed \in BOOLEAN /\ mutating \in BOOLEAN /\ saveOK \in BOOLEAN
  /\ closed => queue = <<>>
  /\ DOMAIN views \subseteq IDs /\ \A i \in DOMAIN views : views[i] \in Urls
  /\ shown \in DOMAIN views \cup {Nobody}
  /\ nextID \in 1..MaxTabs + 1 /\ gone \subseteq 1..nextID - 1
  /\ shellTabs \subseteq IDs /\ mutations \in Seq(Mutations)
  /\ messages \in 0..MaxMessages

Init ==
  /\ tabs = <<>> /\ activeTab = Nobody /\ lastCloseTab = Nobody
  /\ openTabs = SavedSession /\ savedTabs = SavedSession
  /\ restoreTabs \in BOOLEAN /\ restored = FALSE /\ locked \in BOOLEAN
  /\ configSaveMu = Nobody
  /\ todo = [t \in Threads \cup {UI} |-> <<>>]
  /\ queue = <<>> /\ closed = FALSE
  /\ views = <<>> /\ shown = Nobody
  /\ shellTabs = {} /\ mutations = <<>> /\ mutating = FALSE
  /\ nextID = 1 /\ gone = {} /\ saveOK = FALSE
  /\ messages = 0
-----------------------------------------------------------------------------
\* A loop that appends the elements at some positions to a new list: the k-th of them
\* is the one with k of these positions up to its own.
Nth(at, k) == CHOOSE i \in at : Cardinality({j \in at : j <= i}) = k
Picked(list, at) == [k \in 1..Cardinality(at) |-> list[Nth(at, k)]]

\* The tabs persistOpenTabs collects: neither Settings nor blank ones.
SaveableAt(list) == {i \in DOMAIN list : list[i].kind # "settings" /\ list[i].url # Blank}
Saveable(list) ==
  LET kept == Picked(list, SaveableAt(list))
  IN  [i \in DOMAIN kept |-> [kind |-> kept[i].kind, url |-> kept[i].url]]

\* sanitizeSavedTabs, on tabs that are valid already.
Sanitized(session) == SubSeq(session, 1, IF Len(session) > SessionLimit
                                         THEN SessionLimit ELSE Len(session))

\* dedupeRecentTabs: the shell saves one tab of each target.
DedupedTabs(session) ==
  Picked(session, {i \in DOMAIN session : \A j \in 1..i - 1 : session[j] # session[i]})

\* upsertTab: replace the tab with this ID where it is, or append it.
Upserted(list, t) ==
  IF t.id \in TabIDs(list) THEN [list EXCEPT ![Find(list, t.id)] = t] ELSE Append(list, t)

Without(list, id) == Picked(list, {i \in DOMAIN list : list[i].id # id})

\* A message arrives: its goroutine runs its first locked section and is left with
\* the steps in rest.  Messages are refused while the program is locked.
Message(t, rest) ==
  /\ ~locked /\ ~closed /\ todo[t] = <<>> /\ messages < MaxMessages
  /\ todo' = [todo EXCEPT ![t] = rest]
  /\ messages' = messages + 1

\* The user, or a page that changes its title, puts a mutation into the shell's queue.
Click(m) ==
  /\ ~locked /\ ~closed /\ messages < MaxMessages
  /\ mutations' = Append(mutations, m)
  /\ messages' = messages + 1

\* Mutant: the shell sends its mutations at once.
QueueFreeAlways == TRUE

\* queueNativeTabMutation: the next mutation waits for the reply to the last.
QueueFree == ~mutating

\* The shell sends the oldest mutation of its queue; its goroutine runs the first locked
\* section, and answers when the steps in rest are done.
Sends(t, op, rest) ==
  /\ Head(mutations).op = op /\ mutations' = Tail(mutations)
  /\ QueueFree /\ mutating' = TRUE
  /\ ~locked /\ ~closed /\ todo[t] = <<>>
  /\ todo' = [todo EXCEPT ![t] = rest \o <<Dispatch(Resolve)>>]

\* The close of a tab waits in the shell's queue.
ClosePending(id) == \E i \in DOMAIN mutations : mutations[i] = Close(id)
ShownOrClosing == shellTabs \cup {id \in IDs : ClosePending(id)}

\* What every message that edits the tabs leaves alone.
Elsewhere == <<openTabs, savedTabs, restoreTabs, locked, configSaveMu, queue, closed, views,
               shown, saveOK>>

\* What a message sent at once leaves alone in the shell, and a mutation in the program.
ShellQueue == <<shellTabs, mutations, mutating>>
Beyond     == <<Elsewhere, shellTabs, restored, nextID, messages>>

\* What a click leaves alone.
Program == <<tabs, activeTab, lastCloseTab, openTabs, savedTabs, restoreTabs, restored, locked,
             configSaveMu, todo, queue, closed, views, shown, mutating, gone, saveOK>>

\* newBrowserTab, up to the persist.
BrowserOpened(u) ==
  /\ nextID <= MaxTabs
  /\ tabs' = Append(tabs, [id |-> nextID, kind |-> "browser", url |-> u])
  /\ activeTab' = nextID /\ nextID' = nextID + 1
  /\ UNCHANGED <<lastCloseTab, restored, gone>>

NewBrowserTab(t) ==
  \E u \in Urls :
    /\ BrowserOpened(u)
    /\ Message(t, <<Persist, Dispatch(Show(nextID)), Dispatch(Open(nextID, u))>>)
    /\ UNCHANGED <<Elsewhere, ShellQueue>>

\* newTerminalTab, newVNCTab, newRDPTab: the shell draws the tab, so the native
\* views are hidden.
NewRemoteTab(t) ==
  \E u \in Urls :
    /\ nextID <= MaxTabs
    /\ tabs' = Upserted(tabs, [id |-> nextID, kind |-> "remote", url |-> u])
    /\ activeTab' = nextID /\ nextID' = nextID + 1
    /\ Message(t, <<Persist, Dispatch(HideAll)>>)
    /\ UNCHANGED <<Elsewhere, ShellQueue, lastCloseTab, restored, gone>>

SettingsTab == [id |-> Settings, kind |-> "settings", url |-> Blank]

OpenSettingsTab(t) ==
  /\ tabs' = Upserted(tabs, SettingsTab) /\ activeTab' = Settings
  /\ Message(t, <<Dispatch(HideAll)>>)
  /\ UNCHANGED <<Elsewhere, ShellQueue, lastCloseTab, restored, nextID, gone>>

\* The active tab, when it is a browser tab.
ActiveBrowser == {i \in DOMAIN tabs : tabs[i].id = activeTab /\ tabs[i].kind = "browser"}

\* navigateBrowser shows the tab after the save, when it may have been closed.
NavigateBrowser(t) ==
  \E u \in Urls :
    /\ tabs' = [i \in DOMAIN tabs |->
                  IF i \in ActiveBrowser THEN [tabs[i] EXCEPT !.url = u] ELSE tabs[i]]
    /\ Message(t, <<Persist>> \o IF ActiveBrowser = {} THEN <<>>
                                 ELSE <<Dispatch(Show(activeTab)), Dispatch(Open(activeTab, u))>>)
    /\ UNCHANGED <<Elsewhere, ShellQueue, activeTab, lastCloseTab, restored, nextID, gone>>

\* updateActiveBrowserTitle, of a page that reports another address.
UpdateActiveBrowserTitle(t) ==
  \E u \in Urls, i \in ActiveBrowser :
    /\ tabs[i].url # u
    /\ tabs' = [tabs EXCEPT ![i].url = u]
    /\ Message(t, <<Persist>>)
    /\ UNCHANGED <<Elsewhere, ShellQueue, activeTab, lastCloseTab, restored, nextID, gone>>

\* The locked section of switchTab, and the steps it leaves: a page is created
\* when it is first selected, and everything else is drawn by the shell.
Activated(id) == activeTab' = IF id \in TabIDs(tabs) THEN id ELSE activeTab

ShowSteps(id) ==
  IF id \notin TabIDs(tabs) THEN <<>>
  ELSE LET tab == tabs[Find(tabs, id)]
       IN  IF tab.kind = "browser" /\ tab.url # Blank
             THEN <<Dispatch(Select(id, tab.url))>> ELSE <<Dispatch(HideAll)>>

SwitchTab(t) ==
  \E id \in 0..nextID - 1 :
    /\ Activated(id)
    /\ Message(t, ShowSteps(id))
    /\ UNCHANGED <<Elsewhere, ShellQueue, tabs, lastCloseTab, restored, nextID, gone>>

\* reorderTab: move the tab before another one, or to the end, unless it is gone.
ReorderTab(t) ==
  LET id == Head(mutations).id
  IN  \/ /\ Sends(t, "reorder", <<Persist>>)
         /\ id \in TabIDs(tabs)
         /\ \E before \in 0..nextID - 1 :
              LET rest == Without(tabs, id)
                  moved == tabs[Find(tabs, id)]
              IN  tabs' = IF before \in TabIDs(rest)
                            THEN InsertAt(rest, Find(rest, before), moved)
                          ELSE Append(rest, moved)
         /\ UNCHANGED <<Beyond, activeTab, lastCloseTab, gone>>
      \/ /\ Sends(t, "reorder", <<>>)
         /\ id \notin TabIDs(tabs)
         /\ UNCHANGED <<Beyond, tabs, activeTab, lastCloseTab, gone>>

\* Mutant: forgetTab leaves the forgotten tab active.
ActiveAfterForgetKept(id) == activeTab

\* forgetTab: nothing is active after the active tab.
ActiveAfterForget(id) == IF activeTab = id THEN Nobody ELSE activeTab

ForgetTab(t) ==
  LET id == Head(mutations).id
  IN  /\ Sends(t, "forget", <<Dispatch(Destroy(id)), Persist>>)
      /\ tabs' = Without(tabs, id) /\ activeTab' = ActiveAfterForget(id)
      /\ gone' = gone \cup ({id} \ {Settings})
      /\ UNCHANGED <<Beyond, lastCloseTab>>

\* closeTab: the neighbour of the active tab becomes active, and after the persist
\* it is switched to, or the shell goes home.
CloseTab(t) ==
  LET id   == Head(mutations).id
      rest == Without(tabs, id)
      at   == Find(tabs, id)
      next == IF activeTab # id THEN activeTab
              ELSE IF rest = <<>> THEN Nobody
              ELSE rest[IF at > Len(rest) THEN Len(rest) ELSE at].id
  IN  /\ Sends(t, "close", <<Dispatch(Destroy(id)), Persist>> \o
                             IF rest = <<>> \/ next = Nobody THEN <<GoHome>>
                             ELSE IF activeTab = id THEN <<SwitchTo(next)>> ELSE <<>>)
      /\ id \in TabIDs(tabs)
      /\ tabs' = rest /\ activeTab' = next /\ lastCloseTab' = id
      /\ gone' = gone \cup ({id} \ {Settings})
      /\ UNCHANGED Beyond

\* closeTab of a tab that is not open, or the duplicate of the last close within
\* 250 ms: only the record of the last close changes.
CloseNothing(t) ==
  LET id == Head(mutations).id
  IN  /\ Sends(t, "close", <<>>)
      /\ id \notin TabIDs(tabs) \/ id = lastCloseTab
      /\ lastCloseTab' = id
      /\ UNCHANGED <<Beyond, tabs, activeTab, gone>>

\* The address of a registration: the one the shell gives, or else the one in the list.
Listed(id, u) == IF u = Missing /\ id \in TabIDs(tabs) THEN tabs[Find(tabs, id)].url ELSE u

\* registerLocalTab takes the shell's word that there is such a tab: it refuses one without
\* a valid address, but no ID.
RegisterSteps(id, kind, u) ==
  IF id = Settings THEN <<Upsert(SettingsTab), Persist>>
  ELSE IF Listed(id, u) \in Urls \/ (kind = "browser" /\ u = Blank)
         THEN <<Upsert([id |-> id, kind |-> kind, url |-> Listed(id, u)]), Persist>>
       ELSE <<>>

\* registerLocalTab, up to its second locked section, with what the shell had of the tab
\* when it queued the registration.
RegisterLocalTab(t) ==
  /\ \E kind \in {"browser", "remote"}, u \in Urls \cup {Blank, Missing} :
       Sends(t, "register", RegisterSteps(Head(mutations).id, kind, u))
  /\ UNCHANGED <<Beyond, tabs, activeTab, lastCloseTab, gone>>

ClearActiveTab(t) ==
  /\ Sends(t, "clear", <<Dispatch(HideAll)>>)
  /\ activeTab' = Nobody
  /\ UNCHANGED <<Beyond, tabs, lastCloseTab, gone>>

SendMutation(t) ==
  /\ mutations # <<>>
  /\ \/ ReorderTab(t) \/ ForgetTab(t) \/ CloseTab(t) \/ CloseNothing(t)
     \/ RegisterLocalTab(t) \/ ClearActiveTab(t)

\* The user moves or closes a tab, Settings or another one; a tab that is shown, or has a
\* new title, is registered again; the address bar is cleared for a new tab.
ClickTab ==
  /\ \/ \E id \in shellTabs : Click(Mutation("reorder", id)) /\ UNCHANGED shellTabs
     \/ Click(Mutation("forget", Settings)) /\ shellTabs' = shellTabs \ {Settings}
     \/ \E id \in 1..nextID - 1 : Click(Close(id)) /\ shellTabs' = shellTabs \ {id}
     \/ \E id \in shellTabs \cup {Settings} : Click(Register(id)) /\ UNCHANGED shellTabs
     \/ Click(Clear) /\ UNCHANGED shellTabs
  /\ UNCHANGED <<Program, nextID>>

\* The shell makes a tab itself, a blank one or a terminal.
ClickNewTab ==
  /\ nextID <= MaxTabs /\ nextID' = nextID + 1
  /\ Click(Register(nextID)) /\ shellTabs' = shellTabs \cup {nextID}
  /\ UNCHANGED Program

\* shellTabs: the first call after the unlock restores the saved session.  The shell shows
\* the tabs of the answer, but none that the user has closed before it came.
ShellTabs(t) ==
  LET session == Sanitized(openTabs)
      restore == ~restored /\ restoreTabs /\ tabs = <<>>
  IN  /\ restored' = TRUE
      /\ restore => nextID + Len(session) <= MaxTabs + 1
      /\ tabs' = IF ~restore THEN tabs
                 ELSE [i \in DOMAIN session |-> [id |-> nextID + i - 1, kind |-> session[i].kind,
                                                 url |-> session[i].url]]
      /\ activeTab' = IF restore /\ session # <<>> THEN nextID ELSE activeTab
      /\ nextID' = IF restore THEN nextID + Len(session) ELSE nextID
      /\ shellTabs' = shellTabs \cup {id \in TabIDs(tabs') : ~ClosePending(id)}
      /\ Message(t, <<>>)
      /\ UNCHANGED <<Elsewhere, mutations, mutating, lastCloseTab, gone>>

\* handleSaveTabs, with the list the shell had when it sent the request.
HandleSaveTabs(t) ==
  /\ ShellSaves
  /\ Message(t, <<SaveTabs(Sanitized(DedupedTabs(Saveable(tabs))))>>)
  /\ UNCHANGED <<Elsewhere, ShellQueue, tabs, activeTab, lastCloseTab, restored, nextID, gone>>

\* A page opens a window: newBrowserTab is queued for the GTK thread.
OpenPopup ==
  /\ Popups /\ ~closed /\ views # <<>> /\ messages < MaxMessages
  /\ \E u \in Urls : queue' = Append(queue, Popup(u))
  /\ messages' = messages + 1
  /\ UNCHANGED <<tabs, activeTab, lastCloseTab, openTabs, savedTabs, restoreTabs, restored,
                 locked, configSaveMu, todo, closed, views, shown, ShellQueue, nextID, gone,
                 saveOK>>
-----------------------------------------------------------------------------
\* Step t does s, the first of its todo list, and has more left in its place.
Does(t, s, more) ==
  /\ todo[t] # <<>> /\ s = Head(todo[t])
  /\ todo' = [todo EXCEPT ![t] = more \o Tail(@)]

\* Mutant: the list is collected and saved without configSaveMu.
MutexFreeAlways == TRUE

\* configSaveMu.Lock()
MutexFree == configSaveMu = Nobody

\* persistOpenTabs: take configSaveMu, then collect the tabs under mu.
BeginPersist(t) ==
  /\ MutexFree /\ configSaveMu' = t
  /\ \/ Does(t, Persist, <<SaveList(Saveable(tabs), TRUE)>>)
     \/ /\ todo[t] # <<>> /\ Head(todo[t]).do = "saveTabs"
        /\ Does(t, Head(todo[t]), <<SaveList(Head(todo[t]).session, FALSE)>>)
  /\ UNCHANGED <<tabs, activeTab, lastCloseTab, openTabs, savedTabs, restoreTabs, restored,
                 locked, queue, closed, views, shown, ShellQueue, nextID, gone, saveOK, messages>>

\* Mutant: a failed save returns without the mutex.
FailedSaveUnlockSkipped == UNCHANGED configSaveMu

\* The deferred Unlock, also when the save fails.
FailedSaveUnlock == configSaveMu' = Nobody

\* SaveConfig and the commit of the list, or its failure.  The file gets what
\* sanitizeSavedTabs leaves of the list, and the memory the list itself.
EndPersist(t) ==
  /\ todo[t] # <<>> /\ Head(todo[t]).do = "save"
  /\ Does(t, Head(todo[t]), <<>>)
  /\ \/ /\ openTabs' = Head(todo[t]).session /\ savedTabs' = Sanitized(Head(todo[t]).session)
        /\ saveOK' = Head(todo[t]).own /\ configSaveMu' = Nobody
     \/ /\ UNCHANGED <<openTabs, savedTabs>> /\ saveOK' = FALSE
        /\ FailedSaveUnlock
  /\ UNCHANGED <<tabs, activeTab, lastCloseTab, restoreTabs, restored, locked, queue,
                 closed, views, shown, ShellQueue, nextID, gone, messages>>

\* onUIThread: a closed window takes no more work.
QueueWork(t) ==
  /\ todo[t] # <<>> /\ Head(todo[t]).do = "dispatch"
  /\ Does(t, Head(todo[t]), <<>>)
  /\ queue' = IF closed THEN <<>> ELSE Append(queue, Head(todo[t]).work)
  /\ UNCHANGED <<tabs, activeTab, lastCloseTab, openTabs, savedTabs, restoreTabs, restored,
                 locked, configSaveMu, closed, views, shown, ShellQueue, nextID, gone, saveOK,
                 messages>>

\* The second locked section of registerLocalTab: a tab that is not in the list is
\* appended, a closed one too, and becomes active.
UpsertTab(tab) ==
  /\ tabs' = Upserted(tabs, tab)
  /\ activeTab' = IF tab.id \in TabIDs(tabs) THEN activeTab ELSE tab.id

EndRegister(t) ==
  /\ todo[t] # <<>> /\ Head(todo[t]).do = "upsert"
  /\ Does(t, Head(todo[t]), <<>>)
  /\ UpsertTab(Head(todo[t]).tab)
  /\ UNCHANGED <<Elsewhere, ShellQueue, lastCloseTab, restored, nextID, gone, messages>>

\* The end of closeTab: goHome, without its reload of the shell, or switchTab to the
\* neighbour.
EndClose(t) ==
  /\ todo[t] # <<>>
  /\ \/ Does(t, GoHome, <<Dispatch(HideAll)>>) /\ activeTab' = Nobody
     \/ /\ Head(todo[t]).do = "switch"
        /\ Activated(Head(todo[t]).id)
        /\ Does(t, Head(todo[t]), ShowSteps(Head(todo[t]).id))
  /\ UNCHANGED <<Elsewhere, ShellQueue, tabs, lastCloseTab, restored, nextID, gone, messages>>

Step(t) == BeginPersist(t) \/ EndPersist(t) \/ QueueWork(t) \/ EndRegister(t) \/ EndClose(t)

\* linuxContentManager.Destroy
Destroyed(id) == [i \in DOMAIN views \ {id} |-> views[i]]

\* Ensure and Navigate: the view of a tab, new or not, loads an address.
Ensured(id, url) == [i \in DOMAIN views \cup {id} |-> IF i = id THEN url ELSE views[i]]

\* drainQueue: the GTK thread runs the oldest queued function.
RunQueued ==
  /\ queue # <<>> /\ todo[UI] = <<>> /\ queue' = Tail(queue)
  /\ LET f == Head(queue)
     IN  \/ /\ f.fn = "open" \/ (f.fn = "select" /\ f.id \notin DOMAIN views)
            /\ views' = Ensured(f.id, f.url)
            /\ shown' = f.id
            /\ UNCHANGED ShellQueue
         \/ /\ f.fn = "select" /\ f.id \in DOMAIN views
            /\ shown' = f.id
            /\ UNCHANGED <<views, ShellQueue>>
         \/ /\ f.fn = "hide" /\ shown' = Nobody
            /\ UNCHANGED <<views, ShellQueue>>
         \/ /\ f.fn = "destroy"
            /\ views' = Destroyed(f.id)
            /\ shown' = IF shown = f.id THEN Nobody ELSE shown
            /\ UNCHANGED ShellQueue
         \/ /\ f.fn = "resolve" /\ mutating' = FALSE
            /\ UNCHANGED <<views, shown, shellTabs, mutations>>
         \/ /\ f.fn = "show"
            /\ shellTabs' = shellTabs \cup {f.id}
            /\ mutations' = Append(mutations, Register(f.id))
            /\ UNCHANGED <<views, shown, mutating>>
  /\ UNCHANGED <<tabs, activeTab, lastCloseTab, openTabs, savedTabs, restoreTabs, restored,
                 locked, configSaveMu, todo, closed, nextID, gone, saveOK, messages>>

\* A popup runs newBrowserTab on the GTK thread, with its persist and its dispatches, or
\* has an address that is refused.
RunPopup ==
  /\ queue # <<>> /\ todo[UI] = <<>> /\ Head(queue).fn = "popup" /\ queue' = Tail(queue)
  /\ \/ /\ BrowserOpened(Head(queue).url)
        /\ todo' = [todo EXCEPT ![UI] = <<Persist, Dispatch(Show(nextID)),
                                          Dispatch(Open(nextID, Head(queue).url))>>]
     \/ UNCHANGED <<tabs, activeTab, lastCloseTab, restored, nextID, gone, todo>>
  /\ UNCHANGED <<openTabs, savedTabs, restoreTabs, locked, configSaveMu, closed, views, shown,
                 ShellQueue, saveOK, messages>>

\* closeQueue: the window is destroyed with its views.
CloseWindow ==
  /\ ~closed /\ closed' = TRUE /\ queue' = <<>>
  /\ todo[UI] = <<>>
  /\ views' = <<>> /\ shown' = Nobody
  /\ UNCHANGED <<tabs, activeTab, lastCloseTab, openTabs, savedTabs, restoreTabs, restored,
                 locked, configSaveMu, todo, ShellQueue, nextID, gone, saveOK, messages>>

\* handleUnlock
Unlock ==
  /\ locked /\ locked' = FALSE
  /\ UNCHANGED <<tabs, activeTab, lastCloseTab, openTabs, savedTabs, restoreTabs, restored,
                 configSaveMu, todo, queue, closed, views, shown, ShellQueue, nextID, gone,
                 saveOK, messages>>

\* The user acts once the shell has its tabs, or before.
ShellMessage(t) ==
  /\ restored \/ EarlyMessages
  /\ \/ NewBrowserTab(t) \/ NewRemoteTab(t) \/ OpenSettingsTab(t) \/ NavigateBrowser(t)
     \/ UpdateActiveBrowserTitle(t) \/ SwitchTab(t) \/ HandleSaveTabs(t)
ShellClick == (restored \/ EarlyMessages) /\ (ClickTab \/ ClickNewTab)

SomeSend == \E t \in Threads : SendMutation(t)

Next ==
  \/ \E t \in Threads : ShellTabs(t) \/ ShellMessage(t)
  \/ ShellClick \/ SomeSend
  \/ \E t \in Threads \cup {UI} : Step(t)
  \/ OpenPopup \/ RunQueued \/ RunPopup \/ CloseWindow \/ Unlock

Spec == Init /\ [][Next]_vars

\* Goroutines, the GTK main loop and the shell's promises are scheduled, and a free mutex
\* is granted in turn: sync.Mutex hands it to a waiter that has waited too long.
Fairness ==
  /\ \A t \in Threads \cup {UI} : SF_vars(Step(t))
  /\ WF_vars(RunQueued) /\ WF_vars(RunPopup) /\ WF_vars(SomeSend)

FairSpec == Spec /\ Fairness
-----------------------------------------------------------------------------
\* Nothing is in flight: no goroutine has work left and the queue is empty.
AtRest == queue = <<>> /\ \A t \in Threads \cup {UI} : todo[t] = <<>>

\* The active tab is an open one, and its ID stands for no other tab, through every
\* interleaving of closeTab, forgetTab, switchTab and registerLocalTab: each of them
\* checks the list and changes the active tab in the same locked section.
ActiveIsOpen ==
  activeTab # Nobody => Cardinality({i \in DOMAIN tabs : tabs[i].id = activeTab}) = 1

\* Once nothing is in flight and the last save was one of persistOpenTabs and succeeded,
\* the configuration in memory has the tab list, and the file has as much of it as
\* sanitizeSavedTabs lets through, whatever order the goroutines persisted in and whatever
\* the shell saved before: persistOpenTabs collects the tabs after it has configSaveMu, so
\* its save is never of an older list.
ListIsSaved    == openTabs = Saveable(tabs) /\ savedTabs = Sanitized(Saveable(tabs))
SessionIsSaved == AtRest /\ saveOK => ListIsSaved

\* registerLocalTab refuses no ID, so a tab that was closed may come back: a navigation that
\* was being saved meanwhile shows it again.  But it comes back only while the shell shows
\* it, or has another close of it on its way: no registration queued before the close
\* reopens a tab behind the user's back, because the shell sends its mutations one by one.
OnlyShownReturn ==
  [][gone \cap (TabIDs(tabs') \ TabIDs(tabs)) \subseteq ShownOrClosing]_vars

\* Once nothing is in flight every native view belongs to an open tab.
ViewsAreOpen == AtRest => DOMAIN views \subseteq TabIDs(tabs)

\* Every message is handled, the GTK thread's queue drains and so does the shell's, however
\* saves fail, unless the window is closed, which drops what is queued: nobody waits for
\* ever for configSaveMu, least of all the GTK thread that runs a popup, and no mutation
\* waits for ever for the reply to another.
WorkEnds ==
  /\ \A t \in Threads \cup {UI} : todo[t] # <<>> ~> todo[t] = <<>>
  /\ queue # <<>> ~> queue = <<>>
  /\ mutations # <<>> \/ mutating ~> closed \/ (mutations = <<>> /\ ~mutating)
-----------------------------------------------------------------------------
\* Why ActiveIsOpen, OnlyShownReturn and SessionIsSaved hold: the inductive invariant
\* of the proofs.
Everyone == Threads \cup {UI}
Resolution == Dispatch(Resolve)

\* An ID stands for one tab and has been given out; Settings has its own.
ListInv ==
  /\ \A i, j \in DOMAIN tabs : tabs[i].id = tabs[j].id => i = j
  /\ \A i \in DOMAIN tabs : /\ tabs[i].id < nextID
                            /\ tabs[i].id = Settings => tabs[i].kind = "settings"
  /\ activeTab # Nobody => activeTab \in TabIDs(tabs)

\* The shell shows, and is told to show, only tabs whose ID has been given out.
ShellInv ==
  /\ \A id \in shellTabs : id < nextID
  /\ \A i \in DOMAIN queue : queue[i].fn = "show" => queue[i].id < nextID

\* The tabs of the mutations in the shell's queue have been given out.  A tab whose
\* registration waits there is one the shell shows, or its close waits behind it.
PendingInv ==
  \A i \in DOMAIN mutations :
    /\ mutations[i].op # "clear" => mutations[i].id < nextID
    /\ mutations[i].op = "register" =>
         \/ mutations[i].id = Settings \/ mutations[i].id \in shellTabs
         \/ \E j \in DOMAIN mutations : j > i /\ mutations[j] = Close(mutations[i].id)

\* So is a tab that registerLocalTab is going to write; its goroutine persists the list
\* after that, and then answers the shell's queue.  A tab that is going to be shown has been
\* given out.
RegisterInv ==
  \A t \in Everyone : \A i \in DOMAIN todo[t] :
    /\ todo[t][i].do = "upsert" =>
         /\ todo[t][i].tab.id < nextID
         /\ todo[t][i].tab.id = Settings => todo[t][i].tab.kind = "settings"
         /\ todo[t][i].tab.id \in ShownOrClosing \cup {Settings}
         /\ \E j \in DOMAIN todo[t] : j > i /\ todo[t][j] = Persist
         /\ \E j \in DOMAIN todo[t] : j > i /\ todo[t][j] = Resolution
    /\ todo[t][i].do = "dispatch" /\ todo[t][i].work.fn = "show" => todo[t][i].work.id < nextID

\* At most one mutation of the shell's queue is under way, and its answer is still to be
\* dispatched or is queued, not both.
MutationInv ==
  /\ \A t, u \in Everyone : \A i \in DOMAIN todo[t], j \in DOMAIN todo[u] :
       todo[t][i] = Resolution /\ todo[u][j] = Resolution => t = u /\ i = j
  /\ \A i, j \in DOMAIN queue : queue[i] = Resolve /\ queue[j] = Resolve => i = j
  /\ \A t \in Everyone : \A i \in DOMAIN todo[t] : todo[t][i] = Resolution =>
       mutating /\ \A j \in DOMAIN queue : queue[j] # Resolve
  /\ \A j \in DOMAIN queue : queue[j] = Resolve => mutating

\* Whoever saves has configSaveMu.
SaverInv ==
  \A t \in Everyone : \A i \in DOMAIN todo[t] : todo[t][i].do = "save" => i = 1 /\ configSaveMu = t

\* Somebody is still to collect the tabs.
WillPersist == \E t \in Everyone : \E i \in DOMAIN todo[t] : todo[t][i] = Persist

\* A list that was collected, or saved last, is the one of this moment, or will be
\* replaced.
CollectedInv ==
  /\ \A t \in Everyone : \A i \in DOMAIN todo[t] : todo[t][i].do = "save" /\ todo[t][i].own =>
       todo[t][i].session = Saveable(tabs) \/ WillPersist
  /\ saveOK => \/ WillPersist \/ ListIsSaved
               \/ \E t \in Everyone : \E i \in DOMAIN todo[t] :
                    todo[t][i] = SaveList(Saveable(tabs), TRUE)

\* Before the shell has fetched its tabs nothing has happened.
FirstInv ==
  ~restored => /\ tabs = <<>> /\ ~saveOK /\ queue = <<>> /\ views = <<>> /\ mutations = <<>>
               /\ \A t \in Everyone : todo[t] = <<>>

\* The inductive invariant beyond TypeOK, and the part about the saved session, which
\* asks that the user acts after the restore.
IInv == ListInv /\ ShellInv /\ PendingInv /\ RegisterInv /\ MutationInv
SessionInv == SaverInv /\ CollectedInv /\ FirstInv
=============================================================================
