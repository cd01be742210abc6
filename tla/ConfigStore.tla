---------------------------- MODULE ConfigStore ----------------------------
(***************************************************************************)
(* The settings of womprat (cmd/womprat/config.go and the handlers of      *)
(* settings_api.go, search_settings.go, address_history.go, logging.go,    *)
(* browser_settings.go, main.go).  Every change follows one pattern: take  *)
(* configSaveMu, clone the configuration in memory, edit the clone,        *)
(* SaveConfig (normalise, encrypt, write a temporary file, rename it over  *)
(* config.enc), and on success commit the changed part to memory.          *)
(*                                                                         *)
(* A request that waits for the mutex has changed nothing, so taking the   *)
(* mutex, validating the body and cloning is one step.  The temporary file *)
(* is seen by nobody before the rename, so writing it and renaming it is   *)
(* one step that happens or fails; the commit to memory is another.        *)
(***************************************************************************)
EXTENDS Naturals, Sequences, FiniteSets

CONSTANTS
  Workers,       \* goroutines that run settings handlers and SSH handshakes
  Nobody,        \* the free mutex
  Vals,          \* values of a plain preference, of a host's nickname and URL
  DefaultVal,    \* the value of a preference nobody has set
  NormalVal,     \* NormalVal[v]: v as normalizeConfig stores it
  Hosts, Keys,   \* SSH hosts and host keys
  NoKey,         \* no key is stored for a host
  Items,         \* entries of the two bounded lists
  ListLimit,     \* their bound (100 in the code)
  Passwords,     \* master passwords
  NoPassword,
  MaxRequests    \* bound on the number of requests in a behaviour

ASSUME ConfigAssumption ==
  /\ Nobody \notin Workers
  /\ DefaultVal \in Vals /\ NormalVal \in [Vals -> Vals]
  /\ NormalVal[DefaultVal] = DefaultVal
  /\ \A v \in Vals : NormalVal[NormalVal[v]] = NormalVal[v]
  /\ NoKey \notin Keys /\ NoPassword \notin Passwords
  /\ ListLimit \in Nat \ {0} /\ MaxRequests \in Nat

\* The plain preferences, each replaced as a whole by its handler.
Prefs == {"appearance", "openTabs", "debugLog", "searchProvider", "savePasswords",
          "exitNode"}

HostConf == [key : Keys \cup {NoKey}, note : Vals]
NoHost   == [key |-> NoKey, note |-> DefaultVal]

Config == [unlock  : {"dpapi", "master"},
           prefs   : [Prefs -> Vals],
           hosts   : [Hosts -> HostConf],
           recents : Seq(Items),
           history : Seq(Items)]

\* defaultConfig
Default == [unlock  |-> "dpapi",
            prefs   |-> [f \in Prefs |-> DefaultVal],
            hosts   |-> [h \in Hosts |-> NoHost],
            recents |-> <<>>,
            history |-> <<>>]

\* normalizeConfig, on the parts that a commit to memory leaves raw: preferences
\* and the text of a host.  A stored host key is never rewritten.
Normal(c) ==
  [unlock  |-> c.unlock,
   prefs   |-> [f \in Prefs |-> NormalVal[c.prefs[f]]],
   hosts   |-> [h \in Hosts |-> [key  |-> c.hosts[h].key,
                                 note |-> NormalVal[c.hosts[h].note]]],
   recents |-> c.recents,
   history |-> c.history]

VARIABLES
  running,       \* the process runs
  config,        \* App.config
  file,          \* the content of config.enc
  masterHash,    \* creds/master-hash
  configSaveMu,
  pc, req, snap, \* of each worker: where it is, its request, its edited clone
  locked,        \* App.locked
  unread,        \* the program started without its file and has not saved since
  trusted,       \* host keys accepted for a host since it was last forgotten
  requests       \* requests so far

vars == <<running, config, file, masterHash, configSaveMu, pc, req, snap, locked,
          unread, trusted, requests>>

\* The changes, as data.
Requests ==
  [kind : {"unlock"}, method : {"dpapi", "master"}]
    \cup [kind : {"pref"}, field : Prefs, val : Vals]
    \cup [kind : {"patch"}, host : Hosts, val : Vals]
    \cup [kind : {"delete"}, host : Hosts]
    \cup [kind : {"pin"}, host : Hosts, key : Keys]
    \cup [kind : {"hide", "visit"}, item : Items]

NoRequest == [kind |-> "none"]

Entries(list) == {list[i] : i \in DOMAIN list}

\* handleRemoveRecent: append, and keep the newest ListLimit entries.
Hidden(list, x) ==
  LET l == Append(list, x)
  IN  IF Len(l) > ListLimit THEN SubSeq(l, Len(l) - ListLimit + 1, Len(l)) ELSE l

\* normalizeAddressHistory of the new entry in front of the old ones: the first
\* occurrence of an entry stays, and the first ListLimit of them.
Visited(list, x) ==
  LET l == <<x>> \o SelectSeq(list, LAMBDA y : y # x)
  IN  IF Len(l) > ListLimit THEN SubSeq(l, 1, ListLimit) ELSE l

\* The clone of a configuration with a request carried out.  A handler commits
\* the same part to App.config after the save.
Changed(r, c) ==
  CASE r.kind = "unlock" -> [c EXCEPT !.unlock = r.method]
    [] r.kind = "pref"   -> [c EXCEPT !.prefs[r.field] = r.val]
    [] r.kind = "patch"  -> [c EXCEPT !.hosts[r.host].note = r.val]
    [] r.kind = "delete" -> [c EXCEPT !.hosts[r.host] = NoHost]
    [] r.kind = "pin"    -> [c EXCEPT !.hosts[r.host].key = r.key]
    [] r.kind = "hide"   -> [c EXCEPT !.recents = Hidden(c.recents, r.item)]
    [] r.kind = "visit"  -> [c EXCEPT !.history = Visited(c.history, r.item)]

\* The part of memory that the commit of request r takes from the clone s.
Committed(r, s, c) ==
  CASE r.kind = "unlock" -> [c EXCEPT !.unlock = s.unlock]
    [] r.kind = "pref"   -> [c EXCEPT !.prefs[r.field] = s.prefs[r.field]]
    [] r.kind \in {"patch", "delete", "pin"} ->
         [c EXCEPT !.hosts[r.host] = s.hosts[r.host]]
    [] r.kind = "hide"   -> [c EXCEPT !.recents = s.recents]
    [] r.kind = "visit"  -> [c EXCEPT !.history = s.history]

TypeOK ==
  /\ running \in BOOLEAN /\ locked \in BOOLEAN /\ unread \in BOOLEAN
  /\ config \in Config /\ file \in Config
  /\ \A c \in {config, file} : Len(c.recents) <= ListLimit /\ Len(c.history) <= ListLimit
  /\ masterHash \in Passwords \cup {NoPassword}
  /\ configSaveMu \in Workers \cup {Nobody}
  /\ pc \in [Workers -> {"idle", "saving", "saved"}]
  /\ req \in [Workers -> Requests \cup {NoRequest}]
  /\ snap \in [Workers -> Config]
  /\ trusted \in [Hosts -> SUBSET Keys]
  /\ requests \in 0..MaxRequests

\* A missing file loads as the defaults, so the store starts with them.
Init ==
  /\ running = FALSE /\ locked = FALSE /\ unread = FALSE
  /\ config = Default /\ file = Normal(Default)
  /\ masterHash = NoPassword
  /\ configSaveMu = Nobody
  /\ pc = [w \in Workers |-> "idle"]
  /\ req = [w \in Workers |-> NoRequest]
  /\ snap = [w \in Workers |-> Default]
  /\ trusted = [h \in Hosts |-> {}]
  /\ requests = 0
-----------------------------------------------------------------------------
\* shouldStartLocked
StartsLocked(c) == c.unlock = "master" /\ masterHash # NoPassword

\* LoadConfig succeeds: the file is normalised again.
Start ==
  /\ ~running /\ running' = TRUE
  /\ config' = Normal(file)
  /\ locked' = StartsLocked(config')
  /\ unread' = FALSE
  /\ UNCHANGED <<file, masterHash, configSaveMu, pc, req, snap, trusted, requests>>

\* LoadConfig cannot read, decrypt or decode the file: the program runs on the
\* defaults and has forgotten every pinned host key.
StartUnreadable ==
  /\ ~running /\ running' = TRUE
  /\ config' = Default
  /\ locked' = FALSE /\ unread' = TRUE
  /\ trusted' = [h \in Hosts |-> {}]
  /\ UNCHANGED <<file, masterHash, configSaveMu, pc, req, snap, requests>>

\* The process dies between any two steps; only the files survive.
Crash ==
  /\ running /\ running' = FALSE
  /\ config' = Default /\ locked' = FALSE /\ unread' = FALSE
  /\ configSaveMu' = Nobody
  /\ pc' = [w \in Workers |-> "idle"]
  /\ req' = [w \in Workers |-> NoRequest]
  /\ snap' = [w \in Workers |-> Default]
  /\ UNCHANGED <<file, masterHash, trusted, requests>>

\* Mutant: the handlers do not hold configSaveMu across the save.
MutexFreeSkipped == TRUE

\* configSaveMu.Lock()
MutexFree == configSaveMu = Nobody

\* Take configSaveMu, clone App.config under mu and edit the clone.
Begin(w, r) ==
  /\ running /\ pc[w] = "idle" /\ MutexFree /\ requests < MaxRequests
  /\ configSaveMu' = w
  /\ pc' = [pc EXCEPT ![w] = "saving"]
  /\ req' = [req EXCEPT ![w] = r]
  /\ snap' = [snap EXCEPT ![w] = Changed(r, config)]
  /\ requests' = requests + 1

\* The handlers.  Those behind authMiddleware are refused while locked; a body
\* that is not valid changes nothing.
SetUnlockMethod(w) ==
  /\ ~locked
  /\ \E m \in {"dpapi", "master"} : Begin(w, [kind |-> "unlock", method |-> m])
  /\ UNCHANGED <<running, config, file, masterHash, locked, unread, trusted>>

\* handleSetMasterPassword: the new hash is stored before the configuration.
SetMasterPassword(w) ==
  /\ ~locked
  /\ Begin(w, [kind |-> "unlock", method |-> "master"])
  /\ masterHash' \in Passwords
  /\ UNCHANGED <<running, config, file, locked, unread, trusted>>

\* The handlers of the preferences normalise or validate the value first.
SetPref(w, f) ==
  /\ ~locked
  /\ \E v \in Vals : Begin(w, [kind |-> "pref", field |-> f, val |-> NormalVal[v]])
  /\ UNCHANGED <<running, config, file, masterHash, locked, unread, trusted>>

HandleAppearance(w)          == SetPref(w, "appearance")
HandleSaveTabs(w)            == SetPref(w, "openTabs")
HandleDebugLog(w)            == SetPref(w, "debugLog")
HandleSearchProvider(w)      == SetPref(w, "searchProvider")
HandleSavePasswordsToggle(w) == SetPref(w, "savePasswords")
HandleExitNode(w)            == SetPref(w, "exitNode")

\* persistOpenTabs runs for every tab operation of the window, locked or not, and
\* commits the list it collected, not the sanitised one.
PersistOpenTabs(w) ==
  /\ \E v \in Vals : Begin(w, [kind |-> "pref", field |-> "openTabs", val |-> v])
  /\ UNCHANGED <<running, config, file, masterHash, locked, unread, trusted>>

PatchHost(w) ==
  /\ ~locked
  /\ \E h \in Hosts, v \in Vals : Begin(w, [kind |-> "patch", host |-> h, val |-> v])
  /\ UNCHANGED <<running, config, file, masterHash, locked, unread, trusted>>

DeleteHost(w) ==
  /\ ~locked
  /\ \E h \in Hosts : Begin(w, [kind |-> "delete", host |-> h])
  /\ UNCHANGED <<running, config, file, masterHash, locked, unread, trusted>>

\* handleRemoveRecent: an entry that is already hidden is not saved again.
RemoveRecent(w) ==
  /\ ~locked
  /\ \E x \in Items \ Entries(config.recents) : Begin(w, [kind |-> "hide", item |-> x])
  /\ UNCHANGED <<running, config, file, masterHash, locked, unread, trusted>>

HandleAddressHistory(w) ==
  /\ ~locked
  /\ \E x \in Items : Begin(w, [kind |-> "visit", item |-> x])
  /\ UNCHANGED <<running, config, file, masterHash, locked, unread, trusted>>

\* hostKeyCallback, first use of a host: the key is pinned before it is trusted.
PinHostKey(w) ==
  /\ \E h \in Hosts, k \in Keys :
       /\ config.hosts[h].key = NoKey
       /\ Begin(w, [kind |-> "pin", host |-> h, key |-> k])
  /\ UNCHANGED <<running, config, file, masterHash, locked, unread, trusted>>

\* hostKeyCallback, known host: only the pinned key is accepted (a mismatch is
\* refused and changes nothing).
MatchHostKey(w) ==
  /\ running /\ pc[w] = "idle" /\ MutexFree /\ requests < MaxRequests
  /\ \E h \in Hosts, k \in Keys :
       /\ config.hosts[h].key = k
       /\ trusted' = [trusted EXCEPT ![h] = @ \cup {k}]
  /\ requests' = requests + 1
  /\ UNCHANGED <<running, config, file, masterHash, configSaveMu, pc, req, snap, locked,
                 unread>>

\* The content that SaveConfig writes.
SavedFile(w) == Normal(snap[w])

\* SaveConfig succeeds: the rename replaces the file as a whole.  From then on
\* nobody may trust the key of a deleted host.
SaveSucceeds(w) ==
  /\ pc[w] = "saving"
  /\ file' = SavedFile(w)
  /\ unread' = FALSE
  /\ trusted' = IF req[w].kind = "delete"
                 THEN [trusted EXCEPT ![req[w].host] = {}] ELSE trusted
  /\ pc' = [pc EXCEPT ![w] = "saved"]
  /\ UNCHANGED <<running, config, masterHash, configSaveMu, req, snap, locked, requests>>

\* What a worker leaves behind.
End(w) ==
  /\ configSaveMu' = Nobody
  /\ pc' = [pc EXCEPT ![w] = "idle"]
  /\ req' = [req EXCEPT ![w] = NoRequest]
  /\ snap' = [snap EXCEPT ![w] = Default]

\* Mutant: memory takes the change although the save failed.
FailedCommitKept(w) == config' = Committed(req[w], snap[w], config)

\* A failed save leaves memory alone.
FailedCommit(w) == UNCHANGED config

\* SaveConfig fails at any of its steps: the old file stays, the request fails.
SaveFails(w) ==
  /\ pc[w] = "saving"
  /\ FailedCommit(w)
  /\ End(w)
  /\ UNCHANGED <<running, file, masterHash, locked, unread, trusted, requests>>

\* The commit to memory; only now does the handshake trust a new key.
Commit(w) ==
  /\ pc[w] = "saved"
  /\ config' = Committed(req[w], snap[w], config)
  /\ trusted' = IF req[w].kind = "pin"
                 THEN [trusted EXCEPT ![req[w].host] = @ \cup {req[w].key}] ELSE trusted
  /\ End(w)
  /\ UNCHANGED <<running, file, masterHash, locked, unread, requests>>

\* handleUnlock with the right password.
Unlock ==
  /\ running /\ locked /\ masterHash # NoPassword
  /\ locked' = FALSE
  /\ UNCHANGED <<running, config, file, masterHash, configSaveMu, pc, req, snap,
                 unread, trusted, requests>>

Request(w) ==
  \/ SetUnlockMethod(w) \/ SetMasterPassword(w)
  \/ HandleAppearance(w) \/ HandleSaveTabs(w) \/ HandleDebugLog(w)
  \/ HandleSearchProvider(w) \/ HandleSavePasswordsToggle(w) \/ HandleExitNode(w)
  \/ PersistOpenTabs(w) \/ PatchHost(w) \/ DeleteHost(w) \/ RemoveRecent(w)
  \/ HandleAddressHistory(w) \/ PinHostKey(w) \/ MatchHostKey(w)

Next ==
  \/ Start \/ StartUnreadable \/ Crash \/ Unlock
  \/ \E w \in Workers : \/ Request(w) \/ SaveSucceeds(w) \/ SaveFails(w) \/ Commit(w)

Spec == Init /\ [][Next]_vars
-----------------------------------------------------------------------------
\* Between two saves the file holds what memory holds: no handler has written a
\* stale clone over another handler's change, and none has kept a change whose
\* save failed (the clone, SaveConfig, commit pattern under configSaveMu).
FileHoldsMemory ==
  running /\ configSaveMu = Nobody /\ ~unread => file = Normal(config)

\* A host key that a handshake has accepted (hostKeyCallback) is in the file, and
\* stays there until the user deletes the host: no concurrent save, failed save
\* or crash makes the next connection trust a second key.
TrustIsPinned == \A h \in Hosts : trusted[h] \subseteq {file.hosts[h].key}

\* A recent card the user dismissed (handleRemoveRecent) comes back only as the
\* oldest of ListLimit when another is dismissed, or when a program that could
\* not read its file saves.
HiddenStays ==
  [][\A x \in Entries(file.recents) \ Entries(file'.recents) :
       \/ unread
       \/ /\ Len(file.recents) = ListLimit /\ x = Head(file.recents)
          /\ Len(file'.recents) = ListLimit /\ SubSeq(file'.recents, 1, ListLimit - 1) = Tail(file.recents)]_vars

-----------------------------------------------------------------------------
\* The parts of the inductive invariant.  The lists play no role in it.
Shape(c) ==
  /\ c = [unlock |-> c.unlock, prefs |-> c.prefs, hosts |-> c.hosts,
          recents |-> c.recents, history |-> c.history]
  /\ c.prefs \in [Prefs -> Vals] /\ c.hosts \in [Hosts -> HostConf]

IShape ==
  /\ running \in BOOLEAN /\ unread \in BOOLEAN
  /\ configSaveMu \in Workers \cup {Nobody}
  /\ pc \in [Workers -> {"idle", "saving", "saved"}]
  /\ req \in [Workers -> Requests \cup {NoRequest}]
  /\ DOMAIN snap = Workers
  /\ Shape(config) /\ Shape(file) /\ Normal(file) = file
  /\ trusted \in [Hosts -> SUBSET Keys]

\* configSaveMu is held by the one worker with a request, and by nobody else.
IMutex ==
  /\ \A w \in Workers : pc[w] # "idle" <=> configSaveMu = w
  /\ ~running => configSaveMu = Nobody /\ config = Default

\* The clone of a worker is memory with its request carried out, and a handshake
\* pins a key only where memory has none.
IClone ==
  \A w \in Workers : pc[w] # "idle" =>
    /\ req[w] \in Requests
    /\ snap[w] = Changed(req[w], config)
    /\ req[w].kind = "pin" => config.hosts[req[w].host].key = NoKey

\* The file is memory, with the change of the worker between its save and its
\* commit, unless the program started without it and has not saved.
IFile ==
  /\ \A w \in Workers : pc[w] = "saved" => file = Normal(snap[w]) /\ ~unread
  /\ running /\ ~unread /\ (\A w \in Workers : pc[w] # "saved") => file = Normal(config)
  /\ unread => config = Default /\ trusted = [h \in Hosts |-> {}]

\* The inductive invariant behind FileHoldsMemory, TrustIsPinned and
\* SavesAreAtomic: what the mutex protects, what the clone is, and which of the
\* two, file or memory, is ahead.
IInv == IShape /\ IMutex /\ IClone /\ IFile /\ TrustIsPinned

\* The dismissed cards, in memory and in the file, keep their limit; HiddenStays
\* needs that besides IInv.
IRecents == \A c \in {config, file} : c.recents \in Seq(Items) /\ Len(c.recents) <= ListLimit
-----------------------------------------------------------------------------
\* A worker that has saved and not yet committed.
Saved == {w \in Workers : pc[w] = "saved"}

\* What the program will work with: memory, with the saved change in it.
View == IF Saved = {} THEN config
        ELSE LET w == CHOOSE w \in Saved : TRUE IN Committed(req[w], snap[w], config)

Abstract == INSTANCE AtomicConfig WITH saved <- file, view <- View

\* Every handler, with its mutex, its clone, its save that may fail, its commit
\* and the crashes between them, is one atomic change of one durable
\* configuration.
SavesAreAtomic == Abstract!Spec
=============================================================================
