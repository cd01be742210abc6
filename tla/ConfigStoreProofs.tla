------------------------- MODULE ConfigStoreProofs -------------------------
(***************************************************************************)
(* Proofs about ConfigStore: the file holds what memory holds, an accepted *)
(* host key is pinned, a dismissed card stays dismissed, and the store     *)
(* implements AtomicConfig.                                                *)
(***************************************************************************)
EXTENDS ConfigStore, TLAPS

USE ConfigAssumption

\* The two configurations that are not edited ones: the defaults, and a copy in
\* normal form.
LEMMA DefaultShape == Shape(Default) /\ Normal(Default) = Default
  <1>1. Default.prefs \in [Prefs -> Vals] /\ Default.hosts \in [Hosts -> HostConf]
    BY DEF Default, HostConf, NoHost
  <1>2. Normal(Default).prefs = Default.prefs
    BY DEF Normal, Default
  <1>3. Normal(Default).hosts = Default.hosts
    BY DEF Normal, Default, NoHost
  <1> QED BY <1>1, <1>2, <1>3 DEF Shape, Default, Normal

\* A record with the five fields of a configuration, and the same with one field
\* replaced.
LEMMA Fields ==
  ASSUME NEW c, Shape(c)
  PROVE  /\ \A x : [c EXCEPT !.unlock = x] =
              [unlock |-> x, prefs |-> c.prefs, hosts |-> c.hosts,
               recents |-> c.recents, history |-> c.history]
         /\ \A x : [c EXCEPT !.recents = x] =
              [unlock |-> c.unlock, prefs |-> c.prefs, hosts |-> c.hosts,
               recents |-> x, history |-> c.history]
         /\ \A x : [c EXCEPT !.history = x] =
              [unlock |-> c.unlock, prefs |-> c.prefs, hosts |-> c.hosts,
               recents |-> c.recents, history |-> x]
  <1>1. PICK u, p, q, l, y : c = [unlock |-> u, prefs |-> p, hosts |-> q,
                                  recents |-> l, history |-> y]
    BY DEF Shape
  <1>2. \A x : [c EXCEPT !.unlock = x] =
                 [unlock |-> x, prefs |-> c.prefs, hosts |-> c.hosts,
                  recents |-> c.recents, history |-> c.history]
    BY <1>1
  <1>3. \A x : [c EXCEPT !.recents = x] =
                 [unlock |-> c.unlock, prefs |-> c.prefs, hosts |-> c.hosts,
                  recents |-> x, history |-> c.history]
    BY <1>1
  <1>4. \A x : [c EXCEPT !.history = x] =
                 [unlock |-> c.unlock, prefs |-> c.prefs, hosts |-> c.hosts,
                  recents |-> c.recents, history |-> x]
    BY <1>1
  <1> QED BY <1>2, <1>3, <1>4

\* normalize keeps the shape of a configuration, and twice is once.
LEMMA NormalShape ==
  ASSUME NEW c, Shape(c)
  PROVE  Shape(Normal(c)) /\ Normal(Normal(c)) = Normal(c)
  <1> DEFINE n == Normal(c)
  <1>1. n = [unlock |-> c.unlock, prefs |-> n.prefs, hosts |-> n.hosts,
             recents |-> c.recents, history |-> c.history]
    BY DEF Normal
  <1>2. n.prefs = [f \in Prefs |-> NormalVal[c.prefs[f]]]
    BY DEF Shape, Normal
  <1>3. n.hosts = [h \in Hosts |-> [key |-> c.hosts[h].key,
                                    note |-> NormalVal[c.hosts[h].note]]]
    BY DEF Shape, Normal
  <1>4. n.prefs \in [Prefs -> Vals]
    BY <1>2 DEF Shape
  <1>5. n.hosts \in [Hosts -> HostConf]
    BY <1>3 DEF Shape, HostConf
  <1>6. Shape(n)
    BY <1>1, <1>4, <1>5 DEF Shape
  <1>7. Normal(n).prefs = n.prefs
    <2>1. \A f \in Prefs : NormalVal[n.prefs[f]] = n.prefs[f]
      BY <1>2 DEF Shape
    <2> QED BY <2>1, <1>4, <1>6 DEF Normal, Shape
  <1>8. Normal(n).hosts = n.hosts
    <2>1. \A h \in Hosts : [key |-> n.hosts[h].key, note |-> NormalVal[n.hosts[h].note]]
                             = n.hosts[h]
      BY <1>3 DEF Shape, HostConf
    <2> QED BY <2>1, <1>5, <1>6 DEF Normal, Shape
  <1>9. Normal(n) = [unlock |-> n.unlock, prefs |-> Normal(n).prefs, hosts |-> Normal(n).hosts,
                     recents |-> n.recents, history |-> n.history]
    BY DEF Normal
  <1> QED BY <1>6, <1>7, <1>8, <1>9 DEF Shape

\* Normal form changes no host key.
LEMMA NormalKeys ==
  ASSUME NEW c, Shape(c), NEW h \in Hosts
  PROVE  Normal(c).hosts[h].key = c.hosts[h].key
  BY DEF Normal, Shape

\* What each kind of request makes of a configuration.
LEMMA ChangedShape ==
  ASSUME NEW c, Shape(c), NEW r \in Requests
  PROVE  /\ Shape(Changed(r, c))
         /\ Committed(r, Changed(r, c), c) = Changed(r, c)
         /\ \A h \in Hosts :
              Changed(r, c).hosts[h].key =
                IF r.kind = "pin" /\ r.host = h THEN r.key
                ELSE IF r.kind = "delete" /\ r.host = h THEN NoKey ELSE c.hosts[h].key
  <1> DEFINE d == Changed(r, c)
  <1>1. CASE r.kind = "unlock"
    <2>1. d = [c EXCEPT !.unlock = r.method]
      BY <1>1 DEF Changed
    <2>2. Committed(r, d, c) = [c EXCEPT !.unlock = d.unlock]
      BY <1>1 DEF Committed
    <2> HIDE DEF d
    <2>3. Shape(d) /\ d.hosts = c.hosts
      BY <2>1, Fields DEF Shape
    <2>4. Committed(r, d, c) = d
      BY <2>1, <2>2, Fields
    <2> QED BY <1>1, <2>3, <2>4 DEF d
  <1>2. CASE r.kind = "hide"
    <2>1. d = [c EXCEPT !.recents = Hidden(c.recents, r.item)]
      BY <1>2 DEF Changed
    <2>2. Committed(r, d, c) = [c EXCEPT !.recents = d.recents]
      BY <1>2 DEF Committed
    <2> HIDE DEF d
    <2>3. Shape(d) /\ d.hosts = c.hosts
      BY <2>1, Fields DEF Shape
    <2>4. Committed(r, d, c) = d
      BY <2>1, <2>2, Fields
    <2> QED BY <1>2, <2>3, <2>4 DEF d
  <1>3. CASE r.kind = "visit"
    <2>1. d = [c EXCEPT !.history = Visited(c.history, r.item)]
      BY <1>3 DEF Changed
    <2>2. Committed(r, d, c) = [c EXCEPT !.history = d.history]
      BY <1>3 DEF Committed
    <2> HIDE DEF d
    <2>3. Shape(d) /\ d.hosts = c.hosts
      BY <2>1, Fields DEF Shape
    <2>4. Committed(r, d, c) = d
      BY <2>1, <2>2, Fields
    <2> QED BY <1>3, <2>3, <2>4 DEF d
  <1>4. CASE r.kind = "pref"
    <2>0. r.field \in Prefs /\ r.val \in Vals
      BY <1>4 DEF Requests
    <2>1. d = [c EXCEPT !.prefs = [c.prefs EXCEPT ![r.field] = r.val]]
      BY <1>4 DEF Changed, Shape
    <2>2. Committed(r, d, c) = [c EXCEPT !.prefs = [c.prefs EXCEPT ![r.field] = d.prefs[r.field]]]
      BY <1>4 DEF Committed, Shape
    <2> HIDE DEF d
    <2>3. d.prefs = [c.prefs EXCEPT ![r.field] = r.val]
      BY <2>1 DEF Shape
    <2>4. d.prefs \in [Prefs -> Vals] /\ d.prefs[r.field] = r.val
      BY <2>0, <2>3 DEF Shape
    <2>5. Shape(d) /\ d.hosts = c.hosts
      BY <2>1, <2>4 DEF Shape
    <2>6. Committed(r, d, c) = d
      BY <2>1, <2>2, <2>4
    <2> QED BY <1>4, <2>5, <2>6 DEF d
  <1>5. CASE r.kind \in {"patch", "delete", "pin"}
    <2> DEFINE x == CASE r.kind = "patch"  -> [c.hosts[r.host] EXCEPT !.note = r.val]
                      [] r.kind = "delete" -> NoHost
                      [] r.kind = "pin"    -> [c.hosts[r.host] EXCEPT !.key = r.key]
    <2>0. r.host \in Hosts
      BY <1>5 DEF Requests
    <2>1. x \in HostConf
      <3>1. c.hosts[r.host] \in HostConf
        BY <2>0 DEF Shape
      <3>2. CASE r.kind = "patch"
        BY <3>1, <3>2 DEF Requests, HostConf
      <3>3. CASE r.kind = "delete"
        BY <3>3 DEF NoHost, HostConf
      <3>4. CASE r.kind = "pin"
        BY <3>1, <3>4 DEF Requests, HostConf
      <3> QED BY <1>5, <3>2, <3>3, <3>4
    <2>2. x.key = IF r.kind = "pin" THEN r.key
                  ELSE IF r.kind = "delete" THEN NoKey ELSE c.hosts[r.host].key
      <3>1. c.hosts[r.host] \in HostConf
        BY <2>0 DEF Shape
      <3> QED BY <1>5, <3>1 DEF HostConf, NoHost
    <2>3. d = [c EXCEPT !.hosts = [c.hosts EXCEPT ![r.host] = x]]
      BY <1>5 DEF Changed, Shape
    <2>4. Committed(r, d, c) = [c EXCEPT !.hosts = [c.hosts EXCEPT ![r.host] = d.hosts[r.host]]]
      BY <1>5 DEF Committed, Shape
    <2> HIDE DEF d, x
    <2>5. d.hosts = [c.hosts EXCEPT ![r.host] = x]
      BY <2>3 DEF Shape
    <2>6. d.hosts \in [Hosts -> HostConf] /\ d.hosts[r.host] = x
      BY <2>0, <2>1, <2>5 DEF Shape
    <2>7. Shape(d)
      BY <2>3, <2>6 DEF Shape
    <2>8. Committed(r, d, c) = d
      BY <2>3, <2>4, <2>6
    <2>9. \A h \in Hosts : d.hosts[h].key = IF h = r.host THEN x.key ELSE c.hosts[h].key
      BY <2>0, <2>5 DEF Shape
    <2> QED BY <2>2, <2>7, <2>8, <2>9 DEF d
  <1>6. r.kind \in {"unlock", "pref", "patch", "delete", "pin", "hide", "visit"}
    BY DEF Requests
  <1> HIDE DEF d
  <1> QED BY <1>1, <1>2, <1>3, <1>4, <1>5, <1>6 DEF d
-----------------------------------------------------------------------------
\* The part of the state that the invariant speaks of.
core == <<running, config, file, configSaveMu, pc, req, snap, unread, trusted>>

\* The invariant holds at the start.
LEMMA InitInv == Init => IInv
  <1> SUFFICES ASSUME Init PROVE IInv
    OBVIOUS
  <1>1. file = Default /\ Shape(file) /\ Normal(file) = file
    BY DefaultShape DEF Init
  <1>2. IShape
    BY <1>1, DefaultShape DEF Init, IShape
  <1>3. IMutex /\ IClone
    BY DEF Init, IMutex, IClone
  <1>4. IFile /\ TrustIsPinned
    BY DEF Init, IFile, TrustIsPinned
  <1> QED BY <1>2, <1>3, <1>4 DEF IInv

\* The program starts and reads the file.
LEMMA StartInv ==
  ASSUME IInv, Start
  PROVE  IInv'
  <1>1. config' = file /\ file' = file /\ Shape(file) /\ Normal(file) = file
    BY DEF IInv, IShape, Start
  <1>2. configSaveMu = Nobody /\ \A w \in Workers : pc[w] = "idle"
    BY DEF IInv, IMutex, IShape, Start
  <1>3. IShape'
    BY <1>1 DEF IInv, IShape, Start
  <1>4. IMutex'
    BY <1>2 DEF IInv, IMutex, Start
  <1>5. IClone'
    BY <1>2 DEF IClone, Start
  <1>6. IFile'
    BY <1>1, <1>2 DEF IFile, Start
  <1>7. TrustIsPinned'
    BY DEF IInv, TrustIsPinned, Start
  <1> QED BY <1>3, <1>4, <1>5, <1>6, <1>7 DEF IInv

\* The program starts and cannot read the file.
LEMMA UnreadableInv ==
  ASSUME IInv, StartUnreadable
  PROVE  IInv'
  <1>2. configSaveMu = Nobody /\ \A w \in Workers : pc[w] = "idle"
    BY DEF IInv, IMutex, IShape, StartUnreadable
  <1>3. IShape'
    BY DefaultShape DEF IInv, IShape, StartUnreadable
  <1>4. IMutex'
    BY <1>2 DEF IInv, IMutex, StartUnreadable
  <1>5. IClone'
    BY <1>2 DEF IClone, StartUnreadable
  <1>6. IFile'
    BY <1>2 DEF IFile, StartUnreadable
  <1>7. TrustIsPinned'
    BY DEF IInv, TrustIsPinned, StartUnreadable
  <1> QED BY <1>3, <1>4, <1>5, <1>6, <1>7 DEF IInv

\* The process dies between two steps.
LEMMA CrashInv ==
  ASSUME IInv, Crash
  PROVE  IInv'
  <1>2. configSaveMu' = Nobody /\ \A w \in Workers : pc'[w] = "idle"
    BY DEF Crash
  <1>3. IShape'
    BY DefaultShape DEF IInv, IShape, Crash
  <1>4. IMutex'
    BY <1>2 DEF IMutex, Crash
  <1>5. IClone'
    BY <1>2 DEF IClone
  <1>6. IFile'
    BY <1>2 DEF IFile, Crash
  <1>7. TrustIsPinned'
    BY DEF IInv, TrustIsPinned, Crash
  <1> QED BY <1>3, <1>4, <1>5, <1>6, <1>7 DEF IInv

\* Every handler that edits the configuration starts this way.
LEMMA BeginInv ==
  ASSUME IInv, NEW w \in Workers, NEW r \in Requests, Begin(w, r),
         r.kind = "pin" => config.hosts[r.host].key = NoKey,
         UNCHANGED <<running, config, file, unread, trusted>>
  PROVE  IInv'
  <1>1. running /\ pc[w] = "idle" /\ configSaveMu = Nobody
    BY DEF Begin, MutexFree
  <1>2. \A v \in Workers : pc[v] = "idle"
    BY <1>1 DEF IInv, IMutex
  <1>3. /\ configSaveMu' = w /\ pc' = [pc EXCEPT ![w] = "saving"]
        /\ req' = [req EXCEPT ![w] = r] /\ snap' = [snap EXCEPT ![w] = Changed(r, config)]
    BY DEF Begin
  <1>4. IShape'
    BY <1>3 DEF IInv, IShape
  <1>5. IMutex'
    BY <1>1, <1>2, <1>3 DEF IInv, IShape, IMutex
  <1>6. IClone'
    <2>1. \A v \in Workers : pc'[v] # "idle" => v = w
      BY <1>2, <1>3 DEF IInv, IShape
    <2>2. req'[w] = r /\ snap'[w] = Changed(r, config)
      BY <1>3 DEF IInv, IShape
    <2> QED BY <2>1, <2>2 DEF IClone
  <1>7. IFile'
    <2>1. \A v \in Workers : pc'[v] # "saved" /\ pc[v] # "saved"
      BY <1>2, <1>3 DEF IInv, IShape
    <2> QED BY <2>1 DEF IInv, IFile
  <1>8. TrustIsPinned'
    BY DEF IInv, TrustIsPinned
  <1> QED BY <1>4, <1>5, <1>6, <1>7, <1>8 DEF IInv

\* A handler begins: it takes the mutex and makes the configuration it is going to save.
LEMMA RequestInv ==
  ASSUME IInv, NEW w \in Workers, Request(w)
  PROVE  IInv'
  <1>1. CASE SetUnlockMethod(w)
    <2>1. PICK m \in {"dpapi", "master"} : Begin(w, [kind |-> "unlock", method |-> m])
      BY <1>1 DEF SetUnlockMethod
    <2>2. [kind |-> "unlock", method |-> m] \in Requests
      BY DEF Requests
    <2> QED BY <1>1, <2>1, <2>2, BeginInv DEF SetUnlockMethod
  <1>2. CASE SetMasterPassword(w)
    <2>2. [kind |-> "unlock", method |-> "master"] \in Requests
      BY DEF Requests
    <2> QED BY <1>2, <2>2, BeginInv DEF SetMasterPassword
  <1>3. ASSUME NEW f \in Prefs, SetPref(w, f) PROVE IInv'
    <2>1. PICK v \in Vals : Begin(w, [kind |-> "pref", field |-> f, val |-> NormalVal[v]])
      BY <1>3 DEF SetPref
    <2>2. [kind |-> "pref", field |-> f, val |-> NormalVal[v]] \in Requests
      BY DEF Requests
    <2> QED BY <1>3, <2>1, <2>2, BeginInv DEF SetPref
  <1>4. CASE PersistOpenTabs(w)
    <2>1. PICK v \in Vals : Begin(w, [kind |-> "pref", field |-> "openTabs", val |-> v])
      BY <1>4 DEF PersistOpenTabs
    <2>2. [kind |-> "pref", field |-> "openTabs", val |-> v] \in Requests
      BY DEF Requests, Prefs
    <2> QED BY <1>4, <2>1, <2>2, BeginInv DEF PersistOpenTabs
  <1>5. CASE PatchHost(w)
    <2>1. PICK h \in Hosts, v \in Vals : Begin(w, [kind |-> "patch", host |-> h, val |-> v])
      BY <1>5 DEF PatchHost
    <2>2. [kind |-> "patch", host |-> h, val |-> v] \in Requests
      BY DEF Requests
    <2> QED BY <1>5, <2>1, <2>2, BeginInv DEF PatchHost
  <1>6. CASE DeleteHost(w)
    <2>1. PICK h \in Hosts : Begin(w, [kind |-> "delete", host |-> h])
      BY <1>6 DEF DeleteHost
    <2>2. [kind |-> "delete", host |-> h] \in Requests
      BY DEF Requests
    <2> QED BY <1>6, <2>1, <2>2, BeginInv DEF DeleteHost
  <1>7. CASE RemoveRecent(w)
    <2>1. PICK x \in Items : Begin(w, [kind |-> "hide", item |-> x])
      BY <1>7 DEF RemoveRecent
    <2>2. [kind |-> "hide", item |-> x] \in Requests
      BY DEF Requests
    <2> QED BY <1>7, <2>1, <2>2, BeginInv DEF RemoveRecent
  <1>8. CASE HandleAddressHistory(w)
    <2>1. PICK x \in Items : Begin(w, [kind |-> "visit", item |-> x])
      BY <1>8 DEF HandleAddressHistory
    <2>2. [kind |-> "visit", item |-> x] \in Requests
      BY DEF Requests
    <2> QED BY <1>8, <2>1, <2>2, BeginInv DEF HandleAddressHistory
  <1>9. CASE PinHostKey(w)
    <2>1. PICK h \in Hosts, k \in Keys :
            /\ config.hosts[h].key = NoKey
            /\ Begin(w, [kind |-> "pin", host |-> h, key |-> k])
      BY <1>9 DEF PinHostKey
    <2>2. [kind |-> "pin", host |-> h, key |-> k] \in Requests
      BY DEF Requests
    <2> QED BY <1>9, <2>1, <2>2, BeginInv DEF PinHostKey
  <1>10. CASE MatchHostKey(w)
    <2>1. PICK h \in Hosts, k \in Keys :
            config.hosts[h].key = k /\ trusted' = [trusted EXCEPT ![h] = @ \cup {k}]
      BY <1>10 DEF MatchHostKey
    <2>2. running /\ configSaveMu = Nobody /\ \A v \in Workers : pc[v] = "idle"
      BY <1>10 DEF MatchHostKey, MutexFree, IInv, IMutex
    <2>3. ~unread
      <3>1. unread => config.hosts[h].key = NoKey
        BY DEF IInv, IFile, Default, NoHost
      <3> QED BY <2>1, <3>1
    <2>4. file.hosts[h].key = k
      <3>1. file = Normal(config)
        BY <2>2, <2>3 DEF IInv, IFile
      <3> QED BY <2>1, <3>1, NormalKeys DEF IInv, IShape
    <2>5. TrustIsPinned'
      BY <1>10, <2>1, <2>4 DEF MatchHostKey, IInv, IShape, TrustIsPinned
    <2>6. IShape'
      BY <1>10, <2>1 DEF MatchHostKey, IInv, IShape
    <2>7. IMutex' /\ IClone'
      BY <1>10 DEF MatchHostKey, IInv, IMutex, IClone
    <2>8. IFile'
      BY <1>10, <2>3 DEF MatchHostKey, IInv, IFile
    <2> QED BY <2>5, <2>6, <2>7, <2>8 DEF IInv
  <1>11. ASSUME NEW f \in {"appearance", "openTabs", "debugLog", "searchProvider",
                           "savePasswords", "exitNode"}
         PROVE  SetPref(w, f) => IInv'
    BY <1>3 DEF Prefs
  <1> QED
    BY <1>1, <1>2, <1>4, <1>5, <1>6, <1>7, <1>8, <1>9, <1>10, <1>11
    DEF Request, HandleAppearance, HandleSaveTabs, HandleDebugLog, HandleSearchProvider,
        HandleSavePasswordsToggle, HandleExitNode

\* SaveConfig renames the new file over the old one.
LEMMA SaveSucceedsInv ==
  ASSUME IInv, NEW w \in Workers, SaveSucceeds(w)
  PROVE  IInv'
  <1> DEFINE r == req[w]
  <1>1. pc[w] = "saving" /\ configSaveMu = w /\ \A v \in Workers : v # w => pc[v] = "idle"
    BY DEF SaveSucceeds, IInv, IMutex
  <1>2. r \in Requests /\ snap[w] = Changed(r, config) /\ Shape(config) /\ running
    BY <1>1 DEF IInv, IClone, IShape, IMutex
  <1>3. Shape(snap[w])
    BY <1>2, ChangedShape
  <1>4. file' = Normal(snap[w]) /\ Shape(file') /\ Normal(file') = file'
    BY <1>3, NormalShape DEF SaveSucceeds, SavedFile
  <1>5. pc' = [pc EXCEPT ![w] = "saved"] /\ unread' = FALSE
    BY DEF SaveSucceeds
  <1>6. trusted' \in [Hosts -> SUBSET Keys]
    BY DEF SaveSucceeds, IInv, IShape
  <1>7. IShape'
    BY <1>4, <1>5, <1>6 DEF SaveSucceeds, IInv, IShape
  <1>8. IMutex'
    BY <1>1, <1>2, <1>5 DEF SaveSucceeds, IInv, IShape, IMutex
  <1>9. IClone'
    BY <1>1, <1>5 DEF SaveSucceeds, IInv, IShape, IClone
  <1>10. IFile'
    <2>1. \A v \in Workers : pc'[v] = "saved" <=> v = w
      BY <1>1, <1>5 DEF IInv, IShape
    <2> QED BY <1>4, <1>5, <2>1 DEF SaveSucceeds, IFile
  <1>11. TrustIsPinned'
    <2> SUFFICES ASSUME NEW h \in Hosts, NEW k \in trusted'[h] PROVE file'.hosts[h].key = k
      BY DEF TrustIsPinned
    <2>1. k \in trusted[h] /\ ~(r.kind = "delete" /\ r.host = h)
      BY DEF SaveSucceeds, IInv, IShape
    <2>2. ~unread
      BY <2>1 DEF IInv, IFile
    <2>3. config.hosts[h].key = k
      <3>1. file = Normal(config)
        BY <1>1, <1>2, <2>2 DEF IInv, IFile
      <3>2. file.hosts[h].key = k
        BY <2>1 DEF IInv, TrustIsPinned
      <3> QED BY <1>2, <3>1, <3>2, NormalKeys
    <2>4. ~(r.kind = "pin" /\ r.host = h)
      <3>1. k # NoKey
        BY <2>1 DEF IInv, IShape
      <3> QED BY <1>1, <2>3, <3>1 DEF IInv, IClone
    <2>5. snap[w].hosts[h].key = k
      BY <1>2, <2>1, <2>3, <2>4, ChangedShape
    <2> QED BY <1>3, <1>4, <2>5, NormalKeys
  <1> QED BY <1>7, <1>8, <1>9, <1>10, <1>11 DEF IInv

\* SaveConfig returns an error.
LEMMA SaveFailsInv ==
  ASSUME IInv, NEW w \in Workers, SaveFails(w)
  PROVE  IInv'
  <1>1. pc[w] = "saving" /\ \A v \in Workers : v # w => pc[v] = "idle"
    BY DEF SaveFails, IInv, IMutex
  <1>2. configSaveMu' = Nobody /\ \A v \in Workers : pc'[v] = "idle"
    BY <1>1 DEF SaveFails, End, IInv, IShape
  <1>3. IShape'
    BY DEF SaveFails, FailedCommit, End, IInv, IShape
  <1>4. IMutex'
    BY <1>2 DEF SaveFails, FailedCommit, IInv, IMutex
  <1>5. IClone'
    BY <1>2 DEF IClone
  <1>6. IFile'
    BY <1>1, <1>2 DEF SaveFails, FailedCommit, IInv, IFile
  <1>7. TrustIsPinned'
    BY DEF SaveFails, IInv, TrustIsPinned
  <1> QED BY <1>3, <1>4, <1>5, <1>6, <1>7 DEF IInv

\* The handler commits to memory what it has saved.
LEMMA CommitInv ==
  ASSUME IInv, NEW w \in Workers, Commit(w)
  PROVE  IInv' /\ config' = snap[w]
  <1> DEFINE r == req[w]
  <1>1. pc[w] = "saved" /\ configSaveMu = w /\ \A v \in Workers : v # w => pc[v] = "idle"
    BY DEF Commit, IInv, IMutex
  <1>2. configSaveMu' = Nobody /\ \A v \in Workers : pc'[v] = "idle"
    BY <1>1 DEF Commit, End, IInv, IShape
  <1>3. r \in Requests /\ snap[w] = Changed(r, config) /\ Shape(config) /\ running
    BY <1>1 DEF IInv, IClone, IShape, IMutex
  <1>4. config' = snap[w] /\ Shape(config')
    BY <1>3, ChangedShape DEF Commit
  <1>5. trusted' \in [Hosts -> SUBSET Keys]
    <2>1. r.kind = "pin" => r.key \in Keys
      BY <1>3 DEF Requests
    <2> QED BY <2>1 DEF Commit, IInv, IShape
  <1>6. file' = file /\ file = Normal(snap[w]) /\ ~unread /\ unread' = unread
    BY <1>1 DEF Commit, IInv, IFile
  <1>7. IShape'
    BY <1>4, <1>5 DEF Commit, End, IInv, IShape
  <1>8. IMutex'
    BY <1>2, <1>3 DEF Commit, IMutex
  <1>9. IClone'
    BY <1>2 DEF IClone
  <1>10. IFile'
    BY <1>2, <1>4, <1>6 DEF IFile
  <1>11. TrustIsPinned'
    <2>1. CASE r.kind = "pin"
      <3>1. r.host \in Hosts
        BY <1>3, <2>1 DEF Requests
      <3>2. snap[w].hosts[r.host].key = r.key
        BY <1>3, <2>1, <3>1, ChangedShape
      <3>3. file.hosts[r.host].key = r.key
        BY <1>3, <1>4, <1>6, <3>1, <3>2, NormalKeys
      <3>4. trusted' = [trusted EXCEPT ![r.host] = @ \cup {r.key}]
        BY <2>1 DEF Commit
      <3> QED BY <1>6, <3>1, <3>3, <3>4 DEF IInv, IShape, TrustIsPinned
    <2>2. CASE r.kind # "pin"
      BY <1>6, <2>2 DEF Commit, IInv, TrustIsPinned
    <2> QED BY <2>1, <2>2
  <1> QED BY <1>4, <1>7, <1>8, <1>9, <1>10, <1>11 DEF IInv

\* Nothing changes.
LEMMA StutterInv ==
  ASSUME IInv, UNCHANGED core
  PROVE  IInv'
  <1>1. IShape' /\ IMutex' /\ IClone' /\ IFile' /\ TrustIsPinned'
    BY DEF IInv, core, IShape, IMutex, IClone, IFile, TrustIsPinned
  <1> QED BY <1>1 DEF IInv

\* Every step keeps the invariant.
LEMMA NextInv == IInv /\ [Next]_vars => IInv'
  <1> SUFFICES ASSUME IInv, [Next]_vars PROVE IInv'
    OBVIOUS
  <1>1. CASE Unlock
    BY <1>1, StutterInv DEF Unlock, core
  <1>2. CASE UNCHANGED vars
    BY <1>2, StutterInv DEF vars, core
  <1> QED
    BY <1>1, <1>2, StartInv, UnreadableInv, CrashInv, RequestInv, SaveSucceedsInv,
       SaveFailsInv, CommitInv DEF Next

\* The inductive invariant holds in every behaviour, for every set of workers,
\* hosts, keys and values.
THEOREM Invariance == Spec => []IInv
  BY InitInv, NextInv, PTL DEF Spec

\* Between two saves config.enc holds the configuration in memory, whatever saves
\* failed and wherever the program crashed.
THEOREM FileIsMemory == Spec => []FileHoldsMemory
  <1>1. IInv => FileHoldsMemory
    <2> SUFFICES ASSUME IInv, running, configSaveMu = Nobody, ~unread PROVE file = Normal(config)
      BY DEF FileHoldsMemory
    <2>1. \A w \in Workers : pc[w] # "saved"
      BY DEF IInv, IMutex
    <2> QED BY <2>1 DEF IInv, IFile
  <1> QED BY <1>1, Invariance, PTL

\* An accepted SSH host key is the one in the file, so no second key is accepted
\* for a host that has not been deleted.
THEOREM HostKeysStayPinned == Spec => []TrustIsPinned
  <1>1. IInv => TrustIsPinned
    BY DEF IInv
  <1> QED BY <1>1, Invariance, PTL
-----------------------------------------------------------------------------
\* What the refinement mapping shows of the configuration.
LEMMA ViewIdle ==
  ASSUME \A w \in Workers : pc[w] # "saved"
  PROVE  View = config
  BY DEF View, Saved

\* Once a handler has saved, the store shows what it saved.
LEMMA ViewSaved ==
  ASSUME IInv, NEW w \in Workers, pc[w] = "saved"
  PROVE  View = snap[w]
  <1>1. Saved = {w}
    BY DEF Saved, IInv, IMutex
  <1>2. View = Committed(req[w], snap[w], config)
    BY <1>1 DEF View
  <1>3. req[w] \in Requests /\ snap[w] = Changed(req[w], config) /\ Shape(config)
    BY DEF IInv, IClone, IShape
  <1> QED BY <1>2, <1>3, ChangedShape

\* A request that has only begun shows nothing.
LEMMA RequestHidden ==
  ASSUME IInv, NEW w \in Workers, Request(w)
  PROVE  UNCHANGED <<file, View, running>>
  <1>1. UNCHANGED <<file, config, running>>
    BY DEF Request, SetUnlockMethod, SetMasterPassword, SetPref, HandleAppearance,
           HandleSaveTabs, HandleDebugLog, HandleSearchProvider, HandleSavePasswordsToggle,
           HandleExitNode, PersistOpenTabs, PatchHost, DeleteHost, RemoveRecent,
           HandleAddressHistory, PinHostKey, MatchHostKey
  <1>2. configSaveMu = Nobody /\ (pc' = [pc EXCEPT ![w] = "saving"] \/ pc' = pc)
    BY DEF Request, SetUnlockMethod, SetMasterPassword, SetPref, HandleAppearance,
           HandleSaveTabs, HandleDebugLog, HandleSearchProvider, HandleSavePasswordsToggle,
           HandleExitNode, PersistOpenTabs, PatchHost, DeleteHost, RemoveRecent,
           HandleAddressHistory, PinHostKey, MatchHostKey, Begin, MutexFree
  <1>3. \A v \in Workers : pc[v] # "saved" /\ pc'[v] # "saved"
    BY <1>2 DEF IInv, IMutex, IShape
  <1>4. View = config /\ View' = config'
    <2>1. Saved = {} /\ Saved' = {}
      BY <1>3 DEF Saved
    <2> QED BY <2>1 DEF View
  <1> QED BY <1>1, <1>4

\* Every step of the store is a step of AtomicConfig or changes nothing it shows.
LEMMA StepRefines ==
  ASSUME IInv, IInv', [Next]_vars
  PROVE  [Abstract!Next]_(Abstract!vars)
  <1> USE DEF Abstract!vars
  <1>1. CASE Start \/ StartUnreadable
    <2>1. \A w \in Workers : pc[w] = "idle" /\ pc'[w] = "idle"
      BY <1>1 DEF IInv, IMutex, IShape, Start, StartUnreadable
    <2>2. View' = config'
      BY <2>1 DEF View, Saved
    <2>3. config' \in {file, Default}
      BY <1>1 DEF Start, StartUnreadable, IInv, IShape
    <2>4. Abstract!Start
      BY <1>1, <2>2, <2>3 DEF Abstract!Start, Start, StartUnreadable
    <2> QED BY <2>4 DEF Abstract!Next
  <1>2. CASE Crash
    <2>1. View' = config'
      BY <1>2 DEF View, Saved, Crash
    <2>2. Abstract!Crash
      BY <1>2, <2>1 DEF Abstract!Crash, Crash
    <2> QED BY <2>2 DEF Abstract!Next
  <1>3. CASE Unlock \/ UNCHANGED vars
    <2>1. UNCHANGED <<pc, req, snap, config, file, running>>
      BY <1>3 DEF Unlock, vars
    <2>2. View' = View
      BY <2>1 DEF View, Saved
    <2> QED BY <2>1, <2>2
  <1>4. ASSUME NEW w \in Workers, Request(w) PROVE UNCHANGED Abstract!vars
    BY <1>4, RequestHidden
  <1>5. ASSUME NEW w \in Workers, SaveSucceeds(w) PROVE Abstract!Next
    <2>1. \A v \in Workers : pc[v] # "saved"
      BY <1>5 DEF SaveSucceeds, IInv, IMutex
    <2>2. View = config
      BY <2>1, ViewIdle
    <2>3. pc'[w] = "saved" /\ UNCHANGED <<req, snap, config, running>>
      BY <1>5 DEF SaveSucceeds, IInv, IShape
    <2>4. req[w] \in Requests /\ snap[w] = Changed(req[w], config) /\ Shape(config) /\ running
      BY <1>5 DEF SaveSucceeds, IInv, IClone, IShape, IMutex
    <2>5. View' = snap[w]
      <3>1. Saved' = {w}
        BY <2>3 DEF Saved, IInv, IMutex
      <3>2. View' = Committed(req'[w], snap'[w], config')
        BY <3>1 DEF View
      <3> QED BY <2>3, <2>4, <3>2, ChangedShape
    <2>6. file' = Normal(snap[w])
      BY <1>5 DEF SaveSucceeds, SavedFile
    <2>7. Abstract!Save(req[w])
      BY <2>2, <2>3, <2>4, <2>5, <2>6 DEF Abstract!Save
    <2> QED BY <2>4, <2>7 DEF Abstract!Next
  <1>6. ASSUME NEW w \in Workers, SaveFails(w) PROVE UNCHANGED Abstract!vars
    <2>1. \A v \in Workers : pc[v] # "saved" /\ pc'[v] # "saved"
      BY <1>6 DEF SaveFails, End, IInv, IMutex, IShape
    <2>2. View = config /\ View' = config'
      BY <2>1 DEF View, Saved
    <2> QED BY <1>6, <2>2 DEF SaveFails, FailedCommit
  <1>7. ASSUME NEW w \in Workers, Commit(w) PROVE UNCHANGED Abstract!vars
    <2>1. View = snap[w]
      BY <1>7, ViewSaved DEF Commit
    <2>2. \A v \in Workers : pc'[v] # "saved"
      BY <1>7 DEF Commit, End, IInv, IMutex, IShape
    <2>3. View' = config'
      BY <2>2 DEF View, Saved
    <2>4. config' = snap[w]
      BY <1>7, CommitInv
    <2> QED BY <1>7, <2>1, <2>3, <2>4 DEF Commit
  <1> QED BY <1>1, <1>2, <1>3, <1>4, <1>5, <1>6, <1>7 DEF Next

\* The store implements AtomicConfig: every save is one atomic change of one
\* durable configuration.
THEOREM StoreIsAtomic == Spec => SavesAreAtomic
  <1>1. Init => Abstract!Init
    <2>1. Init => View = config
      BY DEF Init, View, Saved
    <2> QED BY <2>1 DEF Init, Abstract!Init
  <1>2. IInv /\ IInv' /\ [Next]_vars => [Abstract!Next]_(Abstract!vars)
    BY StepRefines
  <1> QED BY <1>1, <1>2, Invariance, PTL DEF Spec, SavesAreAtomic, Abstract!Spec
-----------------------------------------------------------------------------
\* handleRemoveRecent keeps the limit, and drops nothing but the oldest entry of a
\* full list.
LEMMA HiddenList ==
  ASSUME NEW l \in Seq(Items), Len(l) <= ListLimit, NEW x \in Items
  PROVE  /\ Hidden(l, x) \in Seq(Items) /\ Len(Hidden(l, x)) <= ListLimit
         /\ \A y \in Entries(l) \ Entries(Hidden(l, x)) :
              /\ Len(l) = ListLimit /\ y = Head(l)
              /\ Len(Hidden(l, x)) = ListLimit
              /\ SubSeq(Hidden(l, x), 1, ListLimit - 1) = Tail(l)
  <1> DEFINE a == Append(l, x)
             n == Len(l)
  <1>1. /\ a \in Seq(Items) /\ Len(a) = n + 1 /\ n \in Nat
        /\ \A i \in 1..n : a[i] = l[i]
    OBVIOUS
  <1> HIDE DEF a
  <1>2. CASE n < ListLimit
    <2>1. Hidden(l, x) = a
      BY <1>1, <1>2 DEF Hidden, a
    <2>2. Entries(l) \subseteq Entries(a)
      BY <1>1 DEF Entries
    <2> QED BY <1>1, <1>2, <2>1, <2>2
  <1>3. CASE n = ListLimit
    <2> DEFINE h == SubSeq(a, 2, n + 1)
    <2>1. Hidden(l, x) = h
      BY <1>1, <1>3 DEF Hidden, a
    <2>2. h \in Seq(Items) /\ Len(h) = n /\ \A i \in 1..n : h[i] = a[i + 1]
      BY <1>1, <1>3
    <2>3. \A i \in 2..n : l[i] = h[i - 1] /\ i - 1 \in 1..n
      BY <1>1, <2>2
    <2> HIDE DEF h
    <2>4. ASSUME NEW y \in Entries(l) \ Entries(h) PROVE y = Head(l)
      <3>1. PICK i \in 1..n : y = l[i]
        BY <2>4 DEF Entries
      <3>2. i \notin 2..n
        BY <2>2, <2>3, <2>4, <3>1 DEF Entries
      <3>3. i = 1
        BY <1>1, <3>1, <3>2
      <3> QED BY <1>1, <1>3, <3>1, <3>3
    <2>5. SubSeq(h, 1, ListLimit - 1) = Tail(l)
      <3> DEFINE s == SubSeq(h, 1, n - 1)
      <3>1. s \in Seq(Items) /\ Len(s) = n - 1 /\ \A i \in 1..n - 1 : s[i] = h[i]
        BY <1>1, <1>3, <2>2
      <3>2. Tail(l) \in Seq(Items) /\ Len(Tail(l)) = n - 1 /\ \A i \in 1..n - 1 : Tail(l)[i] = l[i + 1]
        BY <1>1, <1>3
      <3>3. \A i \in 1..n - 1 : s[i] = Tail(l)[i]
        <4> SUFFICES ASSUME NEW i \in 1..n - 1 PROVE s[i] = Tail(l)[i]
          OBVIOUS
        <4>1. i + 1 \in 2..n /\ (i + 1) - 1 = i
          BY <1>1
        <4> QED BY <2>3, <3>1, <3>2, <4>1
      <3> HIDE DEF s
      <3>4. s = Tail(l)
        BY <3>1, <3>2, <3>3
      <3> QED BY <1>3, <3>4 DEF s
    <2> QED BY <1>3, <2>1, <2>2, <2>4, <2>5
  <1> QED BY <1>1, <1>2, <1>3

\* Of all requests only the dismissal of a card touches the dismissed ones.
LEMMA ChangedRecents ==
  ASSUME NEW c, Shape(c), NEW r \in Requests
  PROVE  Changed(r, c).recents = IF r.kind = "hide" THEN Hidden(c.recents, r.item) ELSE c.recents
  <1>1. PICK u, p, q, l, y : c = [unlock |-> u, prefs |-> p, hosts |-> q,
                                  recents |-> l, history |-> y]
    BY DEF Shape
  <1>2. r.kind \in {"unlock", "pref", "patch", "delete", "pin", "hide", "visit"}
    BY DEF Requests
  <1>3. CASE r.kind = "hide"
    BY <1>1, <1>3 DEF Changed
  <1>4. CASE r.kind \in {"unlock", "visit"}
    BY <1>1, <1>4 DEF Changed
  <1>5. CASE r.kind = "pref"
    BY <1>1, <1>5 DEF Changed
  <1>6. CASE r.kind \in {"patch", "delete", "pin"}
    BY <1>1, <1>6 DEF Changed
  <1> QED BY <1>2, <1>3, <1>4, <1>5, <1>6

\* The clone that a worker saves has the dismissed cards of memory, or one more.
LEMMA CloneRecents ==
  ASSUME IInv, IRecents, NEW w \in Workers, pc[w] # "idle"
  PROVE  /\ snap[w].recents \in Seq(Items) /\ Len(snap[w].recents) <= ListLimit
         /\ \A y \in Entries(config.recents) \ Entries(snap[w].recents) :
              /\ Len(config.recents) = ListLimit /\ y = Head(config.recents)
              /\ Len(snap[w].recents) = ListLimit
              /\ SubSeq(snap[w].recents, 1, ListLimit - 1) = Tail(config.recents)
  <1>1. req[w] \in Requests /\ snap[w] = Changed(req[w], config) /\ Shape(config)
    BY DEF IInv, IClone, IShape
  <1>2. config.recents \in Seq(Items) /\ Len(config.recents) <= ListLimit
    BY DEF IRecents
  <1>3. CASE req[w].kind = "hide"
    <2>1. req[w].item \in Items
      BY <1>1, <1>3 DEF Requests
    <2>2. snap[w].recents = Hidden(config.recents, req[w].item)
      BY <1>1, <1>3, ChangedRecents
    <2> DEFINE l == config.recents
               h == Hidden(l, req[w].item)
    <2>3. /\ h \in Seq(Items) /\ Len(h) <= ListLimit
          /\ \A y \in Entries(l) \ Entries(h) :
               /\ Len(l) = ListLimit /\ y = Head(l) /\ Len(h) = ListLimit
               /\ SubSeq(h, 1, ListLimit - 1) = Tail(l)
      BY <1>2, <2>1, HiddenList
    <2> HIDE DEF h
    <2> QED BY <2>2, <2>3 DEF h
  <1>4. CASE req[w].kind # "hide"
    <2>1. snap[w].recents = config.recents
      BY <1>1, <1>4, ChangedRecents
    <2> QED BY <1>2, <2>1
  <1> QED BY <1>3, <1>4

\* A program without its file has no dismissed cards.
LEMMA NoRecents == Default.recents \in Seq(Items) /\ Len(Default.recents) <= ListLimit
  <1>1. Default.recents = <<>>
    BY DEF Default
  <1>2. <<>> \in Seq(Items) /\ Len(<<>>) <= ListLimit
    OBVIOUS
  <1> QED BY <1>1, <1>2

\* No step breaks the limit of the dismissed cards.
LEMMA RecentsStep ==
  ASSUME IInv, IRecents, [Next]_vars
  PROVE  IRecents'
  <1>1. CASE Start
    <2>1. config'.recents = file.recents /\ file' = file
      BY <1>1 DEF Start, Normal
    <2> QED BY <2>1 DEF IRecents
  <1>2. CASE StartUnreadable \/ Crash
    <2>1. config' = Default /\ file' = file
      BY <1>2 DEF StartUnreadable, Crash
    <2> QED BY <2>1, NoRecents DEF IRecents
  <1>3. CASE Unlock \/ UNCHANGED vars
    BY <1>3 DEF Unlock, vars, IRecents
  <1>4. ASSUME NEW w \in Workers, Request(w) PROVE IRecents'
    <2>1. UNCHANGED <<file, config>>
      BY <1>4 DEF Request, SetUnlockMethod, SetMasterPassword, SetPref, HandleAppearance,
             HandleSaveTabs, HandleDebugLog, HandleSearchProvider, HandleSavePasswordsToggle,
             HandleExitNode, PersistOpenTabs, PatchHost, DeleteHost, RemoveRecent,
             HandleAddressHistory, PinHostKey, MatchHostKey
    <2> QED BY <2>1 DEF IRecents
  <1>5. ASSUME NEW w \in Workers, SaveSucceeds(w) PROVE IRecents'
    <2>1. file'.recents = snap[w].recents /\ config' = config /\ pc[w] # "idle"
      BY <1>5 DEF SaveSucceeds, SavedFile, Normal
    <2> QED BY <2>1, CloneRecents DEF IRecents
  <1>6. ASSUME NEW w \in Workers, SaveFails(w) PROVE IRecents'
    BY <1>6 DEF SaveFails, FailedCommit, IRecents
  <1>7. ASSUME NEW w \in Workers, Commit(w) PROVE IRecents'
    <2>1. config' = snap[w] /\ file' = file /\ pc[w] # "idle"
      BY <1>7, CommitInv DEF Commit
    <2> QED BY <2>1, CloneRecents DEF IRecents
  <1> QED BY <1>1, <1>2, <1>3, <1>4, <1>5, <1>6, <1>7 DEF Next

\* Only SaveConfig changes the file, and it takes what memory held, so no card comes
\* back that the request itself did not push out of a full list.
LEMMA HiddenStep ==
  ASSUME IInv, IRecents, [Next]_vars, ~unread,
         NEW x \in Entries(file.recents) \ Entries(file'.recents)
  PROVE  /\ Len(file.recents) = ListLimit /\ x = Head(file.recents)
         /\ Len(file'.recents) = ListLimit
         /\ SubSeq(file'.recents, 1, ListLimit - 1) = Tail(file.recents)
  <1>1. file' # file
    OBVIOUS
  <1>2. PICK w \in Workers : SaveSucceeds(w)
    BY <1>1 DEF Next, vars, Start, StartUnreadable, Crash, Unlock, SaveFails, Commit, Request,
           SetUnlockMethod, SetMasterPassword, SetPref, HandleAppearance, HandleSaveTabs,
           HandleDebugLog, HandleSearchProvider, HandleSavePasswordsToggle, HandleExitNode,
           PersistOpenTabs, PatchHost, DeleteHost, RemoveRecent, HandleAddressHistory,
           PinHostKey, MatchHostKey
  <1>3. pc[w] = "saving" /\ running /\ \A v \in Workers : pc[v] # "saved"
    BY <1>2 DEF SaveSucceeds, IInv, IMutex
  <1>4. file.recents = config.recents
    BY <1>3 DEF IInv, IFile, Normal
  <1>5. file'.recents = snap[w].recents
    BY <1>2 DEF SaveSucceeds, SavedFile, Normal
  <1> QED BY <1>3, <1>4, <1>5, CloneRecents

\* A card that the user dismissed stays dismissed, however saves fail and the program
\* crashes, until a hundred others were dismissed after it or a program that could not
\* read the file saves (handleRemoveRecent).
THEOREM DismissedStayDismissed == Spec => HiddenStays
  <1>1. Init => IRecents
    <2>1. Init => config = Default /\ file = Default
      BY DefaultShape DEF Init
    <2> QED BY <2>1, NoRecents DEF IRecents
  <1>2. IInv /\ IRecents /\ [Next]_vars => IRecents'
    BY RecentsStep
  <1>3. IInv /\ IRecents /\ [Next]_vars =>
          [\A x \in Entries(file.recents) \ Entries(file'.recents) :
             \/ unread
             \/ /\ Len(file.recents) = ListLimit /\ x = Head(file.recents)
                /\ Len(file'.recents) = ListLimit /\ SubSeq(file'.recents, 1, ListLimit - 1) = Tail(file.recents)]_vars
    BY HiddenStep
  <1> QED BY <1>1, <1>2, <1>3, Invariance, PTL DEF Spec, HiddenStays
=============================================================================
