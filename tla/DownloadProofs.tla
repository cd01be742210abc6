--------------------------- MODULE DownloadProofs ---------------------------
(***************************************************************************)
(* Proofs about Download for every number of requests, downloads, tickets, *)
(* names and foreign files: the type invariant with the bound on tickets,  *)
(* that one download runs at a time, that cookies follow their ticket,     *)
(* that no incomplete file is forgotten, and that whole files are left     *)
(* alone.                                                                  *)
(***************************************************************************)
EXTENDS Download, TLAPS, FiniteSetTheorems, WellFoundedInduction

TicketAction ==
  \/ \E t \in Tickets : TicketExpires(t) \/ TicketTimer(t)
  \/ \E t \in Tickets, u \in URLs : CreateTicket(t, u)

HandlerAction ==
  \/ \E h \in Handlers, u \in URLs, t \in Tickets \cup {NoTicket} : Reserve(h, u, t)
  \/ \E h \in Handlers : Handler(h)

UserAction == \E p \in Paths : UserCreates(p) \/ UserDelete(p)

\* Next by who acts.
LEMMA StepCases ==
  [Next]_vars => \/ TicketAction \/ HandlerAction \/ UserAction \/ Exit
                 \/ \E d \in Downloads : Goroutine(d)
                 \/ UNCHANGED vars
BY DEF Next, TicketAction, HandlerAction, UserAction, Stopped

\* Tickets that are not added to stay within the bound.
LEMMA FewerPending ==
  ASSUME NEW S, NEW T, S \subseteq Tickets, T \subseteq S, Cardinality(S) <= MaxTickets
  PROVE  Cardinality(T) <= MaxTickets
<1>1. IsFiniteSet(S)
  BY DownloadAssumption, FS_Subset
<1>2. Cardinality(T) <= Cardinality(S) /\ Cardinality(T) \in Nat /\ Cardinality(S) \in Nat
  BY <1>1, FS_Subset, FS_CardinalityType
<1> QED
  BY <1>2, DownloadAssumption

\* A set of natural numbers has a least element.
LEMMA LeastNatural ==
  ASSUME NEW S \in SUBSET Nat, S # {}
  PROVE  \E i \in S : \A j \in S : i <= j
<1>1. \E i \in S : \A j \in S : ~(<<j, i>> \in OpToRel(<, Nat))
  BY NatLessThanWellFounded, WFMin
<1>2. PICK i \in S : \A j \in S : ~(<<j, i>> \in OpToRel(<, Nat))
  BY <1>1
<1>3. ASSUME NEW j \in S PROVE i <= j
  <2>1. <<j, i>> \notin {ss \in Nat \X Nat : ss[1] < ss[2]}
    BY <1>2, Zenon DEF OpToRel
  <2>2. i \in Nat /\ j \in Nat
    OBVIOUS
  <2> QED
    BY <2>1, <2>2
<1> QED
  BY <1>3

\* uniqueDownloadPath returns a candidate for the name.
LEMMA UniquePathType == ASSUME NEW n \in Names PROVE UniquePath(n) \in Paths
<1> DEFINE free == {i \in 0..MaxSuffix : Absent(<<n, i>>)}
           first == IF free = {} THEN Stamp ELSE CHOOSE i \in free : \A j \in free : i <= j
<1>1. UniquePath(n) = <<n, first>>
  BY DEF UniquePath
<1>2. Stamp \in 0..Stamp /\ free \subseteq 0..Stamp /\ free \subseteq Nat
  BY DownloadAssumption DEF Stamp
<1> HIDE DEF free
<1>3. free # {} => \E i \in free : \A j \in free : i <= j
  BY <1>2, LeastNatural
<1>4. first \in 0..Stamp
  <2>1. CASE free = {}
    BY <1>2, <2>1
  <2>2. CASE free # {}
    <3>1. (CHOOSE i \in free : \A j \in free : i <= j) \in free
      BY <1>3, <2>2, Zenon
    <3> QED
      BY <1>2, <2>2, <3>1
  <2> QED
    BY <2>1, <2>2
<1> HIDE DEF first
<1> QED
  BY <1>1, <1>4 DEF Paths

\* The type invariant, with the bound on the tickets: createDownloadTicket adds one
\* only where the sweep has left room.
THEOREM TypeCorrect == Spec => []TypeOK
<1>1. Init => TypeOK
  <2> SUFFICES ASSUME Init PROVE TypeOK
    OBVIOUS
  <2>1. (CHOOSE u \in URLs : TRUE) \in URLs
    BY DownloadAssumption
  <2>2. hurl \in [Handlers -> URLs] /\ url \in [Downloads -> URLs] /\ ticketURL \in [Tickets -> URLs]
    BY <2>1 DEF Init
  <2>3. \A u \in URLs : <<FileName[u], 0>> \in Paths
    BY DownloadAssumption DEF Paths, Stamp
  <2>4. hpath \in [Handlers -> Paths] /\ path \in [Downloads -> Paths]
    BY <2>2, <2>3 DEF Init
  <2>5. Cardinality(Pending) <= MaxTickets
    <3>1. Pending = {}
      BY DEF Pending, Init
    <3> QED
      BY <3>1, FS_EmptySet, DownloadAssumption
  <2>6. running \in BOOLEAN /\ downloadStarting \in BOOLEAN
    BY DEF Init
  <2>8. userChanges \in 0..MaxUserChanges
    BY DownloadAssumption DEF Init
  <2>7. file \in [Paths -> File]
    BY DEF Init, NoFile, File
  <2> QED
    BY <2>2, <2>4, <2>5, <2>6, <2>7, <2>8 DEF Init, TypeOK, TicketStates
<1>2. TypeOK /\ [Next]_vars => TypeOK'
  <2> SUFFICES ASSUME TypeOK, [Next]_vars PROVE TypeOK'
    OBVIOUS
  <2> USE DownloadAssumption DEF slot, hvars, dvars, tvars, fvars
  <2>1. Pending \subseteq Tickets /\ Pending' \subseteq Tickets
    BY DEF Pending
  <2>2. ASSUME Pending' \subseteq Pending PROVE (Cardinality(Pending) <= MaxTickets)'
    BY <2>1, <2>2, FewerPending DEF TypeOK
  <2>3. ASSUME NEW t \in Tickets, TicketExpires(t) PROVE TypeOK'
    <3>1. tickets' \in [Tickets -> TicketStates]
      BY <2>3 DEF TypeOK, TicketExpires, TicketStates
    <3>2. Pending' \subseteq Pending
      BY <2>3 DEF TypeOK, TicketExpires, Pending
    <3> QED
      BY <2>3, <3>1, <3>2, <2>2 DEF TypeOK, TicketExpires
  <2>4. ASSUME NEW t \in Tickets, TicketTimer(t) PROVE TypeOK'
    <3>1. tickets' \in [Tickets -> TicketStates]
      BY <2>4 DEF TypeOK, TicketTimer, TicketStates
    <3>2. Pending' \subseteq Pending
      BY <2>4 DEF TypeOK, TicketTimer, Pending
    <3> QED
      BY <2>4, <3>1, <3>2, <2>2 DEF TypeOK, TicketTimer
  <2>5. ASSUME NEW t \in Tickets, NEW u \in URLs, CreateTicket(t, u) PROVE TypeOK'
    <3> DEFINE live == {x \in Tickets : tickets[x] = "live"}
               swept == [x \in Tickets |-> IF tickets[x] = "expired" THEN "gone" ELSE tickets[x]]
    <3>1. swept \in [Tickets -> TicketStates]
      BY DEF TypeOK, TicketStates
    <3>2. CASE RoomForTickets(live)
      <4>1. tickets' = [swept EXCEPT ![t] = "live"] /\ ticketURL' = [ticketURL EXCEPT ![t] = u]
        BY <2>5, <3>2 DEF CreateTicket
      <4>2. tickets' \in [Tickets -> TicketStates] /\ ticketURL' \in [Tickets -> URLs]
        BY <4>1, <3>1 DEF TypeOK, TicketStates
      <4>3. Pending' \subseteq live \cup {t}
        BY <4>1 DEF Pending, TypeOK, TicketStates
      <4>4. IsFiniteSet(live) /\ IsFiniteSet(live \cup {t})
        BY FS_Subset, FS_AddElement
      <4>5. Cardinality(live \cup {t}) <= MaxTickets
        <5>1. Cardinality(live) < MaxTickets /\ Cardinality(live) \in Nat
          BY <3>2, <4>4, FS_CardinalityType DEF RoomForTickets
        <5>2. Cardinality(live \cup {t}) \in {Cardinality(live), Cardinality(live) + 1}
          BY <4>4, FS_AddElement
        <5> QED
          BY <5>1, <5>2
      <4>6. (Cardinality(Pending) <= MaxTickets)'
        BY <4>3, <4>5, FewerPending
      <4> QED
        BY <2>5, <4>2, <4>6 DEF TypeOK, CreateTicket
    <3>3. CASE ~RoomForTickets(live)
      <4>1. tickets' = swept /\ ticketURL' = ticketURL
        BY <2>5, <3>3 DEF CreateTicket
      <4>2. Pending' \subseteq Pending
        BY <4>1 DEF Pending, TypeOK
      <4> QED
        BY <2>5, <4>1, <3>1, <4>2, <2>2 DEF TypeOK, CreateTicket
    <3> QED
      BY <3>2, <3>3
  <2>6. ASSUME NEW h \in Handlers, NEW u \in URLs, NEW t \in Tickets \cup {NoTicket},
               Reserve(h, u, t)
        PROVE  TypeOK'
    BY <2>6, <2>2 DEF TypeOK, Reserve, Pending
  <2>7. ASSUME NEW h \in Handlers, ConsumeTicket(h) PROVE TypeOK'
    <3>1. Taken(hticket[h]) \in [Tickets -> TicketStates]
      BY DEF TypeOK, Taken, Pending, TicketStates
    <3>2. tickets' \in {tickets, Taken(hticket[h])}
      BY <2>7 DEF ConsumeTicket
    <3>3. Pending' \subseteq Pending
      BY <3>2 DEF Pending, Taken, TypeOK
    <3>4. tickets' \in [Tickets -> TicketStates]
      BY <3>1, <3>2 DEF TypeOK
    <3>5. hpc' \in [Handlers -> {"idle", "reserved", "ticketed", "pathed"}]
      BY <2>7 DEF TypeOK, ConsumeTicket, Refuse
    <3>6. downloadStarting' \in BOOLEAN /\ UNCHANGED <<currentDownload, hurl, hticket, hpath>>
      BY <2>7 DEF TypeOK, ConsumeTicket, Refuse
    <3>7. hcookies' \in [Handlers -> Tickets \cup {NoTicket}]
      BY <2>7 DEF TypeOK, ConsumeTicket, Refuse
    <3>8. UNCHANGED <<running, dvars, ticketURL, fvars>>
      BY <2>7 DEF ConsumeTicket
    <3> QED
      BY <3>3, <3>4, <3>5, <3>6, <3>7, <3>8, <2>2 DEF TypeOK
  <2>8. ASSUME NEW h \in Handlers, ChoosePath(h) PROVE TypeOK'
    <3>1. UniquePath(FileName[hurl[h]]) \in Paths
      BY UniquePathType DEF TypeOK
    <3> QED
      BY <2>8, <3>1, <2>2 DEF TypeOK, ChoosePath, Pending
  <2>9. ASSUME NEW h \in Handlers, NoDirectory(h) PROVE TypeOK'
    BY <2>9, <2>2 DEF TypeOK, NoDirectory, Refuse, Pending
  <2>10. ASSUME NEW h \in Handlers, Publish(h) PROVE TypeOK'
    <3>1. PICK d \in Downloads :
            /\ currentDownload' = d /\ stage' = [stage EXCEPT ![d] = "request"]
            /\ status' = [status EXCEPT ![d] = "downloading"]
            /\ url' = [url EXCEPT ![d] = hurl[h]]
            /\ path' = [path EXCEPT ![d] = hpath[h]]
            /\ cookies' = [cookies EXCEPT ![d] = hcookies[h]]
      BY <2>10 DEF Publish
    <3>2. hurl[h] \in URLs /\ hpath[h] \in Paths /\ hcookies[h] \in Tickets \cup {NoTicket}
      BY DEF TypeOK
    <3>3. /\ currentDownload' \in Downloads \cup {NoDownload}
          /\ url' \in [Downloads -> URLs] /\ path' \in [Downloads -> Paths]
          /\ cookies' \in [Downloads -> Tickets \cup {NoTicket}]
      BY <3>1, <3>2 DEF TypeOK
    <3>4. /\ stage' \in [Downloads -> {"none", "request", "open", "copy", "whole", "failed",
                                       "remove", "ended"}]
          /\ status' \in [Downloads -> {"none", "downloading", "complete", "error"}]
      BY <3>1 DEF TypeOK
    <3>5. /\ downloadStarting' \in BOOLEAN
          /\ hpc' \in [Handlers -> {"idle", "reserved", "ticketed", "pathed"}]
          /\ UNCHANGED <<running, hurl, hticket, hcookies, hpath, tvars, fvars>>
      BY <2>10 DEF Publish, TypeOK
    <3>6. Pending' \subseteq Pending
      BY <3>5 DEF Pending
    <3> QED
      BY <2>2, <3>3, <3>4, <3>5, <3>6 DEF TypeOK
  <2>11. ASSUME NEW d \in Downloads, Goroutine(d) PROVE TypeOK'
    <3>1. Pending' \subseteq Pending
      BY <2>11 DEF Pending, Goroutine, RequestSucceeds, RequestFails, OpenFile, OpenFails,
                   CopyEnds, CopyFails, CloseSucceeds, CloseFails, RemoveFile, Goes
    <3>2. UNCHANGED <<running, slot, hvars, url, path, cookies, tvars, userChanges>>
      BY <2>11 DEF Goroutine, RequestSucceeds, RequestFails, OpenFile, OpenFails,
                   CopyEnds, CopyFails, CloseSucceeds, CloseFails, RemoveFile, Goes
    <3>3. stage' \in [Downloads -> {"none", "request", "open", "copy", "whole", "failed",
                                    "remove", "ended"}]
      BY <2>11 DEF TypeOK, Goroutine, RequestSucceeds, RequestFails, OpenFile, OpenFails,
                   CopyEnds, CopyFails, CloseSucceeds, CloseFails, RemoveFile, Goes
    <3>4. status' \in [Downloads -> {"none", "downloading", "complete", "error"}]
      BY <2>11 DEF TypeOK, Goroutine, RequestSucceeds, RequestFails, OpenFile, OpenFails,
                   CopyEnds, CopyFails, CloseSucceeds, CloseFails, RemoveFile, Goes
    <3>5. leftover' \subseteq Paths
      BY <2>11 DEF TypeOK, Goroutine, RequestSucceeds, RequestFails, OpenFile, OpenFails,
                   CopyEnds, CopyFails, CloseSucceeds, CloseFails, RemoveFile, Goes
    <3>6. file' \in [Paths -> File]
      <4>1. NoFile \in File /\ [owner |-> d, whole |-> FALSE] \in File /\ path[d] \in Paths
        BY DEF NoFile, File, TypeOK
      <4>2. ASSUME NEW p \in Paths, NEW b \in BOOLEAN PROVE [file[p] EXCEPT !.whole = b] \in File
        <5>1. file[p] \in File
          BY DEF TypeOK
        <5> QED
          BY <5>1 DEF File
      <4>3. \/ file' = file \/ file' = [file EXCEPT ![path[d]] = NoFile]
            \/ file' = [file EXCEPT ![path[d]] = [owner |-> d, whole |-> FALSE]]
            \/ \E b \in BOOLEAN : file' = [file EXCEPT ![path[d]].whole = b]
        BY <2>11 DEF Goroutine, RequestSucceeds, RequestFails, OpenFile, OpenFails, CopyEnds,
                     CopyFails, CloseSucceeds, CloseFails, RemoveFile, Removed
      <4>4. ASSUME NEW b \in BOOLEAN, file' = [file EXCEPT ![path[d]].whole = b]
            PROVE  file' \in [Paths -> File]
        <5>1. file' = [file EXCEPT ![path[d]] = [file[path[d]] EXCEPT !.whole = b]]
          BY <4>4
        <5> QED
          BY <4>1, <4>2, <5>1 DEF TypeOK
      <4> QED
        BY <4>1, <4>3, <4>4 DEF TypeOK
    <3> QED
      BY <2>2, <3>1, <3>2, <3>3, <3>4, <3>5, <3>6 DEF TypeOK
  <2>12. CASE UserAction
    <3>1. file' \in [Paths -> File] /\ leftover' \subseteq Paths
      <4>1. NoFile \in File /\ [owner |-> User, whole |-> TRUE] \in File
        BY DEF NoFile, File
      <4>2. PICK p \in Paths : UserCreates(p) \/ UserDelete(p)
        BY <2>12 DEF UserAction
      <4>3. CASE UserCreates(p)
        BY <4>1, <4>3 DEF TypeOK, UserCreates
      <4>4. CASE UserDelete(p)
        BY <4>1, <4>4 DEF TypeOK, UserDelete
      <4> QED
        BY <4>2, <4>3, <4>4
    <3>2. userChanges' \in 0..MaxUserChanges
      BY <2>12 DEF TypeOK, UserAction, UserCreates, UserDelete
    <3> QED
      BY <2>12, <3>1, <3>2, <2>2 DEF TypeOK, UserAction, UserCreates, UserDelete, Pending
  <2>13. CASE Exit
    BY <2>13, <2>2 DEF TypeOK, Exit, Pending
  <2>14. CASE UNCHANGED vars
    BY <2>14, <2>2 DEF TypeOK, vars, Pending
  <2> QED
    BY StepCases, <2>3, <2>4, <2>5, <2>6, <2>7, <2>8, <2>9, <2>10, <2>11, <2>12, <2>13, <2>14
       DEF TicketAction, HandlerAction, Handler
<1> QED
  BY <1>1, <1>2, PTL DEF Spec

\* The slot keeps one holder.
LEMMA SlotStep == TypeOK /\ SlotInv /\ [Next]_vars => SlotInv'
<1> SUFFICES ASSUME TypeOK, SlotInv, [Next]_vars PROVE SlotInv'
  OBVIOUS
<1> USE DEF TypeOK, SlotInv, slot, hvars, dvars, tvars, fvars
<1>1. ASSUME NEW h \in Handlers, NEW u \in URLs, NEW t \in Tickets \cup {NoTicket},
             Reserve(h, u, t)
      PROVE  SlotInv'
  <2>1. ~downloadStarting /\ \A d \in Downloads : status[d] # "downloading"
    BY <1>1, DownloadAssumption DEF Reserve, SlotFree
  <2> QED
    BY <1>1, <2>1 DEF Reserve
<1>2. ASSUME NEW h \in Handlers, ConsumeTicket(h) PROVE SlotInv'
  BY <1>2 DEF ConsumeTicket, Refuse
<1>3. ASSUME NEW h \in Handlers, ChoosePath(h) PROVE SlotInv'
  BY <1>3 DEF ChoosePath
<1>4. ASSUME NEW h \in Handlers, NoDirectory(h) PROVE SlotInv'
  BY <1>4 DEF NoDirectory, Refuse
<1>5. ASSUME NEW h \in Handlers, Publish(h) PROVE SlotInv'
  BY <1>5 DEF Publish
<1>6. ASSUME NEW d \in Downloads, Goroutine(d) PROVE SlotInv'
  <2>1. /\ UNCHANGED <<slot, hvars>>
        /\ \A e \in Downloads : status'[e] = "downloading" => status[e] = "downloading"
    BY <1>6 DEF Goroutine, RequestSucceeds, RequestFails, OpenFile, OpenFails, CopyEnds,
                CopyFails, CloseSucceeds, CloseFails, RemoveFile, Goes
  <2> QED
    BY <2>1
<1>7. ASSUME UNCHANGED <<slot, hvars, dvars>> PROVE SlotInv'
  BY <1>7
<1>8. TicketAction \/ UserAction \/ Exit => UNCHANGED <<slot, hvars, dvars>>
  BY DEF TicketAction, UserAction, Exit, TicketExpires, TicketTimer, CreateTicket, UserCreates,
         UserDelete
<1> QED
  BY StepCases, <1>1, <1>2, <1>3, <1>4, <1>5, <1>6, <1>7, <1>8 DEF HandlerAction, Handler, vars

\* Cookies stay with the ticket they came from.
LEMMA TicketStep ==
  TypeOK /\ SlotInv /\ TicketInv /\ CookiesFollowTicket /\ [Next]_vars
    => (TicketInv /\ CookiesFollowTicket)'
<1> SUFFICES ASSUME TypeOK, SlotInv, TicketInv, CookiesFollowTicket, [Next]_vars
             PROVE  (TicketInv /\ CookiesFollowTicket)'
  OBVIOUS
<1> USE DownloadAssumption DEF TypeOK, TicketInv, CookiesFollowTicket, slot, hvars, dvars, tvars,
        fvars
<1>1. ASSUME NEW h \in Handlers, NEW u \in URLs, NEW t \in Tickets \cup {NoTicket},
             Reserve(h, u, t)
      PROVE  (TicketInv /\ CookiesFollowTicket)'
  BY <1>1 DEF Reserve
<1>2. ASSUME NEW h \in Handlers, ConsumeTicket(h) PROVE (TicketInv /\ CookiesFollowTicket)'
  <2>1. \A g \in Handlers : hpc[g] # "idle" => g = h
    BY <1>2 DEF ConsumeTicket, SlotInv
  <2>2. CASE /\ hticket[h] = NoTicket /\ hpc' = [hpc EXCEPT ![h] = "ticketed"]
             /\ UNCHANGED <<tickets, slot, hurl, hticket, hcookies, hpath>>
    BY <1>2, <2>2 DEF ConsumeTicket
  <2>3. CASE /\ hticket[h] # NoTicket /\ TicketGood(h)
             /\ tickets' = Taken(hticket[h])
             /\ hpc' = [hpc EXCEPT ![h] = "ticketed"]
             /\ hcookies' = [hcookies EXCEPT ![h] = hticket[h]]
             /\ UNCHANGED <<slot, hurl, hticket, hpath>>
    BY <1>2, <2>1, <2>3 DEF ConsumeTicket, TicketGood, Taken, Pending
  <2>4. CASE tickets' = Taken(hticket[h]) /\ Refuse(h)
    BY <1>2, <2>1, <2>4 DEF ConsumeTicket, Refuse, Taken, Pending
  <2> QED
    BY <1>2, <2>2, <2>3, <2>4 DEF ConsumeTicket
<1>3. ASSUME NEW h \in Handlers, ChoosePath(h) PROVE (TicketInv /\ CookiesFollowTicket)'
  BY <1>3 DEF ChoosePath
<1>4. ASSUME NEW h \in Handlers, NoDirectory(h) PROVE (TicketInv /\ CookiesFollowTicket)'
  BY <1>4 DEF NoDirectory, Refuse
<1>5. ASSUME NEW h \in Handlers, Publish(h) PROVE (TicketInv /\ CookiesFollowTicket)'
  <2>1. \A g \in Handlers : hpc'[g] = "idle"
    BY <1>5 DEF Publish, SlotInv
  <2> QED
    BY <1>5, <2>1 DEF Publish
<1>6. ASSUME NEW t \in Tickets, NEW u \in URLs, CreateTicket(t, u)
      PROVE  (TicketInv /\ CookiesFollowTicket)'
  <2>1. \A x \in Tickets : tickets[x] = "gone" =>
          tickets'[x] = "gone" /\ ticketURL'[x] = ticketURL[x]
    <3> DEFINE swept == [x \in Tickets |-> IF tickets[x] = "expired" THEN "gone" ELSE tickets[x]]
    <3>1. /\ tickets[t] = "unissued"
          /\ \/ /\ tickets' = [swept EXCEPT ![t] = "live"]
                /\ ticketURL' = [ticketURL EXCEPT ![t] = u]
             \/ tickets' = swept /\ UNCHANGED ticketURL
      BY <1>6 DEF CreateTicket
    <3>2. CASE tickets' = [swept EXCEPT ![t] = "live"] /\ ticketURL' = [ticketURL EXCEPT ![t] = u]
      BY <3>1, <3>2
    <3>3. CASE tickets' = swept /\ UNCHANGED ticketURL
      BY <3>3
    <3> QED
      BY <3>1, <3>2, <3>3
  <2> QED
    BY <1>6, <2>1 DEF CreateTicket
<1>7. ASSUME NEW t \in Tickets, TicketExpires(t) \/ TicketTimer(t)
      PROVE  (TicketInv /\ CookiesFollowTicket)'
  BY <1>7 DEF TicketExpires, TicketTimer
<1>8. ASSUME UNCHANGED <<hvars, tvars, url, cookies>> PROVE (TicketInv /\ CookiesFollowTicket)'
  BY <1>8
<1>9. UserAction \/ Exit => UNCHANGED <<hvars, tvars, url, cookies>>
  BY DEF UserAction, Exit, UserCreates, UserDelete
<1>10. ASSUME NEW d \in Downloads, Goroutine(d) PROVE UNCHANGED <<hvars, tvars, url, cookies>>
  BY <1>10 DEF Goroutine, RequestSucceeds, RequestFails, OpenFile, OpenFails, CopyEnds,
               CopyFails, CloseSucceeds, CloseFails, RemoveFile, Goes
<1> QED
  BY StepCases, <1>1, <1>2, <1>3, <1>4, <1>5, <1>6, <1>7, <1>8, <1>9, <1>10
     DEF HandlerAction, TicketAction, Handler, vars

\* Files keep their owner, and the incomplete ones somebody who will remove them.
LEMMA FileStep == TypeOK /\ FileInv /\ [Next]_vars => FileInv'
<1> SUFFICES ASSUME TypeOK, FileInv, [Next]_vars PROVE FileInv'
  OBVIOUS
<1> USE DownloadAssumption DEF TypeOK, FileInv, slot, hvars, dvars, tvars, fvars
<1>1. ASSUME NEW h \in Handlers, Publish(h) PROVE FileInv'
  BY <1>1 DEF Publish
<1>2. ASSUME NEW d \in Downloads, Goroutine(d) PROVE FileInv'
  <2> USE DEF Goes
  <2>1. CASE RequestSucceeds(d)
    BY <2>1 DEF RequestSucceeds
  <2>2. CASE RequestFails(d)
    BY <2>2 DEF RequestFails
  <2>3. CASE OpenFile(d)
    BY <2>3 DEF OpenFile, Creatable, Absent
  <2>4. CASE OpenFails(d)
    BY <2>4 DEF OpenFails
  <2>5. CASE CopyEnds(d)
    BY <2>5 DEF CopyEnds, Owned, File
  <2>6. CASE CopyFails(d)
    BY <2>6 DEF CopyFails
  <2>7. CASE CloseSucceeds(d)
    BY <2>7 DEF CloseSucceeds
  <2>8. CASE CloseFails(d)
    BY <2>8 DEF CloseFails, Owned, File
  <2>9. CASE RemoveFile(d)
    BY <2>9 DEF RemoveFile, Removed, NoFile
  <2> QED
    BY <1>2, <2>1, <2>2, <2>3, <2>4, <2>5, <2>6, <2>7, <2>8, <2>9 DEF Goroutine
<1>3. ASSUME NEW p \in Paths, UserCreates(p) PROVE FileInv'
  BY <1>3 DEF UserCreates, Absent
<1>4. ASSUME NEW p \in Paths, UserDelete(p) PROVE FileInv'
  BY <1>4 DEF UserDelete, NoFile
<1>5. ASSUME UNCHANGED <<file, leftover, path, stage>> PROVE FileInv'
  BY <1>5
<1>6. TicketAction \/ Exit => UNCHANGED <<file, leftover, path, stage>>
  BY DEF TicketAction, Exit, TicketExpires, TicketTimer, CreateTicket
<1>7. HandlerAction => \/ \E h \in Handlers : Publish(h)
                       \/ UNCHANGED <<file, leftover, path, stage>>
  BY DEF HandlerAction, Handler, Reserve, ConsumeTicket, ChoosePath, NoDirectory
<1> QED
  BY StepCases, <1>1, <1>2, <1>3, <1>4, <1>5, <1>6, <1>7 DEF UserAction, vars

\* The inductive invariant holds in every reachable state.
THEOREM Invariance == Spec => [](TypeOK /\ IInv)
<1>1. Init => IInv
  BY DownloadAssumption DEF Init, IInv, SlotInv, TicketInv, CookiesFollowTicket, FileInv,
                            PartialIsOwned, NoFile
<1>2. TypeOK /\ IInv /\ [Next]_vars => IInv'
  BY SlotStep, TicketStep, FileStep DEF IInv
<1> QED
  BY <1>1, <1>2, TypeCorrect, PTL DEF Spec

\* However requests interleave, one download at a time holds the slot, from the moment
\* its handler reserves it (handleDownload).
THEOREM OneAtATime == Spec => []OneDownload
<1>1. SlotInv => OneDownload
  BY DEF SlotInv, OneDownload, Active
<1> QED
  BY <1>1, Invariance, PTL DEF IInv

\* Cookies reach one download, and only the URL their ticket was made for
\* (consumeDownloadTicket).
THEOREM CookiesStay == Spec => []CookiesFollowTicket
BY Invariance, PTL DEF IInv

\* An incomplete file is never forgotten: its goroutine has yet to remove it, or
\* os.Remove has failed (downloadToFile).
THEOREM PartialFilesOwned == Spec => []PartialIsOwned
<1>1. TypeOK /\ FileInv => PartialIsOwned
  BY DEF TypeOK, FileInv, PartialIsOwned
<1> QED
  BY <1>1, Invariance, PTL DEF IInv

\* No download overwrites or removes a whole file that is not its own: O_EXCL makes a
\* new file, and only a download that has lost its own file removes another
\* (downloadToFile).
THEOREM WholeFilesAreSafe == Spec => WholeFilesStay
<1> DEFINE Allowed(p) ==
             \/ UserDelete(p)
             \/ \E d \in Downloads : file[p].owner = d /\ stage[d] = "whole"
             \/ \E d \in Downloads : path[d] = p /\ stage[d] = "remove" /\ file[p].owner # d
<1>1. ASSUME TypeOK, IInv, [Next]_vars, NEW p \in Paths, file[p].whole, file'[p] # file[p]
      PROVE  Allowed(p)
  <2> USE <1>1, DownloadAssumption DEF TypeOK, slot, hvars, dvars, tvars, fvars
  <2>1. ASSUME NEW d \in Downloads, Goroutine(d) PROVE Allowed(p)
    <3>1. CASE OpenFile(d)
      BY <3>1 DEF OpenFile, Creatable, Absent, NoFile
    <3>2. CASE CopyEnds(d)
      <4>1. p = path[d] /\ file'[p] = [file[p] EXCEPT !.whole = TRUE]
        BY <3>2 DEF CopyEnds
      <4>2. file[p] \in File /\ file[p].whole = TRUE
        BY DEF File
      <4> QED
        BY <4>1, <4>2 DEF File
    <3>3. CASE CloseFails(d)
      <4>1. p = path[d] /\ file[p].owner = d /\ stage[d] \in {"whole", "failed"}
        BY <3>3 DEF CloseFails, Owned
      <4>2. stage[d] \in {"whole", "ended"}
        BY <4>1 DEF IInv, FileInv
      <4> QED
        BY <4>1, <4>2
    <3>4. CASE RemoveFile(d)
      <4>1. p = path[d] /\ stage[d] = "remove"
        BY <3>4 DEF RemoveFile, Removed
      <4>2. file[p].owner # d
        BY <4>1 DEF IInv, FileInv
      <4> QED
        BY <4>1, <4>2
    <3> QED
      BY <2>1, <3>1, <3>2, <3>3, <3>4
         DEF Goroutine, RequestSucceeds, RequestFails, OpenFails, CopyFails, CloseSucceeds
  <2>2. ASSUME NEW q \in Paths, UserCreates(q) PROVE Allowed(p)
    BY <2>2 DEF UserCreates, Absent, NoFile
  <2>3. ASSUME NEW q \in Paths, UserDelete(q) PROVE Allowed(p)
    <3>1. q = p
      BY <2>3 DEF UserDelete
    <3> QED
      BY <2>3, <3>1
  <2>4. ~UNCHANGED file
    OBVIOUS
  <2>5. TicketAction \/ HandlerAction \/ Exit \/ UNCHANGED vars => UNCHANGED file
    BY DEF TicketAction, HandlerAction, Handler, Exit, vars, TicketExpires, TicketTimer,
           CreateTicket, Reserve, ConsumeTicket, ChoosePath, NoDirectory, Publish
  <2> QED
    BY StepCases, <2>1, <2>2, <2>3, <2>4, <2>5 DEF UserAction
<1>2. TypeOK /\ IInv /\ [Next]_vars =>
        [\A p \in Paths : file[p].whole /\ file'[p] # file[p] =>
           \/ UserDelete(p)
           \/ \E d \in Downloads : file[p].owner = d /\ stage[d] = "whole"
           \/ \E d \in Downloads : path[d] = p /\ stage[d] = "remove" /\ file[p].owner # d]_vars
  BY <1>1
<1> QED
  BY <1>2, Invariance, PTL DEF Spec, WholeFilesStay
=============================================================================
