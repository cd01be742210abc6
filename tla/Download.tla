------------------------------ MODULE Download ------------------------------
(***************************************************************************)
(* Managed downloads of womprat (cmd/womprat/download.go and               *)
(* download_cookie.go): handleDownload reserves the one download slot,     *)
(* consumes a cookie ticket, picks an unused path and starts a goroutine   *)
(* that fetches the URL into that path.  Handlers, goroutines, the timers  *)
(* of the tickets and other programs that use the Downloads directory      *)
(* interleave; every critical section of downloadMu and downloadTicketMu   *)
(* and every file operation is a step.                                     *)
(***************************************************************************)
EXTENDS Naturals, FiniteSets

CONSTANTS
  Handlers,          \* HTTP requests in progress
  Downloads,         \* downloadState objects: bounds the downloads of a behaviour
  NoDownload,
  URLs, Names,
  FileName,          \* filenameFromURL: the sanitised name of a URL's file
  MaxSuffix,         \* highest suffix uniqueDownloadPath tries (9999 in the code)
  Tickets,           \* random ticket names: bounds the tickets of a behaviour
  NoTicket,          \* the request names no ticket
  MaxTickets,        \* maxDownloadTickets (64)
  User,              \* owner of a file that no download made
  MaxUserChanges     \* bound on what other programs create and delete

ASSUME DownloadAssumption ==
  /\ NoDownload \notin Downloads /\ User \notin Downloads
  /\ NoTicket \notin Tickets
  /\ URLs # {} /\ FileName \in [URLs -> Names]
  /\ MaxSuffix \in Nat /\ MaxTickets \in Nat /\ MaxUserChanges \in Nat
  /\ IsFiniteSet(Tickets)

\* name, name_1 .. name_MaxSuffix, and the name with a time stamp that is tried
\* last, without a look whether it exists.
Stamp == MaxSuffix + 1
Paths == Names \X (0..Stamp)

NoFile == [owner |-> NoDownload, whole |-> FALSE]
File   == [owner : Downloads \cup {User, NoDownload}, whole : BOOLEAN]

VARIABLES
  running,
  downloadStarting, currentDownload,
  hpc, hurl, hticket, hcookies, hpath,   \* of each handler
  stage,             \* where the goroutine of a download is
  status,            \* downloadState.Status
  url, path, cookies,                    \* what the download was started with
  tickets, ticketURL,                    \* downloadTickets
  file,              \* the Downloads directory
  leftover,          \* paths whose os.Remove failed
  userChanges

hvars == <<hpc, hurl, hticket, hcookies, hpath>>
dvars == <<stage, status, url, path, cookies>>
tvars == <<tickets, ticketURL>>
fvars == <<file, leftover, userChanges>>
slot  == <<downloadStarting, currentDownload>>
vars  == <<running, slot, hvars, dvars, tvars, fvars>>

\* A ticket is in the map while it is live or expired but not yet deleted.
TicketStates == {"unissued", "live", "expired", "gone"}
Pending == {t \in Tickets : tickets[t] \in {"live", "expired"}}

TypeOK ==
  /\ running \in BOOLEAN /\ downloadStarting \in BOOLEAN
  /\ currentDownload \in Downloads \cup {NoDownload}
  /\ hpc \in [Handlers -> {"idle", "reserved", "ticketed", "pathed"}]
  /\ hurl \in [Handlers -> URLs] /\ hpath \in [Handlers -> Paths]
  /\ hticket \in [Handlers -> Tickets \cup {NoTicket}]
  /\ hcookies \in [Handlers -> Tickets \cup {NoTicket}]
  /\ stage \in [Downloads -> {"none", "request", "open", "copy", "whole", "failed",
                              "remove", "ended"}]
  /\ status \in [Downloads -> {"none", "downloading", "complete", "error"}]
  /\ url \in [Downloads -> URLs] /\ path \in [Downloads -> Paths]
  /\ cookies \in [Downloads -> Tickets \cup {NoTicket}]
  /\ tickets \in [Tickets -> TicketStates] /\ ticketURL \in [Tickets -> URLs]
  /\ Cardinality(Pending) <= MaxTickets
  /\ file \in [Paths -> File] /\ leftover \subseteq Paths
  /\ userChanges \in 0..MaxUserChanges

Init ==
  /\ running = TRUE
  /\ downloadStarting = FALSE /\ currentDownload = NoDownload
  /\ hpc = [h \in Handlers |-> "idle"]
  /\ hurl \in [Handlers -> {CHOOSE u \in URLs : TRUE}]
  /\ hticket = [h \in Handlers |-> NoTicket] /\ hcookies = [h \in Handlers |-> NoTicket]
  /\ hpath = [h \in Handlers |-> <<FileName[hurl[h]], 0>>]
  /\ stage = [d \in Downloads |-> "none"] /\ status = [d \in Downloads |-> "none"]
  /\ url \in [Downloads -> {CHOOSE u \in URLs : TRUE}]
  /\ path = [d \in Downloads |-> <<FileName[url[d]], 0>>]
  /\ cookies = [d \in Downloads |-> NoTicket]
  /\ tickets = [t \in Tickets |-> "unissued"]
  /\ ticketURL \in [Tickets -> {CHOOSE u \in URLs : TRUE}]
  /\ file = [p \in Paths |-> NoFile] /\ leftover = {} /\ userChanges = 0
-----------------------------------------------------------------------------
\* The cookie tickets.

\* len(a.downloadTickets) < maxDownloadTickets
RoomForTickets(kept) == Cardinality(kept) < MaxTickets

\* createDownloadTicket: sweep what has expired, then add the new ticket.  A full
\* map refuses it; the sweep has happened all the same.
CreateTicket(t, u) ==
  LET live == {x \in Tickets : tickets[x] = "live"}
      swept == [x \in Tickets |-> IF tickets[x] = "expired" THEN "gone" ELSE tickets[x]]
  IN  /\ running /\ tickets[t] = "unissued"
      /\ IF RoomForTickets(live)
         THEN /\ tickets' = [swept EXCEPT ![t] = "live"]
              /\ ticketURL' = [ticketURL EXCEPT ![t] = u]
         ELSE tickets' = swept /\ UNCHANGED ticketURL
      /\ UNCHANGED <<running, slot, hvars, dvars, fvars>>

\* Thirty seconds have passed since the ticket was created.
TicketExpires(t) ==
  /\ tickets[t] = "live"
  /\ tickets' = [tickets EXCEPT ![t] = "expired"]
  /\ UNCHANGED <<running, slot, hvars, dvars, ticketURL, fvars>>

\* The timer of createDownloadTicket deletes an expired ticket.
TicketTimer(t) ==
  /\ running /\ tickets[t] = "expired"
  /\ tickets' = [tickets EXCEPT ![t] = "gone"]
  /\ UNCHANGED <<running, slot, hvars, dvars, ticketURL, fvars>>
-----------------------------------------------------------------------------
\* handleDownload.

\* Mutant: a handler that is still choosing a path does not count.
SlotFreeUnreserved ==
  currentDownload # NoDownload => status[currentDownload] # "downloading"

\* Neither a handler before its download starts nor a running download.
SlotFree ==
  /\ ~downloadStarting
  /\ currentDownload # NoDownload => status[currentDownload] # "downloading"

\* The first critical section: with the slot taken the request is refused and has
\* used no ticket.
Reserve(h, u, t) ==
  /\ running /\ hpc[h] = "idle" /\ SlotFree
  /\ \E d \in Downloads : stage[d] = "none"
  /\ downloadStarting' = TRUE
  /\ hpc' = [hpc EXCEPT ![h] = "reserved"]
  /\ hurl' = [hurl EXCEPT ![h] = u]
  /\ hticket' = [hticket EXCEPT ![h] = t]
  /\ hcookies' = [hcookies EXCEPT ![h] = NoTicket]
  /\ UNCHANGED <<running, currentDownload, hpath, dvars, tvars, fvars>>

\* Mutant: a handler that fails keeps the slot.
RefuseLeaky(h) ==
  /\ hpc' = [hpc EXCEPT ![h] = "idle"]
  /\ UNCHANGED <<slot, hurl, hticket, hcookies, hpath>>

\* The deferred release of the slot when the handler fails.
Refuse(h) ==
  /\ hpc' = [hpc EXCEPT ![h] = "idle"]
  /\ downloadStarting' = FALSE
  /\ UNCHANGED <<currentDownload, hurl, hticket, hcookies, hpath>>

\* consumeDownloadTicket deletes the ticket whether it is good or not.
Taken(t) == IF t \in Pending THEN [tickets EXCEPT ![t] = "gone"] ELSE tickets

\* Mutant: the URL the ticket was made for is not compared.
TicketGoodAnyURL(h) == tickets[hticket[h]] = "live"

\* The ticket has not expired and was made for this URL.
TicketGood(h) == tickets[hticket[h]] = "live" /\ ticketURL[hticket[h]] = hurl[h]

ConsumeTicket(h) ==
  /\ running /\ hpc[h] = "reserved"
  /\ \/ /\ hticket[h] = NoTicket
        /\ hpc' = [hpc EXCEPT ![h] = "ticketed"]
        /\ UNCHANGED <<tickets, slot, hurl, hticket, hcookies, hpath>>
     \/ /\ hticket[h] # NoTicket /\ TicketGood(h)
        /\ tickets' = Taken(hticket[h])
        /\ hpc' = [hpc EXCEPT ![h] = "ticketed"]
        /\ hcookies' = [hcookies EXCEPT ![h] = hticket[h]]
        /\ UNCHANGED <<slot, hurl, hticket, hpath>>
     \/ /\ hticket[h] # NoTicket /\ ~TicketGood(h)
        /\ tickets' = Taken(hticket[h])
        /\ Refuse(h)
  /\ UNCHANGED <<running, dvars, ticketURL, fvars>>

Absent(p) == file[p] = NoFile

\* uniqueDownloadPath: the first of the candidates that os.Stat does not find.
UniquePath(n) ==
  LET free == {i \in 0..MaxSuffix : Absent(<<n, i>>)}
  IN  <<n, IF free = {} THEN Stamp ELSE CHOOSE i \in free : \A j \in free : i <= j>>

ChoosePath(h) ==
  /\ running /\ hpc[h] = "ticketed"
  /\ hpath' = [hpath EXCEPT ![h] = UniquePath(FileName[hurl[h]])]
  /\ hpc' = [hpc EXCEPT ![h] = "pathed"]
  /\ UNCHANGED <<running, slot, hurl, hticket, hcookies, dvars, tvars, fvars>>

\* os.MkdirAll fails: the ticket is used up.
NoDirectory(h) ==
  /\ running /\ hpc[h] = "ticketed"
  /\ Refuse(h)
  /\ UNCHANGED <<running, dvars, tvars, fvars>>

\* The second critical section, and the start of the goroutine.
Publish(h) ==
  /\ running /\ hpc[h] = "pathed"
  /\ \E d \in Downloads :
       /\ stage[d] = "none"
       /\ currentDownload' = d
       /\ stage' = [stage EXCEPT ![d] = "request"]
       /\ status' = [status EXCEPT ![d] = "downloading"]
       /\ url' = [url EXCEPT ![d] = hurl[h]]
       /\ path' = [path EXCEPT ![d] = hpath[h]]
       /\ cookies' = [cookies EXCEPT ![d] = hcookies[h]]
  /\ downloadStarting' = FALSE
  /\ hpc' = [hpc EXCEPT ![h] = "idle"]
  /\ UNCHANGED <<running, hurl, hticket, hcookies, hpath, tvars, fvars>>
-----------------------------------------------------------------------------
\* downloadToFile.

\* A critical section of the goroutine: its next place and its status.
Goes(d, place, st) ==
  /\ running
  /\ stage' = [stage EXCEPT ![d] = place]
  /\ status' = [status EXCEPT ![d] = st]
  /\ UNCHANGED <<running, slot, hvars, url, path, cookies, tvars, userChanges>>

\* The request is answered with a 2xx status, or fails (the tailnet is down, the
\* answer has another status, five minutes have passed).
RequestSucceeds(d) == stage[d] = "request" /\ Goes(d, "open", status[d])
                      /\ UNCHANGED <<file, leftover>>
RequestFails(d)    == stage[d] = "request" /\ Goes(d, "ended", "error")
                      /\ UNCHANGED <<file, leftover>>

\* Mutant: O_EXCL is missing, an existing file is truncated.
CreatableAlways(d) == TRUE

\* O_CREATE | O_EXCL
Creatable(d) == Absent(path[d])

OpenFile(d) ==
  /\ stage[d] = "open" /\ Creatable(d)
  /\ Goes(d, "copy", status[d])
  /\ file' = [file EXCEPT ![path[d]] = [owner |-> d, whole |-> FALSE]]
  /\ leftover' = leftover \ {path[d]}

\* The file exists by now, or cannot be made for another reason.
OpenFails(d) ==
  /\ stage[d] = "open"
  /\ Goes(d, "ended", "error")
  /\ UNCHANGED <<file, leftover>>

\* A goroutine writes through its handle: a file that is no longer its own at
\* that path does not change.
Owned(d) == file[path[d]].owner = d

\* The loop ends with io.EOF.
CopyEnds(d) ==
  /\ stage[d] = "copy" /\ Goes(d, "whole", status[d])
  /\ file' = IF Owned(d) THEN [file EXCEPT ![path[d]].whole = TRUE] ELSE file
  /\ UNCHANGED leftover

\* A read or a write fails: the status says so before the deferred function runs.
CopyFails(d) ==
  /\ stage[d] = "copy" /\ Goes(d, "failed", "error")
  /\ UNCHANGED <<file, leftover>>

\* Mutant: the status of a complete download is not set.
CloseSucceedsSilent(d) ==
  /\ \/ stage[d] = "whole" /\ Goes(d, "ended", status[d])
     \/ stage[d] = "failed" /\ Goes(d, "remove", status[d])
  /\ UNCHANGED <<file, leftover>>

\* The deferred function.
CloseSucceeds(d) ==
  /\ \/ stage[d] = "whole" /\ Goes(d, "ended", "complete")
     \/ stage[d] = "failed" /\ Goes(d, "remove", status[d])
  /\ UNCHANGED <<file, leftover>>

\* Closing fails: what was written may not all be in the file.
CloseFails(d) ==
  /\ stage[d] \in {"whole", "failed"} /\ Goes(d, "remove", "error")
  /\ file' = IF Owned(d) THEN [file EXCEPT ![path[d]].whole = FALSE] ELSE file
  /\ UNCHANGED leftover

\* Mutant: an incomplete file is not removed.
RemovedKept(d) == file

\* os.Remove takes away whatever has the name.
Removed(d) == [file EXCEPT ![path[d]] = NoFile]

RemoveFile(d) ==
  /\ stage[d] = "remove" /\ Goes(d, "ended", status[d])
  /\ \/ file' = Removed(d) /\ leftover' = leftover \ {path[d]}
     \/ leftover' = leftover \cup {path[d]} /\ UNCHANGED file
-----------------------------------------------------------------------------
\* The environment.

\* Another program puts a file into Downloads, or deletes one.
UserCreates(p) ==
  /\ Absent(p) /\ userChanges < MaxUserChanges
  /\ file' = [file EXCEPT ![p] = [owner |-> User, whole |-> TRUE]]
  /\ userChanges' = userChanges + 1
  /\ UNCHANGED <<running, slot, hvars, dvars, tvars, leftover>>

UserDelete(p) ==
  /\ ~Absent(p) /\ userChanges < MaxUserChanges
  /\ file' = [file EXCEPT ![p] = NoFile]
  /\ userChanges' = userChanges + 1
  /\ leftover' = leftover \ {p}
  /\ UNCHANGED <<running, slot, hvars, dvars, tvars>>

\* The program ends; shutdown waits for no download.
Exit ==
  /\ running /\ running' = FALSE
  /\ UNCHANGED <<slot, hvars, dvars, tvars, fvars>>

Stopped == ~running /\ UNCHANGED vars

Goroutine(d) ==
  \/ RequestSucceeds(d) \/ RequestFails(d) \/ OpenFile(d) \/ OpenFails(d)
  \/ CopyEnds(d) \/ CopyFails(d) \/ CloseSucceeds(d) \/ CloseFails(d) \/ RemoveFile(d)

Handler(h) == ConsumeTicket(h) \/ ChoosePath(h) \/ NoDirectory(h) \/ Publish(h)

Next ==
  \/ \E t \in Tickets : TicketExpires(t) \/ TicketTimer(t)
  \/ \E t \in Tickets, u \in URLs : CreateTicket(t, u)
  \/ \E h \in Handlers, u \in URLs, t \in Tickets \cup {NoTicket} : Reserve(h, u, t)
  \/ \E h \in Handlers : Handler(h)
  \/ \E d \in Downloads : Goroutine(d)
  \/ \E p \in Paths : UserCreates(p) \/ UserDelete(p)
  \/ Exit \/ Stopped

Spec == Init /\ [][Next]_vars

\* The Go scheduler runs every handler and goroutine; a request ends at the latest
\* when the client's five minutes are over.
FairSpec == /\ Spec
            /\ \A h \in Handlers : WF_vars(Handler(h))
            /\ \A d \in Downloads : WF_vars(Goroutine(d))
-----------------------------------------------------------------------------
\* At most one download at a time, from the moment its handler reserves the slot:
\* downloadStarting covers the window before currentDownload is published.
Active == {h \in Handlers : hpc[h] # "idle"} \cup {d \in Downloads : status[d] = "downloading"}
OneDownload == \A x, y \in Active : x = y

\* Cookies go to one download only, and to the URL their ticket was made for.
CookiesFollowTicket ==
  /\ \A d \in Downloads : cookies[d] # NoTicket => ticketURL[cookies[d]] = url[d]
  /\ \A d, e \in Downloads : cookies[d] = cookies[e] /\ d # e => cookies[d] = NoTicket

\* An incomplete file belongs to a goroutine that has yet to remove it, or could
\* not be removed.
PartialIsOwned ==
  running => \A p \in Paths : file[p].owner \in Downloads /\ ~file[p].whole =>
    \/ p \in leftover
    \/ path[file[p].owner] = p /\ stage[file[p].owner] \in {"copy", "failed", "remove"}

\* A step of womprat leaves whole files alone: a download neither overwrites nor
\* removes the file of another program or of an earlier download.  The one exception is
\* a download whose own file was deleted under it: it removes what has the name now.
WholeFilesStay ==
  [][\A p \in Paths : file[p].whole /\ file'[p] # file[p] =>
       \/ UserDelete(p)
       \/ \E d \in Downloads : file[p].owner = d /\ stage[d] = "whole"
       \/ \E d \in Downloads : path[d] = p /\ stage[d] = "remove" /\ file[p].owner # d]_vars

\* The slot does not stay taken: a download that runs ends, unless the program does.
DownloadEnds ==
  \A d \in Downloads : status[d] = "downloading" ~> status[d] # "downloading" \/ ~running
SlotIsReleased == downloadStarting ~> ~downloadStarting \/ ~running
-----------------------------------------------------------------------------
\* Why they hold: the inductive invariant of the proofs.

\* The slot has one holder: the handler that made downloadStarting true, or the
\* current download.
SlotInv ==
  /\ \A h \in Handlers : hpc[h] # "idle" =>
       /\ downloadStarting
       /\ \A g \in Handlers : hpc[g] # "idle" => g = h
  /\ \A d \in Downloads : status[d] = "downloading" =>
       d = currentDownload /\ ~downloadStarting

\* A ticket whose cookies are in use is out of the map for good, so that it keeps its
\* URL and nobody else finds it.
TicketInv ==
  /\ \A h \in Handlers :
       /\ hpc[h] = "reserved" => hcookies[h] = NoTicket
       /\ hpc[h] # "idle" /\ hcookies[h] # NoTicket =>
            /\ tickets[hcookies[h]] = "gone" /\ ticketURL[hcookies[h]] = hurl[h]
            /\ \A d \in Downloads : cookies[d] # hcookies[h]
  /\ \A d \in Downloads : cookies[d] # NoTicket => tickets[cookies[d]] = "gone"

\* A file that a download made has the path of the download, is whole only after its
\* copy has ended well, and is incomplete only until its download ends, unless it could
\* not be removed.
FileInv ==
  \A p \in Paths, d \in Downloads : file[p].owner = d =>
    /\ path[d] = p /\ stage[d] \in {"copy", "whole", "failed", "remove", "ended"}
    /\ file[p].whole => stage[d] \in {"whole", "ended"}
    /\ ~file[p].whole => p \in leftover \/ stage[d] \in {"copy", "failed", "remove"}

\* The inductive invariant beyond TypeOK.
IInv == SlotInv /\ TicketInv /\ CookiesFollowTicket /\ FileInv
=============================================================================
