SPECIFICATION FairSpec
CONSTANTS
  Handlers = {h1, h2}
  Downloads = {d1, d2}
  NoDownload = none
  URLs = {u1, u2}
  Names = {n1}
  FileName <- MCFileName
  MaxSuffix = 1
  Tickets = {t1}
  NoTicket = noticket
  MaxTickets = 1
  User = user
  MaxUserChanges = 1
INVARIANTS OneDownload CookiesFollowTicket PartialIsOwned
PROPERTIES WholeFilesStay DownloadEnds SlotIsReleased
