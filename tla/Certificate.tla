---------------------------- MODULE Certificate ----------------------------
(***************************************************************************)
(* Certificate exceptions: the certificateDecision of every native view    *)
(* (cmd/womprat/certificate.go), the events of the browser engine that     *)
(* drive it on Linux (gui_linux.go, webkit_linux.c) and on Windows         *)
(* (native_content_windows.go, certificate_windows.go), and the shell,     *)
(* which shows a "Proceed anyway" button for the token it was last told.   *)
(*                                                                         *)
(* The decision is only touched on the UI thread, but what the shell shows *)
(* and what the user clicks travel through queues, so both may be stale.   *)
(* On Linux the exception is given when the click is handled, for the      *)
(* certificate the C side kept; on Windows when the page is loaded again   *)
(* and fails with the granted certificate.                                 *)
(***************************************************************************)
EXTENDS Naturals, Sequences

CONSTANTS
  Tabs,             \* tabs with a native view
  Platforms,        \* "linux", "windows"
  Raws,             \* addresses as the engine spells them
  URLs, NoURL,      \* normalised https addresses, and ""
  CertificateURL,   \* certificateURL: Raws -> URLs or NoURL
  HostOf,           \* the host of an address, which an approval is for
  Certs, NoCert,    \* certificates in PEM, and ""
  Revoked,          \* those whose error status is never eligible
  MaxTokens,        \* bound on the tokens given out
  MaxLoads,         \* bound on the loads of a behaviour
  MaxClicks,        \* bound on the clicks of the user
  MaxEvals          \* bound on the calls the shell is behind

ASSUME CertificateAssumption ==
  /\ Platforms \subseteq {"linux", "windows"}
  /\ URLs \subseteq Raws /\ NoURL \notin Raws
  /\ CertificateURL \in [Raws -> URLs \cup {NoURL}]
  /\ \A u \in URLs : CertificateURL[u] = u
  /\ NoCert \notin Certs /\ Revoked \subseteq Certs
  /\ MaxTokens \in Nat /\ MaxLoads \in Nat /\ MaxClicks \in Nat
  /\ MaxEvals \in Nat

NoToken == 0
Tokens  == 1..MaxTokens
Prompt  == [url : URLs, cert : Certs, token : Tokens]   \* certificatePrompt
NoPrompt == [url |-> NoURL, cert |-> NoCert, token |-> NoToken]
Offers  == [tab : Tabs, url : URLs, cert : Certs, token : Tokens]

VARIABLES
  platform,    \* the host the program was built for
  open,        \* tabs whose view exists
  active,      \* App.activeTab
  load,        \* the address a view is loading, NoURL when it is not
  current,     \* certificateDecision.current
  pending,     \* certificateDecision.pending
  grant,       \* certificateDecision.grant
  certificate, \* BrowserTab.certificate, and the address it failed for
  prompt,      \* certificatePrompts in the shell: the token of the button
  evals,       \* shell.Eval calls that the shell has not run yet
  calls,       \* womprat_proceedCertificate calls not handled yet
  nextToken,   \* generateSessionToken never repeats
  loads,       \* loads so far
  clicks,      \* clicks so far
  offers,      \* every prompt that was pending, with its tab
  clicked,     \* the tokens the user clicked
  approvals    \* the exceptions the engine was given

dvars == <<current, pending, grant>>
gvars == <<offers, clicked, approvals>>
vars == <<platform, open, active, load, dvars, certificate, prompt, evals, calls, nextToken,
          loads, clicks, gvars>>

TypeOK ==
  /\ platform \in Platforms /\ open \subseteq Tabs /\ active \in Tabs
  /\ load \in [Tabs -> Raws \cup {NoURL}]
  /\ current \in [Tabs -> URLs \cup {NoURL}]
  /\ pending \in [Tabs -> Prompt \cup {NoPrompt}]
  /\ grant \in [Tabs -> Prompt \cup {NoPrompt}]
  /\ certificate \in [Tabs -> [cert : Certs \cup {NoCert}, uri : Raws \cup {NoURL}]]
  /\ prompt \in [Tabs -> Tokens \cup {NoToken}]
  /\ evals \in Seq([tab : Tabs, token : Tokens \cup {NoToken}, reply : BOOLEAN])
  /\ calls \in Seq([tab : Tabs, token : Tokens])
  /\ nextToken \in 1..MaxTokens + 1 /\ loads \in 0..MaxLoads /\ clicks \in 0..MaxClicks
  /\ offers \subseteq Offers /\ clicked \subseteq Tokens /\ approvals \subseteq Offers

Init ==
  /\ platform \in Platforms /\ open = Tabs /\ active \in Tabs
  /\ load = [t \in Tabs |-> NoURL]
  /\ current = [t \in Tabs |-> NoURL]
  /\ pending = [t \in Tabs |-> NoPrompt] /\ grant = [t \in Tabs |-> NoPrompt]
  /\ certificate = [t \in Tabs |-> [cert |-> NoCert, uri |-> NoURL]]
  /\ prompt = [t \in Tabs |-> NoToken] /\ evals = <<>> /\ calls = <<>>
  /\ nextToken = 1 /\ loads = 0 /\ clicks = 0
  /\ offers = {} /\ clicked = {} /\ approvals = {}
-----------------------------------------------------------------------------
\* The shell is told the token of a tab's button.
Tell(t, token) == Append(evals, [tab |-> t, token |-> token, reply |-> FALSE])

\* The shell is not too far behind.
Room == Len(evals) < MaxEvals

\* reportCertificatePrompt exists on Windows only.
Report(t, token) == evals' = IF platform = "windows" THEN Tell(t, token) ELSE evals

\* certificateDecision.clear
Clear(t) == /\ current' = [current EXCEPT ![t] = NoURL]
            /\ pending' = [pending EXCEPT ![t] = NoPrompt]
            /\ grant' = [grant EXCEPT ![t] = NoPrompt]

\* Navigate, GoBack, GoForward, Reload: consent is dropped, and the engine will start
\* a load in its own time.  A renderer that fails on Windows does the same.  With no
\* tracked address there is nothing to drop.
Navigate(t) ==
  /\ Room /\ t \in open /\ current[t] # NoURL
  /\ Clear(t) /\ Report(t, NoToken)
  /\ UNCHANGED <<platform, open, active, load, certificate, prompt, calls, nextToken, loads,
                 clicks, gvars>>

\* certificateURL
Normalised(raw) == CertificateURL[raw]

\* certificateDecision.starting: a grant only survives a load of its own address.
KeptGrant(t, url) == IF grant[t].url # url THEN NoPrompt ELSE grant[t]

\* The engine starts a load, or is redirected.
Starting(t) ==
  \E raw \in Raws :
    LET url == Normalised(raw)
    IN  /\ Room /\ t \in open /\ loads < MaxLoads /\ loads' = loads + 1
        /\ load' = [load EXCEPT ![t] = raw]
        /\ current' = [current EXCEPT ![t] = url]
        /\ pending' = [pending EXCEPT ![t] = NoPrompt]
        /\ grant' = [grant EXCEPT ![t] = KeptGrant(t, url)]
        /\ Report(t, NoToken)
        /\ UNCHANGED <<platform, open, active, certificate, prompt, calls, nextToken, clicks,
                       gvars>>

\* A load that succeeds ends consent, and the button with it.
Finished(t) ==
  /\ Room /\ load[t] # NoURL /\ load' = [load EXCEPT ![t] = NoURL]
  /\ Clear(t) /\ evals' = Tell(t, NoToken)
  /\ UNCHANGED <<platform, open, active, certificate, prompt, calls, nextToken, loads, clicks,
                 gvars>>

\* A load that fails otherwise than by its certificate keeps what was decided.
Failed(t) ==
  /\ Room /\ load[t] # NoURL /\ load' = [load EXCEPT ![t] = NoURL]
  /\ Report(t, pending[t].token)
  /\ UNCHANGED <<platform, open, active, dvars, certificate, prompt, calls, nextToken, loads,
                 clicks, gvars>>
-----------------------------------------------------------------------------
\* Mutant: revoked certificates are offered too.
EligibleAlways(cert) == cert # NoCert

\* The errors an exception can be made for: the name, the dates or the issuer.
Eligible(cert) == cert \notin Revoked \cup {NoCert}

\* Mutant: the grant is for the address, whatever certificate is presented.
GrantedAnyCert(t, url, cert) == grant[t].url = url

\* The error is the one the user has just consented to.
Granted(t, url, cert) == grant[t].url = url /\ grant[t].cert = cert

\* certificateDecision.detected: an error of the tracked load is allowed when it was
\* granted, and offered otherwise.
Detected(t, raw, cert) ==
  LET url  == Normalised(raw)
      ours == url # NoURL /\ url = current[t]
      offer == ours /\ Eligible(cert) /\ ~Granted(t, url, cert)
      p == [url |-> url, cert |-> cert, token |-> nextToken]
  IN  /\ UNCHANGED current
      /\ nextToken' = nextToken + 1
      /\ pending' = IF ours THEN [pending EXCEPT ![t] = IF offer THEN p ELSE NoPrompt]
                    ELSE pending
      /\ grant' = IF ours THEN [grant EXCEPT ![t] = NoPrompt] ELSE grant
      /\ offers' = IF offer THEN offers \cup {[tab |-> t, url |-> url, cert |-> cert,
                                               token |-> nextToken]}
                   ELSE offers

\* The engine remembers an approval by host and certificate: no error is reported.
Approved(raw, cert) == \E a \in approvals : HostOf[a.url] = HostOf[raw] /\ a.cert = cert

\* Linux, event 5: the C side keeps the certificate of the load that failed, and the
\* decision hears of it unless no token could be made.
TLSFailedLinux(t, cert) ==
  /\ platform = "linux" /\ Room /\ load[t] # NoURL
  /\ ~Approved(load[t], cert)
  /\ certificate' = [certificate EXCEPT ![t] = [cert |-> cert, uri |-> load[t]]]
  /\ load' = [load EXCEPT ![t] = NoURL]
  /\ \/ nextToken <= MaxTokens /\ Detected(t, load[t], cert)
     \/ UNCHANGED <<dvars, nextToken, offers>>
  /\ evals' = Tell(t, pending'[t].token)
  /\ UNCHANGED <<platform, open, active, prompt, calls, loads, clicks, clicked, approvals>>

\* EnableCertificateErrors cancels every error first, and allows it always when decide
\* says so: it is the error that was granted.
AlwaysAllowed(t, raw, cert) ==
  /\ Normalised(raw) # NoURL /\ Normalised(raw) = current[t]
  /\ Eligible(cert) /\ Granted(t, Normalised(raw), cert)

\* Windows: the error of the page or of any resource of it.
TLSErrorWindows(t, raw, cert) ==
  /\ platform = "windows" /\ load[t] # NoURL
  /\ nextToken <= MaxTokens /\ ~Approved(raw, cert)
  /\ Detected(t, raw, cert)
  /\ approvals' = IF AlwaysAllowed(t, raw, cert)
                  THEN approvals \cup {[tab |-> t, url |-> grant[t].url, cert |-> cert,
                                        token |-> grant[t].token]}
                  ELSE approvals
  /\ UNCHANGED <<platform, open, active, load, certificate, prompt, evals, calls, loads, clicks,
                 clicked>>

\* Windows: the event could not be read, cancelled or allowed.
TLSDiagnostic(t) ==
  /\ platform = "windows" /\ load[t] # NoURL
  /\ pending' = [pending EXCEPT ![t] = NoPrompt] /\ grant' = [grant EXCEPT ![t] = NoPrompt]
  /\ UNCHANGED <<platform, open, active, load, current, certificate, prompt, evals, calls,
                 nextToken, loads, clicks, gvars>>
-----------------------------------------------------------------------------
\* The shell runs the oldest Eval.  The reply to a click removes the button it was
\* made for, if its tab is still shown.
RunEval ==
  /\ evals # <<>> /\ evals' = Tail(evals)
  /\ LET e == Head(evals)
     IN  \/ ~e.reply /\ prompt' = [prompt EXCEPT ![e.tab] = e.token]
         \/ e.reply /\ prompt[e.tab] = e.token /\ prompt' = [prompt EXCEPT ![e.tab] = NoToken]
         \/ e.reply /\ UNCHANGED prompt
  /\ UNCHANGED <<platform, open, active, load, dvars, certificate, calls, nextToken, loads,
                 clicks, gvars>>

\* The user clicks the button of a tab, which need not be the native active one yet.
Click(t) ==
  /\ prompt[t] # NoToken /\ clicks < MaxClicks /\ clicks' = clicks + 1
  /\ calls' = Append(calls, [tab |-> t, token |-> prompt[t]])
  /\ clicked' = clicked \cup {prompt[t]}
  /\ UNCHANGED <<platform, open, active, load, dvars, certificate, prompt, evals, nextToken,
                 loads, offers, approvals>>

\* certificateDecision.proceed: the token of what is pending for the current address.
Valid(t, token) == token = pending[t].token /\ pending[t].url = current[t]

\* Operation 9 of webkit_linux.c: the certificate it kept failed for this address.
KeptFor(t, url) == certificate[t].cert # NoCert /\ certificate[t].uri = url

\* Linux: the exception is given to the engine at once.
ApprovedNow(t, token) ==
  IF platform = "linux" /\ KeptFor(t, pending[t].url)
  THEN approvals \cup {[tab |-> t, url |-> pending[t].url, cert |-> certificate[t].cert,
                        token |-> token]}
  ELSE approvals

\* Mutant: what was pending stays so.
SpentKept(t) == pending[t]

\* What is left of a prompt that was granted.
Spent(t) == NoPrompt

\* The UI thread handles a click.
ProceedCertificate ==
  /\ Room /\ calls # <<>> /\ calls' = Tail(calls)
  /\ LET t == Head(calls).tab
         token == Head(calls).token
         reply == [tab |-> t, token |-> token, reply |-> TRUE]
     IN  IF active = t /\ t \in open /\ Valid(t, token)
         THEN /\ grant' = [grant EXCEPT ![t] = pending[t]]
              /\ pending' = [pending EXCEPT ![t] = Spent(t)]
              /\ approvals' = ApprovedNow(t, token)
              /\ evals' = IF platform = "windows"
                          THEN Append(Tell(t, pending'[t].token), reply) ELSE Append(evals, reply)
         ELSE /\ evals' = Append(evals, reply)
              /\ UNCHANGED <<pending, grant, approvals>>
  /\ UNCHANGED <<platform, open, active, load, current, certificate, prompt, nextToken, loads,
                 clicks, offers, clicked>>

SwitchTab(t) ==
  /\ t \in open /\ active # t /\ active' = t
  /\ UNCHANGED <<platform, open, load, dvars, certificate, prompt, evals, calls, nextToken,
                 loads, clicks, gvars>>

\* The view is destroyed with its decision and with what the C side kept.
CloseTab(t) ==
  /\ t \in open /\ open' = open \ {t}
  /\ load' = [load EXCEPT ![t] = NoURL]
  /\ Clear(t)
  /\ certificate' = [certificate EXCEPT ![t] = [cert |-> NoCert, uri |-> NoURL]]
  /\ prompt' = [prompt EXCEPT ![t] = NoToken]
  /\ UNCHANGED <<platform, active, evals, calls, nextToken, loads, clicks, gvars>>

TabNext(t) ==
  \/ Navigate(t) \/ Starting(t) \/ Finished(t) \/ Failed(t)
  \/ \E cert \in Certs \cup {NoCert} : TLSFailedLinux(t, cert)
  \/ \E raw \in Raws, cert \in Certs \cup {NoCert} : TLSErrorWindows(t, raw, cert)
  \/ TLSDiagnostic(t) \/ Click(t) \/ SwitchTab(t) \/ CloseTab(t)

Next == RunEval \/ ProceedCertificate \/ \E t \in Tabs : TabNext(t)

Spec == Init /\ [][Next]_vars
-----------------------------------------------------------------------------
Promise == INSTANCE Consent

\* docs/usage.md: "Consent is bound to the tab, URL and certificate before approval".
\* The engine is only ever given an exception the user was offered and clicked, for
\* the tab, address and certificate of the offer, and once per click: whatever
\* navigations, redirects, errors of other resources and tab switches come between
\* the error, the button, the click and the approval.
ConsentIsBound == Promise!Spec

\* Revoked certificates never get an exception (README: "revoked certificates and
\* client-certificate errors cannot use this exception").
RevokedStayBlocked == \A a \in approvals : a.cert \notin Revoked

\* The offer behind a prompt of a tab.
OfferOf(t, p) == [tab |-> t, url |-> p.url, cert |-> p.cert, token |-> p.token]

\* Offers have tokens of their own, and none is for a revoked certificate.
OfferInv == \A o \in offers : /\ o.token < nextToken /\ o.cert \notin Revoked
                              /\ \A p \in offers : p.token = o.token => p = o

\* Buttons, what is on its way to them and clicks are of offers.
OfferedTokens == {o.token : o \in offers}
ShellInv ==
  /\ prompt \in [Tabs -> OfferedTokens \cup {NoToken}]
  /\ evals \in Seq([tab : Tabs, token : OfferedTokens \cup {NoToken}, reply : BOOLEAN])
  /\ calls \in Seq([tab : Tabs, token : clicked])
  /\ clicked \subseteq OfferedTokens

\* A tab has a prompt or a grant and never both.  A prompt is an offer of this tab that
\* was not approved, and on Linux it is for the certificate the C side kept, which a
\* load in progress might replace.
PendingInv ==
  \A t \in Tabs :
    /\ pending[t] = NoPrompt \/ grant[t] = NoPrompt
    /\ pending[t] # NoPrompt =>
         /\ OfferOf(t, pending[t]) \in offers
         /\ \A a \in approvals : a.token # pending[t].token
         /\ platform = "linux" =>
              certificate[t].cert = pending[t].cert /\ load[t] = NoURL

\* A grant is an offer of this tab that was clicked, and on Windows it was not approved.
GrantInv ==
  \A t \in Tabs : grant[t] # NoPrompt =>
    /\ OfferOf(t, grant[t]) \in offers /\ grant[t].token \in clicked
    /\ platform = "windows" => \A a \in approvals : a.token # grant[t].token

\* The parts of the inductive invariant beyond TypeOK.
IInv == OfferInv /\ ShellInv /\ PendingInv /\ GrantInv /\ approvals \subseteq offers
=============================================================================
