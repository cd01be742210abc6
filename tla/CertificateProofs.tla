------------------------- MODULE CertificateProofs -------------------------
(***************************************************************************)
(* For any number of tabs, addresses, certificates and events, certificate *)
(* exceptions keep the promise of Consent.                                 *)
(***************************************************************************)
EXTENDS Certificate, TLAPS

\* A sequence over a set is one over any larger set.
LEMMA SeqMono ==
  ASSUME NEW S, NEW T, S \subseteq T, NEW s \in Seq(S)
  PROVE  s \in Seq(T)
OBVIOUS

\* Queues stay over their set.
LEMMA QueueTypes ==
  ASSUME NEW S, NEW s \in Seq(S)
  PROVE  /\ \A e \in S : Append(s, e) \in Seq(S)
         /\ s # <<>> => Head(s) \in S /\ Tail(s) \in Seq(S)
OBVIOUS

\* The shapes of what travels to the shell.
LEMMA TellType ==
  ASSUME NEW S, NEW t \in Tabs, NEW token \in S,
         evals \in Seq([tab : Tabs, token : S, reply : BOOLEAN])
  PROVE  Tell(t, token) \in Seq([tab : Tabs, token : S, reply : BOOLEAN])
<1>1. [tab |-> t, token |-> token, reply |-> FALSE] \in [tab : Tabs, token : S, reply : BOOLEAN]
  OBVIOUS
<1>2. QED
  BY <1>1 DEF Tell

\* The absence of a prompt is not a prompt, and its token is no token.
LEMMA NoPromptFacts == NoPrompt \notin Prompt /\ NoPrompt.token = NoToken /\ NoToken \notin Tokens
BY DEF NoPrompt, Prompt, NoToken, Tokens

\* Clearing a decision keeps its types.
LEMMA ClearType ==
  ASSUME TypeOK, NEW t \in Tabs, Clear(t)
  PROVE  /\ current' \in [Tabs -> URLs \cup {NoURL}]
         /\ pending' \in [Tabs -> Prompt \cup {NoPrompt}]
         /\ grant' \in [Tabs -> Prompt \cup {NoPrompt}]
BY DEF TypeOK, Clear

\* detected keeps its types, and an offer is one.
LEMMA DetectedType ==
  ASSUME TypeOK, NEW t \in Tabs, NEW raw \in Raws, NEW cert \in Certs \cup {NoCert},
         nextToken <= MaxTokens, Detected(t, raw, cert)
  PROVE  /\ current' = current
         /\ pending' \in [Tabs -> Prompt \cup {NoPrompt}]
         /\ grant' \in [Tabs -> Prompt \cup {NoPrompt}]
         /\ nextToken' \in 1..MaxTokens + 1
         /\ offers' \subseteq Offers
<1> DEFINE url == Normalised(raw)
           ours == url # NoURL /\ url = current[t]
           offer == ours /\ Eligible(cert) /\ ~Granted(t, url, cert)
           p == [url |-> url, cert |-> cert, token |-> nextToken]
           o == [tab |-> t, url |-> url, cert |-> cert, token |-> nextToken]
<1>1. nextToken \in Tokens /\ nextToken + 1 \in 1..MaxTokens + 1
  BY CertificateAssumption DEF TypeOK, Tokens
<1>2. url \in URLs \cup {NoURL}
  BY CertificateAssumption DEF Normalised
<1>3. offer => p \in Prompt /\ o \in Offers
  BY <1>1, <1>2 DEF Eligible, Prompt, Offers
<1>4. /\ current' = current
      /\ nextToken' = nextToken + 1
      /\ pending' = IF ours THEN [pending EXCEPT ![t] = IF offer THEN p ELSE NoPrompt]
                    ELSE pending
      /\ grant' = IF ours THEN [grant EXCEPT ![t] = NoPrompt] ELSE grant
      /\ offers' = IF offer THEN offers \cup {o} ELSE offers
  BY DEF Detected
<1> HIDE DEF url, ours, offer, p, o
<1>5. pending' \in [Tabs -> Prompt \cup {NoPrompt}]
  BY <1>3, <1>4 DEF TypeOK
<1>6. grant' \in [Tabs -> Prompt \cup {NoPrompt}]
  BY <1>4 DEF TypeOK
<1>7. offers' \subseteq Offers
  BY <1>3, <1>4 DEF TypeOK
<1>8. QED
  BY <1>1, <1>4, <1>5, <1>6, <1>7

\* The approval on Windows is of the offer that was granted.
LEMMA GrantOffer ==
  ASSUME TypeOK, NEW t \in Tabs, grant[t].url # NoURL
  PROVE  grant[t] \in Prompt /\ OfferOf(t, grant[t]) \in Offers
<1>1. grant[t] \in Prompt
  BY DEF TypeOK, NoPrompt
<1>2. QED
  BY <1>1 DEF Prompt, Offers, OfferOf

\* A token that is valid is that of a prompt.
LEMMA ValidPrompt ==
  ASSUME TypeOK, NEW t \in Tabs, NEW token \in Tokens, Valid(t, token)
  PROVE  pending[t] \in Prompt /\ pending[t] # NoPrompt
<1>1. pending[t].token \in Tokens
  BY DEF Valid
<1>2. QED
  BY <1>1, NoPromptFacts DEF TypeOK

\* Every step keeps the variables in their types.
LEMMA StepType ==
  ASSUME TypeOK, [Next]_vars
  PROVE  TypeOK'
<1> USE CertificateAssumption
<1>1. CASE RunEval
  <2>1. PICK e \in [tab : Tabs, token : Tokens \cup {NoToken}, reply : BOOLEAN] :
          e = Head(evals)
    BY <1>1, QueueTypes DEF RunEval, TypeOK
  <2>2. prompt' \in [Tabs -> Tokens \cup {NoToken}]
    BY <1>1, <2>1 DEF RunEval, TypeOK
  <2>3. evals' \in Seq([tab : Tabs, token : Tokens \cup {NoToken}, reply : BOOLEAN])
    BY <1>1 DEF RunEval, TypeOK
  <2>4. QED
    BY <1>1, <2>2, <2>3 DEF RunEval, TypeOK, dvars, gvars
<1>2. CASE ProceedCertificate
  <2>a. Head(calls) \in [tab : Tabs, token : Tokens]
    BY <1>2, QueueTypes DEF ProceedCertificate, TypeOK
  <2>1. PICK t \in Tabs, token \in Tokens : t = Head(calls).tab /\ token = Head(calls).token
    BY <2>a
  <2> DEFINE reply == [tab |-> t, token |-> token, reply |-> TRUE]
             Evals == Seq([tab : Tabs, token : Tokens \cup {NoToken}, reply : BOOLEAN])
  <2>2. reply \in [tab : Tabs, token : Tokens \cup {NoToken}, reply : BOOLEAN]
    OBVIOUS
  <2>3. Append(evals, reply) \in Evals
    BY <2>2 DEF TypeOK
  <2>4. calls' \in Seq([tab : Tabs, token : Tokens])
    BY <1>2 DEF ProceedCertificate, TypeOK
  <2>5. CASE active = t /\ t \in open /\ Valid(t, token)
    <3>1. /\ grant' = [grant EXCEPT ![t] = pending[t]]
          /\ pending' = [pending EXCEPT ![t] = Spent(t)]
          /\ approvals' = ApprovedNow(t, token)
          /\ evals' = IF platform = "windows"
                      THEN Append(Tell(t, pending'[t].token), reply) ELSE Append(evals, reply)
      BY <1>2, <2>1, <2>5 DEF ProceedCertificate
    <3>2. pending[t] \in Prompt
      BY <2>5, ValidPrompt
    <3>3. /\ grant' \in [Tabs -> Prompt \cup {NoPrompt}]
          /\ pending' \in [Tabs -> Prompt \cup {NoPrompt}]
          /\ pending'[t] = NoPrompt
      BY <3>1 DEF TypeOK, Spent
    <3>4. Tell(t, pending'[t].token) \in Evals
      <4>1. pending'[t].token \in Tokens \cup {NoToken}
        BY <3>3, NoPromptFacts
      <4>2. QED
        BY <4>1, TellType DEF TypeOK
    <3>5. evals' \in Evals
      <4>1. Append(Tell(t, pending'[t].token), reply) \in Evals
        BY <3>4, <2>2, QueueTypes
      <4>2. QED
        BY <4>1, <3>1, <2>3
    <3>6. certificate[t].cert \in Certs \cup {NoCert}
      BY DEF TypeOK
    <3>7. approvals' \subseteq Offers
      BY <3>1, <3>2, <3>6 DEF ApprovedNow, KeptFor, TypeOK, Offers, Prompt
    <3>8. QED
      BY <1>2, <2>4, <3>3, <3>5, <3>7 DEF ProceedCertificate, TypeOK
  <2>6. CASE ~(active = t /\ t \in open /\ Valid(t, token))
    <3>1. evals' = Append(evals, reply) /\ UNCHANGED <<pending, grant, approvals>>
      BY <1>2, <2>1, <2>6 DEF ProceedCertificate
    <3>2. QED
      BY <1>2, <2>3, <2>4, <3>1 DEF ProceedCertificate, TypeOK
  <2>7. QED
    BY <2>5, <2>6
<1>3. ASSUME NEW t \in Tabs, TabNext(t) PROVE TypeOK'
  <2> DEFINE Evals == Seq([tab : Tabs, token : Tokens \cup {NoToken}, reply : BOOLEAN])
  <2>1. \A token \in Tokens \cup {NoToken} : Tell(t, token) \in Evals
    BY TellType DEF TypeOK
  <2>2. \A token \in Tokens \cup {NoToken} : Report(t, token) => evals' \in Evals
    <3>1. evals \in Evals
      BY DEF TypeOK
    <3> HIDE DEF Evals
    <3>2. QED
      BY <2>1, <3>1 DEF Report
  <2>3. pending[t].token \in Tokens \cup {NoToken}
    BY NoPromptFacts DEF TypeOK, Prompt
  <2> HIDE DEF Evals
  <2>4. CASE Navigate(t)
    BY <2>4, <2>2, ClearType DEF Navigate, TypeOK, gvars, Evals
  <2>5. CASE Starting(t)
    <3>1. PICK raw \in Raws :
            /\ load' = [load EXCEPT ![t] = raw]
            /\ current' = [current EXCEPT ![t] = Normalised(raw)]
            /\ pending' = [pending EXCEPT ![t] = NoPrompt]
            /\ grant' = [grant EXCEPT ![t] = KeptGrant(t, Normalised(raw))]
      BY <2>5 DEF Starting
    <3>2. /\ load' \in [Tabs -> Raws \cup {NoURL}]
          /\ current' \in [Tabs -> URLs \cup {NoURL}]
          /\ pending' \in [Tabs -> Prompt \cup {NoPrompt}]
          /\ grant' \in [Tabs -> Prompt \cup {NoPrompt}]
      BY <3>1 DEF TypeOK, Normalised, KeptGrant
    <3>3. evals' \in Evals /\ loads' \in 0..MaxLoads
      BY <2>5, <2>2 DEF Starting, TypeOK
    <3>4. QED
      BY <2>5, <3>2, <3>3 DEF Starting, TypeOK, gvars, Evals
  <2>6. CASE Finished(t)
    BY <2>6, <2>1, ClearType DEF Finished, TypeOK, gvars, Evals
  <2>7. CASE Failed(t)
    BY <2>7, <2>2, <2>3 DEF Failed, TypeOK, gvars, dvars, Evals
  <2>8. ASSUME NEW cert \in Certs \cup {NoCert}, TLSFailedLinux(t, cert) PROVE TypeOK'
    <3>1. load[t] \in Raws
      BY <2>8 DEF TLSFailedLinux, TypeOK
    <3>2. /\ current' = current
          /\ pending' \in [Tabs -> Prompt \cup {NoPrompt}]
          /\ grant' \in [Tabs -> Prompt \cup {NoPrompt}]
          /\ nextToken' \in 1..MaxTokens + 1
          /\ offers' \subseteq Offers
      <4>1. CASE nextToken <= MaxTokens /\ Detected(t, load[t], cert)
        BY <4>1, <3>1, DetectedType
      <4>2. CASE UNCHANGED <<dvars, nextToken, offers>>
        BY <4>2 DEF dvars, TypeOK
      <4>3. QED
        BY <2>8, <4>1, <4>2 DEF TLSFailedLinux
    <3>3. pending'[t].token \in Tokens \cup {NoToken}
      BY <3>2, NoPromptFacts DEF Prompt
    <3>4. evals' \in Evals
      BY <2>8, <3>3, <2>1 DEF TLSFailedLinux
    <3>5. /\ certificate' \in [Tabs -> [cert : Certs \cup {NoCert}, uri : Raws \cup {NoURL}]]
          /\ load' \in [Tabs -> Raws \cup {NoURL}]
      BY <2>8, <3>1 DEF TLSFailedLinux, TypeOK
    <3>6. QED
      BY <2>8, <3>2, <3>4, <3>5 DEF TLSFailedLinux, TypeOK, Evals
  <2>9. ASSUME NEW raw \in Raws, NEW cert \in Certs \cup {NoCert}, TLSErrorWindows(t, raw, cert)
        PROVE  TypeOK'
    <3>1. /\ current' = current
          /\ pending' \in [Tabs -> Prompt \cup {NoPrompt}]
          /\ grant' \in [Tabs -> Prompt \cup {NoPrompt}]
          /\ nextToken' \in 1..MaxTokens + 1
          /\ offers' \subseteq Offers
      BY <2>9, DetectedType DEF TLSErrorWindows
    <3>2. approvals' \subseteq Offers
      <4>1. CASE AlwaysAllowed(t, raw, cert)
        <5>1. grant[t].url # NoURL /\ grant[t].cert = cert
          BY <4>1 DEF AlwaysAllowed, Granted
        <5>2. OfferOf(t, grant[t]) \in Offers
          BY <5>1, GrantOffer
        <5>3. approvals' = approvals \cup {OfferOf(t, grant[t])}
          BY <2>9, <4>1, <5>1 DEF TLSErrorWindows, OfferOf
        <5>4. QED
          BY <5>2, <5>3 DEF TypeOK
      <4>2. CASE ~AlwaysAllowed(t, raw, cert)
        BY <2>9, <4>2 DEF TLSErrorWindows, TypeOK
      <4>3. QED
        BY <4>1, <4>2
    <3>3. QED
      BY <2>9, <3>1, <3>2 DEF TLSErrorWindows, TypeOK
  <2>10. CASE TLSDiagnostic(t)
    BY <2>10 DEF TLSDiagnostic, TypeOK, gvars
  <2>11. CASE Click(t)
    <3>1. prompt[t] \in Tokens
      BY <2>11 DEF Click, TypeOK
    <3>2. calls' \in Seq([tab : Tabs, token : Tokens])
      BY <2>11, <3>1 DEF Click, TypeOK
    <3>3. QED
      BY <2>11, <3>1, <3>2 DEF Click, TypeOK, dvars
  <2>12. CASE SwitchTab(t)
    BY <2>12 DEF SwitchTab, TypeOK, dvars, gvars
  <2>13. CASE CloseTab(t)
    <3>1. /\ open' \subseteq Tabs
          /\ load' \in [Tabs -> Raws \cup {NoURL}]
          /\ certificate' \in [Tabs -> [cert : Certs \cup {NoCert}, uri : Raws \cup {NoURL}]]
          /\ prompt' \in [Tabs -> Tokens \cup {NoToken}]
      BY <2>13 DEF CloseTab, TypeOK
    <3>2. QED
      BY <2>13, <3>1, ClearType DEF CloseTab, TypeOK, gvars
  <2>14. QED
    BY <1>3, <2>4, <2>5, <2>6, <2>7, <2>8, <2>9, <2>10, <2>11, <2>12, <2>13 DEF TabNext
<1>4. CASE UNCHANGED vars
  BY <1>4 DEF vars, dvars, gvars, TypeOK
<1>5. QED
  BY <1>1, <1>2, <1>3, <1>4 DEF Next

\* The variables keep their types for any tabs, addresses and certificates.
THEOREM TypeCorrect == Spec => []TypeOK
<1>1. Init => TypeOK
  BY CertificateAssumption DEF Init, TypeOK
<1>2. TypeOK /\ [Next]_vars => TypeOK'
  BY StepType
<1>3. QED
  BY <1>1, <1>2, PTL DEF Spec
-----------------------------------------------------------------------------
\* The inductive invariant.

\* The three outcomes of detected: the error is of no concern, it is refused or
\* allowed, or it is offered.
LEMMA DetectedCases ==
  ASSUME TypeOK, NEW t \in Tabs, NEW raw \in Raws, NEW cert \in Certs \cup {NoCert},
         nextToken <= MaxTokens, Detected(t, raw, cert)
  PROVE  /\ nextToken' = nextToken + 1
         /\ \/ /\ UNCHANGED <<pending, grant, offers>>
               /\ ~(Normalised(raw) # NoURL /\ Normalised(raw) = current[t])
            \/ /\ pending' = [pending EXCEPT ![t] = NoPrompt]
               /\ grant' = [grant EXCEPT ![t] = NoPrompt]
               /\ UNCHANGED offers
            \/ \E p \in Prompt :
                 /\ pending' = [pending EXCEPT ![t] = p]
                 /\ grant' = [grant EXCEPT ![t] = NoPrompt]
                 /\ offers' = offers \cup {OfferOf(t, p)}
                 /\ p.cert = cert /\ p.token = nextToken /\ cert \notin Revoked
                 /\ ~Granted(t, Normalised(raw), cert)
<1> DEFINE url == Normalised(raw)
           ours == url # NoURL /\ url = current[t]
           offer == ours /\ Eligible(cert) /\ ~Granted(t, url, cert)
           p == [url |-> url, cert |-> cert, token |-> nextToken]
<1>1. /\ nextToken' = nextToken + 1
      /\ pending' = IF ours THEN [pending EXCEPT ![t] = IF offer THEN p ELSE NoPrompt]
                    ELSE pending
      /\ grant' = IF ours THEN [grant EXCEPT ![t] = NoPrompt] ELSE grant
      /\ offers' = IF offer THEN offers \cup {OfferOf(t, p)} ELSE offers
  BY DEF Detected, OfferOf
<1>2. CASE ~ours
  BY <1>1, <1>2
<1>3. CASE ours /\ ~offer
  BY <1>1, <1>3
<1>4. CASE ours /\ offer
  <2>1. p \in Prompt
    <3>1. nextToken \in Tokens
      BY CertificateAssumption DEF TypeOK, Tokens
    <3>2. url \in URLs
      BY <1>4, CertificateAssumption DEF Normalised
    <3>3. QED
      BY <1>4, <3>1, <3>2 DEF Eligible, Prompt
  <2>2. p.cert = cert /\ p.token = nextToken /\ cert \notin Revoked
    BY <1>4 DEF Eligible
  <2>3. /\ pending' = [pending EXCEPT ![t] = p] /\ grant' = [grant EXCEPT ![t] = NoPrompt]
        /\ offers' = offers \cup {OfferOf(t, p)} /\ ~Granted(t, url, cert)
    BY <1>1, <1>4
  <2> HIDE DEF p
  <2>4. QED
    BY <1>1, <2>1, <2>2, <2>3
<1>5. QED
  BY <1>2, <1>3, <1>4

\* A tab that loses its prompt, and perhaps its grant, with what the C side kept.
LEMMA Dropped ==
  ASSUME IInv, NEW t \in Tabs, pending'[t] = NoPrompt, grant'[t] \in {NoPrompt, grant[t]},
         \A s \in Tabs \ {t} : /\ pending'[s] = pending[s] /\ grant'[s] = grant[s]
                               /\ certificate'[s] = certificate[s] /\ load'[s] = load[s],
         UNCHANGED <<platform, offers, clicked, approvals>>
  PROVE  PendingInv' /\ GrantInv'
<1>1. PendingInv'
  BY DEF IInv, PendingInv, OfferOf
<1>2. GrantInv'
  BY DEF IInv, GrantInv, OfferOf
<1>3. QED
  BY <1>1, <1>2

\* Offers, tokens and the shell's side are unchanged.
LEMMA SameOffers ==
  ASSUME IInv, UNCHANGED <<offers, nextToken, approvals>>
  PROVE  OfferInv' /\ (approvals \subseteq offers)'
BY DEF IInv, OfferInv

\* What the shell is told is of an offer, or nothing.
LEMMA Told ==
  ASSUME IInv, NEW t \in Tabs, NEW token \in OfferedTokens \cup {NoToken},
         UNCHANGED <<offers, clicked, prompt, calls>>,
         evals' \in {evals, Tell(t, token)}
  PROVE  ShellInv'
<1>1. OfferedTokens' = OfferedTokens
  BY DEF OfferedTokens
<1>2. Tell(t, token) \in Seq([tab : Tabs, token : OfferedTokens \cup {NoToken}, reply : BOOLEAN])
  BY TellType DEF IInv, ShellInv
<1>3. QED
  BY <1>1, <1>2 DEF IInv, ShellInv

\* The token of a prompt is one of an offer.
LEMMA PendingToken ==
  ASSUME IInv, TypeOK, NEW t \in Tabs
  PROVE  pending[t].token \in OfferedTokens \cup {NoToken}
<1>1. CASE pending[t] = NoPrompt
  BY <1>1, NoPromptFacts
<1>2. CASE pending[t] # NoPrompt
  <2>1. OfferOf(t, pending[t]) \in offers
    BY <1>2 DEF IInv, PendingInv
  <2>2. OfferOf(t, pending[t]).token = pending[t].token
    BY DEF OfferOf
  <2>3. QED
    BY <2>1, <2>2 DEF OfferedTokens
<1>3. QED
  BY <1>1, <1>2

\* A navigation drops consent.
LEMMA NavigateInv ==
  ASSUME TypeOK, IInv, NEW t \in Tabs, Navigate(t) PROVE IInv'
<1>1. PendingInv' /\ GrantInv'
  BY Dropped DEF Navigate, Clear, TypeOK, gvars
<1>2. ShellInv'
  BY Told DEF Navigate, Report, gvars
<1>3. QED
  BY <1>1, <1>2, SameOffers DEF IInv, Navigate, gvars

\* A load starts, and a grant survives only for its own address.
LEMMA StartingInv ==
  ASSUME TypeOK, IInv, NEW t \in Tabs, Starting(t) PROVE IInv'
<1>1. PendingInv' /\ GrantInv'
  <2>1. grant'[t] \in {NoPrompt, grant[t]}
    BY DEF Starting, KeptGrant, TypeOK
  <2>2. QED
    BY <2>1, Dropped DEF Starting, TypeOK, gvars
<1>2. ShellInv'
  BY Told DEF Starting, Report, gvars
<1>3. QED
  BY <1>1, <1>2, SameOffers DEF IInv, Starting, gvars

\* A load that succeeds ends consent.
LEMMA FinishedInv ==
  ASSUME TypeOK, IInv, NEW t \in Tabs, Finished(t) PROVE IInv'
<1>1. PendingInv' /\ GrantInv'
  BY Dropped DEF Finished, Clear, TypeOK, gvars
<1>2. ShellInv'
  BY Told DEF Finished, gvars
<1>3. QED
  BY <1>1, <1>2, SameOffers DEF IInv, Finished, gvars

\* A load that fails otherwise keeps what was decided.
LEMMA FailedInv ==
  ASSUME TypeOK, IInv, NEW t \in Tabs, Failed(t) PROVE IInv'
<1>1. PendingInv'
  BY DEF Failed, IInv, PendingInv, TypeOK, dvars, gvars, OfferOf
<1>2. GrantInv'
  BY DEF Failed, IInv, GrantInv, dvars, gvars, OfferOf
<1>3. ShellInv'
  BY Told, PendingToken DEF Failed, Report, gvars
<1>4. QED
  BY <1>1, <1>2, <1>3, SameOffers DEF IInv, Failed, gvars

\* A certificate error that could not be read, cancelled or allowed.
LEMMA TLSDiagnosticInv ==
  ASSUME TypeOK, IInv, NEW t \in Tabs, TLSDiagnostic(t) PROVE IInv'
<1>1. PendingInv' /\ GrantInv'
  BY Dropped DEF TLSDiagnostic, TypeOK, gvars
<1>2. ShellInv'
  BY Told DEF TLSDiagnostic, gvars
<1>3. QED
  BY <1>1, <1>2, SameOffers DEF IInv, TLSDiagnostic, gvars

\* Another tab becomes active.
LEMMA SwitchTabInv ==
  ASSUME TypeOK, IInv, NEW t \in Tabs, SwitchTab(t) PROVE IInv'
BY DEF SwitchTab, IInv, OfferInv, ShellInv, PendingInv, GrantInv, OfferedTokens, OfferOf,
       dvars, gvars

\* A view is destroyed with its decision.
LEMMA CloseTabInv ==
  ASSUME TypeOK, IInv, NEW t \in Tabs, CloseTab(t) PROVE IInv'
<1>1. PendingInv' /\ GrantInv'
  BY Dropped DEF CloseTab, Clear, TypeOK, gvars
<1>2. ShellInv'
  BY DEF CloseTab, gvars, IInv, ShellInv, OfferedTokens
<1>3. QED
  BY <1>1, <1>2, SameOffers DEF IInv, CloseTab, gvars
\* The user clicks the button of a tab.
LEMMA ClickInv ==
  ASSUME TypeOK, IInv, NEW t \in Tabs, Click(t) PROVE IInv'
<1> DEFINE call == [tab |-> t, token |-> prompt[t]]
<1>1. clicked \subseteq clicked' /\ prompt[t] \in clicked'
  BY DEF Click
<1>2. calls' \in Seq([tab : Tabs, token : clicked'])
  <2>1. calls \in Seq([tab : Tabs, token : clicked'])
    <3>1. [tab : Tabs, token : clicked] \subseteq [tab : Tabs, token : clicked']
      BY <1>1
    <3>2. calls \in Seq([tab : Tabs, token : clicked])
      BY DEF IInv, ShellInv
    <3>3. QED
      BY <3>1, <3>2, SeqMono
  <2>2. call \in [tab : Tabs, token : clicked']
    BY <1>1
  <2>3. calls' = Append(calls, call)
    BY DEF Click
  <2>4. QED
    BY <2>1, <2>2, <2>3, QueueTypes
<1>3. ShellInv'
  BY <1>2 DEF Click, IInv, ShellInv, OfferedTokens
<1>4. PendingInv'
  BY DEF Click, IInv, PendingInv, dvars, OfferOf
<1>5. GrantInv'
  BY <1>1 DEF Click, IInv, GrantInv, dvars, OfferOf
<1>6. QED
  BY <1>3, <1>4, <1>5, SameOffers DEF IInv, Click

\* The shell runs the oldest Eval.
LEMMA RunEvalInv ==
  ASSUME TypeOK, IInv, RunEval PROVE IInv'
<1> DEFINE S == [tab : Tabs, token : OfferedTokens \cup {NoToken}, reply : BOOLEAN]
<1>1. Head(evals) \in S /\ Tail(evals) \in Seq(S)
  BY QueueTypes DEF RunEval, IInv, ShellInv
<1>2. prompt' \in [Tabs -> OfferedTokens \cup {NoToken}]
  BY <1>1 DEF RunEval, IInv, ShellInv
<1>3. OfferedTokens' = OfferedTokens /\ evals' = Tail(evals) /\ UNCHANGED <<calls, clicked>>
  BY DEF RunEval, OfferedTokens, gvars
<1>4. ShellInv'
  BY <1>1, <1>2, <1>3 DEF IInv, ShellInv
<1>5. PendingInv' /\ GrantInv'
  BY DEF RunEval, IInv, PendingInv, GrantInv, dvars, gvars, OfferOf
<1>6. QED
  BY <1>4, <1>5, SameOffers DEF IInv, RunEval, gvars

\* An offer under a fresh token keeps offers apart, and everything that was of an
\* offer still is.
LEMMA OfferAdded ==
  ASSUME TypeOK, IInv, NEW t \in Tabs, NEW p \in Prompt, p.token = nextToken,
         p.cert \notin Revoked, offers' = offers \cup {OfferOf(t, p)},
         nextToken' = nextToken + 1, approvals' \subseteq offers
  PROVE  /\ OfferInv' /\ (approvals \subseteq offers)'
         /\ OfferedTokens \subseteq OfferedTokens' /\ p.token \in OfferedTokens'
         /\ \A a \in approvals' : a.token # p.token
<1> DEFINE o == OfferOf(t, p)
<1>1. o.token = nextToken /\ o.cert \notin Revoked /\ o \in offers'
  BY DEF OfferOf
<1>2. nextToken \in Nat /\ \A q \in offers : q.token \in Nat
  BY CertificateAssumption DEF TypeOK, Offers, Tokens
<1>3. \A q \in offers : q.token < nextToken /\ q.token # nextToken
  BY <1>2 DEF IInv, OfferInv
<1> HIDE DEF o
<1>4. \A q \in offers' : q.token < nextToken' /\ q.cert \notin Revoked
  BY <1>1, <1>2, <1>3 DEF IInv, OfferInv, o
<1>5. \A q, r \in offers' : r.token = q.token => r = q
  BY <1>1, <1>3 DEF IInv, OfferInv, o
<1>6. OfferInv'
  BY <1>4, <1>5 DEF OfferInv
<1>7. p.token \in OfferedTokens' /\ OfferedTokens \subseteq OfferedTokens'
  BY <1>1 DEF OfferedTokens
<1>8. \A a \in approvals' : a.token # p.token
  BY <1>3
<1>9. QED
  BY <1>6, <1>7, <1>8

\* The shell hears of a larger set of offers.
LEMMA ToldMore ==
  ASSUME IInv, NEW t \in Tabs, NEW token \in OfferedTokens' \cup {NoToken},
         OfferedTokens \subseteq OfferedTokens',
         UNCHANGED <<clicked, prompt, calls>>,
         evals' \in {evals, Tell(t, token)}
  PROVE  ShellInv'
<1> DEFINE S == [tab : Tabs, token : OfferedTokens \cup {NoToken}, reply : BOOLEAN]
           T == [tab : Tabs, token : OfferedTokens' \cup {NoToken}, reply : BOOLEAN]
<1>1. S \subseteq T
  OBVIOUS
<1>2. evals \in Seq(T)
  BY <1>1, SeqMono DEF IInv, ShellInv
<1>3. Tell(t, token) \in Seq(T)
  <2>1. [tab |-> t, token |-> token, reply |-> FALSE] \in T
    OBVIOUS
  <2> HIDE DEF T
  <2>2. QED
    BY <1>2, <2>1, QueueTypes DEF Tell
<1>4. prompt' \in [Tabs -> OfferedTokens' \cup {NoToken}]
  BY DEF IInv, ShellInv
<1>5. QED
  BY <1>2, <1>3, <1>4 DEF IInv, ShellInv

\* WebKit reports a certificate error.
LEMMA TLSFailedLinuxInv ==
  ASSUME TypeOK, IInv, NEW t \in Tabs, NEW cert \in Certs \cup {NoCert}, TLSFailedLinux(t, cert)
  PROVE  IInv'
<1>1. /\ platform = "linux" /\ load[t] # NoURL /\ load[t] \in Raws
      /\ certificate' = [certificate EXCEPT ![t] = [cert |-> cert, uri |-> load[t]]]
      /\ load' = [load EXCEPT ![t] = NoURL] /\ evals' = Tell(t, pending'[t].token)
      /\ UNCHANGED <<platform, prompt, calls, clicked, approvals>>
  BY DEF TLSFailedLinux, TypeOK
<1>2. pending[t] = NoPrompt
  BY <1>1 DEF IInv, PendingInv
<1>3. \A s \in Tabs \ {t} : certificate'[s] = certificate[s] /\ load'[s] = load[s]
  BY <1>1 DEF TypeOK
<1>4. certificate'[t].cert = cert /\ load'[t] = NoURL
  BY <1>1 DEF TypeOK
<1>5. ASSUME UNCHANGED <<offers>>, nextToken' \in {nextToken, nextToken + 1},
             pending' \in {pending, [pending EXCEPT ![t] = NoPrompt]},
             grant' \in {grant, [grant EXCEPT ![t] = NoPrompt]}
      PROVE  IInv'
  <2>1. pending'[t] = NoPrompt /\ grant'[t] \in {NoPrompt, grant[t]}
    BY <1>2, <1>5 DEF TypeOK
  <2>2. \A s \in Tabs \ {t} : pending'[s] = pending[s] /\ grant'[s] = grant[s]
    BY <1>5 DEF TypeOK
  <2>3. PendingInv' /\ GrantInv'
    BY <1>1, <1>3, <1>5, <2>1, <2>2, Dropped
  <2>4. ShellInv'
    BY <1>1, <1>5, <2>1, Told, NoPromptFacts
  <2>5. OfferInv' /\ (approvals \subseteq offers)'
    BY <1>1, <1>5, CertificateAssumption DEF IInv, OfferInv, TypeOK, Offers, Tokens
  <2>6. QED
    BY <2>3, <2>4, <2>5 DEF IInv
<1>6. ASSUME NEW p \in Prompt, pending' = [pending EXCEPT ![t] = p],
             grant' = [grant EXCEPT ![t] = NoPrompt], offers' = offers \cup {OfferOf(t, p)},
             p.cert = cert, p.token = nextToken, cert \notin Revoked, nextToken' = nextToken + 1
      PROVE  IInv'
  <2>1. /\ OfferInv' /\ (approvals \subseteq offers)'
        /\ OfferedTokens \subseteq OfferedTokens' /\ p.token \in OfferedTokens'
        /\ \A a \in approvals' : a.token # p.token
    BY <1>1, <1>6, OfferAdded DEF IInv
  <2>2. pending'[t] = p /\ grant'[t] = NoPrompt
    BY <1>6 DEF TypeOK
  <2>3. \A s \in Tabs \ {t} : pending'[s] = pending[s] /\ grant'[s] = grant[s]
    BY <1>6 DEF TypeOK
  <2>4. ShellInv'
    BY <1>1, <2>1, <2>2, ToldMore
  <2>5. PendingInv'
    BY <1>1, <1>3, <1>4, <1>6, <2>1, <2>2, <2>3 DEF IInv, PendingInv, OfferOf
  <2>6. GrantInv'
    BY <1>1, <1>6, <2>2, <2>3 DEF IInv, GrantInv, OfferOf
  <2>7. QED
    BY <2>1, <2>4, <2>5, <2>6 DEF IInv
<1>7. CASE UNCHANGED <<dvars, nextToken, offers>>
  BY <1>5, <1>7 DEF dvars
<1>8. CASE nextToken <= MaxTokens /\ Detected(t, load[t], cert)
  BY <1>1, <1>5, <1>6, <1>8, DetectedCases
<1>9. QED
  BY <1>7, <1>8 DEF TLSFailedLinux
\* Offers of different tabs have different tokens.
LEMMA TabTokens ==
  ASSUME IInv, NEW s \in Tabs, NEW t \in Tabs, s # t, NEW p, NEW q,
         OfferOf(s, p) \in offers, OfferOf(t, q) \in offers
  PROVE  p.token # q.token
<1>1. OfferOf(s, p).tab = s /\ OfferOf(t, q).tab = t
  BY DEF OfferOf
<1>2. OfferOf(s, p).token = p.token /\ OfferOf(t, q).token = q.token
  BY DEF OfferOf
<1>3. QED
  BY <1>1, <1>2 DEF IInv, OfferInv

\* What a step of TLSErrorWindows approves: nothing, or the offer that was granted.
LEMMA WindowsApproval ==
  ASSUME TypeOK, IInv, NEW t \in Tabs, NEW raw \in Raws, NEW cert \in Certs \cup {NoCert},
         TLSErrorWindows(t, raw, cert), approvals' # approvals
  PROVE  /\ grant[t] # NoPrompt /\ approvals' = approvals \cup {OfferOf(t, grant[t])}
         /\ Normalised(raw) # NoURL /\ Normalised(raw) = current[t]
         /\ Granted(t, Normalised(raw), cert)
<1>1. /\ Normalised(raw) # NoURL /\ Normalised(raw) = current[t]
      /\ Granted(t, Normalised(raw), cert)
      /\ approvals' = approvals \cup {[tab |-> t, url |-> grant[t].url, cert |-> cert,
                                       token |-> grant[t].token]}
  BY DEF TLSErrorWindows, AlwaysAllowed
<1>2. grant[t].cert = cert /\ grant[t].url # NoURL
  BY <1>1 DEF Granted
<1>3. grant[t] # NoPrompt
  BY <1>2 DEF NoPrompt
<1>4. QED
  BY <1>1, <1>2, <1>3 DEF OfferOf

\* WebView2 reports a certificate error.
LEMMA TLSErrorWindowsInv ==
  ASSUME TypeOK, IInv, NEW t \in Tabs, NEW raw \in Raws, NEW cert \in Certs \cup {NoCert},
         TLSErrorWindows(t, raw, cert)
  PROVE  IInv'
<1>1. /\ platform = "windows" /\ nextToken <= MaxTokens /\ Detected(t, raw, cert)
      /\ UNCHANGED <<platform, load, certificate, prompt, evals, calls, clicked>>
  BY DEF TLSErrorWindows
<1>2. nextToken' = nextToken + 1
  BY <1>1, DetectedCases
<1>3. ASSUME UNCHANGED offers PROVE OfferInv'
  BY <1>2, <1>3, CertificateAssumption DEF IInv, OfferInv, TypeOK, Offers, Tokens
<1>4. ASSUME UNCHANGED offers PROVE ShellInv'
  BY <1>1, <1>4, Told
<1>5. CASE /\ UNCHANGED <<pending, grant, offers>>
           /\ ~(Normalised(raw) # NoURL /\ Normalised(raw) = current[t])
  <2>1. UNCHANGED approvals
    BY <1>5, WindowsApproval
  <2>2. PendingInv' /\ GrantInv'
    BY <1>1, <1>5, <2>1 DEF IInv, PendingInv, GrantInv, OfferOf
  <2>3. QED
    BY <1>3, <1>4, <1>5, <2>1, <2>2 DEF IInv
<1>6. CASE /\ pending' = [pending EXCEPT ![t] = NoPrompt]
           /\ grant' = [grant EXCEPT ![t] = NoPrompt]
           /\ UNCHANGED offers
  <2>1. pending'[t] = NoPrompt /\ grant'[t] = NoPrompt
    BY <1>6 DEF TypeOK
  <2>2. \A s \in Tabs \ {t} : pending'[s] = pending[s] /\ grant'[s] = grant[s]
    BY <1>6 DEF TypeOK
  <2>3. CASE UNCHANGED approvals
    <3>1. PendingInv' /\ GrantInv'
      BY <1>1, <1>6, <2>1, <2>2, <2>3, Dropped
    <3>2. QED
      BY <1>3, <1>4, <1>6, <2>3, <3>1 DEF IInv
  <2>4. CASE approvals' # approvals
    <3>1. grant[t] # NoPrompt /\ approvals' = approvals \cup {OfferOf(t, grant[t])}
      BY <2>4, WindowsApproval
    <3>2. OfferOf(t, grant[t]) \in offers /\ OfferOf(t, grant[t]).token = grant[t].token
      BY <3>1 DEF IInv, GrantInv, OfferOf
    <3>3. \A s \in Tabs \ {t} : pending[s] # NoPrompt => pending[s].token # grant[t].token
      BY <3>2, TabTokens DEF IInv, PendingInv
    <3>4. \A s \in Tabs \ {t} : grant[s] # NoPrompt => grant[s].token # grant[t].token
      BY <3>2, TabTokens DEF IInv, GrantInv
    <3>5. PendingInv'
      <4>1. \A s \in Tabs : pending'[s] # NoPrompt =>
              \A a \in approvals' : a.token # pending'[s].token
        BY <2>1, <2>2, <3>1, <3>2, <3>3 DEF IInv, PendingInv
      <4>2. QED
        BY <1>1, <1>6, <2>1, <2>2, <4>1 DEF IInv, PendingInv, OfferOf
    <3>6. GrantInv'
      <4>1. \A s \in Tabs : grant'[s] # NoPrompt =>
              \A a \in approvals' : a.token # grant'[s].token
        BY <1>1, <2>1, <2>2, <3>1, <3>2, <3>4 DEF IInv, GrantInv
      <4>2. QED
        BY <1>1, <1>6, <2>1, <2>2, <4>1 DEF IInv, GrantInv, OfferOf
    <3>7. approvals' \subseteq offers'
      BY <1>6, <3>1, <3>2 DEF IInv
    <3>8. QED
      BY <1>3, <1>4, <1>6, <3>5, <3>6, <3>7 DEF IInv
  <2>5. QED
    BY <2>3, <2>4
<1>7. ASSUME NEW p \in Prompt, pending' = [pending EXCEPT ![t] = p],
             grant' = [grant EXCEPT ![t] = NoPrompt], offers' = offers \cup {OfferOf(t, p)},
             p.cert = cert, p.token = nextToken, cert \notin Revoked,
             ~Granted(t, Normalised(raw), cert)
      PROVE  IInv'
  <2>1. UNCHANGED approvals
    BY <1>7, WindowsApproval
  <2>2. /\ OfferInv' /\ (approvals \subseteq offers)'
        /\ OfferedTokens \subseteq OfferedTokens'
        /\ \A a \in approvals' : a.token # p.token
    BY <1>2, <1>7, <2>1, OfferAdded DEF IInv
  <2>3. pending'[t] = p /\ grant'[t] = NoPrompt
    BY <1>7 DEF TypeOK
  <2>4. \A s \in Tabs \ {t} : pending'[s] = pending[s] /\ grant'[s] = grant[s]
    BY <1>7 DEF TypeOK
  <2>5. ShellInv'
    BY <1>1, <2>2, ToldMore
  <2>6. PendingInv'
    BY <1>1, <1>7, <2>1, <2>2, <2>3, <2>4 DEF IInv, PendingInv, OfferOf
  <2>7. GrantInv'
    BY <1>1, <1>7, <2>1, <2>3, <2>4 DEF IInv, GrantInv, OfferOf
  <2>8. QED
    BY <2>2, <2>5, <2>6, <2>7 DEF IInv
<1>8. QED
  BY <1>1, <1>5, <1>6, <1>7, DetectedCases
\* A handled click: refused, or the pending offer that was clicked becomes the grant and
\* on Linux, when the C side kept its certificate, is approved.
LEMMA Proceeded ==
  ASSUME TypeOK, IInv, ProceedCertificate
  PROVE  \E t \in Tabs, token \in clicked :
           \/ /\ UNCHANGED <<pending, grant, approvals>>
              /\ evals' = Append(evals, [tab |-> t, token |-> token, reply |-> TRUE])
           \/ /\ pending[t] # NoPrompt /\ pending[t].token = token
              /\ grant' = [grant EXCEPT ![t] = pending[t]]
              /\ pending' = [pending EXCEPT ![t] = NoPrompt]
              /\ approvals' \in {approvals, approvals \cup {OfferOf(t, pending[t])}}
              /\ platform = "windows" => UNCHANGED approvals
              /\ \/ evals' = Append(evals, [tab |-> t, token |-> token, reply |-> TRUE])
                 \/ evals' = Append(Tell(t, NoToken), [tab |-> t, token |-> token, reply |-> TRUE])
<1>1. Head(calls) \in [tab : Tabs, token : clicked] /\ Head(calls) \in [tab : Tabs, token : Tokens]
  BY QueueTypes DEF ProceedCertificate, TypeOK, IInv, ShellInv
<1>2. PICK t \in Tabs, token \in clicked :
        t = Head(calls).tab /\ token = Head(calls).token /\ token \in Tokens
  BY <1>1
<1>3. CASE active = t /\ t \in open /\ Valid(t, token)
  <2>1. /\ grant' = [grant EXCEPT ![t] = pending[t]]
        /\ pending' = [pending EXCEPT ![t] = NoPrompt]
        /\ approvals' = ApprovedNow(t, token)
        /\ evals' = IF platform = "windows"
                    THEN Append(Tell(t, pending'[t].token), [tab |-> t, token |-> token, reply |-> TRUE])
                    ELSE Append(evals, [tab |-> t, token |-> token, reply |-> TRUE])
    BY <1>2, <1>3 DEF ProceedCertificate, Spent
  <2>2. pending[t] # NoPrompt /\ pending[t].token = token
    BY <1>2, <1>3, ValidPrompt DEF Valid
  <2>3. pending'[t].token = NoToken
    BY <2>1, NoPromptFacts DEF TypeOK
  <2>4. platform = "windows" => approvals' = approvals
    BY <2>1 DEF ApprovedNow
  <2>5. approvals' \in {approvals, approvals \cup {OfferOf(t, pending[t])}}
    <3>1. platform = "linux" => certificate[t].cert = pending[t].cert
      BY <2>2 DEF IInv, PendingInv
    <3>2. QED
      BY <2>1, <2>2, <3>1 DEF ApprovedNow, OfferOf
  <2>6. \/ evals' = Append(evals, [tab |-> t, token |-> token, reply |-> TRUE])
        \/ evals' = Append(Tell(t, NoToken), [tab |-> t, token |-> token, reply |-> TRUE])
    BY <2>1, <2>3
  <2>7. QED
    BY <1>2, <2>1, <2>2, <2>4, <2>5, <2>6
<1>4. CASE ~(active = t /\ t \in open /\ Valid(t, token))
  <2>1. /\ UNCHANGED <<pending, grant, approvals>>
        /\ evals' = Append(evals, [tab |-> t, token |-> token, reply |-> TRUE])
    BY <1>2, <1>4 DEF ProceedCertificate
  <2>2. QED
    BY <1>2, <2>1
<1>5. QED
  BY <1>3, <1>4

\* An approval reaches the handler.
LEMMA ProceedInv ==
  ASSUME TypeOK, IInv, ProceedCertificate PROVE IInv'
<1>1. PICK t \in Tabs, token \in clicked :
        \/ /\ UNCHANGED <<pending, grant, approvals>>
           /\ evals' = Append(evals, [tab |-> t, token |-> token, reply |-> TRUE])
        \/ /\ pending[t] # NoPrompt /\ pending[t].token = token
           /\ grant' = [grant EXCEPT ![t] = pending[t]]
           /\ pending' = [pending EXCEPT ![t] = NoPrompt]
           /\ approvals' \in {approvals, approvals \cup {OfferOf(t, pending[t])}}
           /\ platform = "windows" => UNCHANGED approvals
           /\ \/ evals' = Append(evals, [tab |-> t, token |-> token, reply |-> TRUE])
              \/ evals' = Append(Tell(t, NoToken), [tab |-> t, token |-> token, reply |-> TRUE])
  BY Proceeded
<1>2. /\ UNCHANGED <<platform, load, certificate, prompt, nextToken, offers, clicked>>
      /\ calls # <<>> /\ calls' = Tail(calls)
  BY DEF ProceedCertificate
<1> DEFINE S == [tab : Tabs, token : OfferedTokens \cup {NoToken}, reply : BOOLEAN]
           reply == [tab |-> t, token |-> token, reply |-> TRUE]
<1>3. ShellInv'
  <2>1. reply \in S
    BY DEF IInv, ShellInv
  <2>2. evals \in Seq(S) /\ Tell(t, NoToken) \in Seq(S)
    BY TellType DEF IInv, ShellInv
  <2>3. evals' \in Seq(S)
    <3>1. evals' = Append(evals, reply) \/ evals' = Append(Tell(t, NoToken), reply)
      BY <1>1
    <3> HIDE DEF S, reply
    <3>2. Append(evals, reply) \in Seq(S) /\ Append(Tell(t, NoToken), reply) \in Seq(S)
      BY <2>1, <2>2, QueueTypes
    <3>3. QED
      BY <3>1, <3>2
  <2>4. calls' \in Seq([tab : Tabs, token : clicked])
    BY <1>2, QueueTypes DEF IInv, ShellInv
  <2>5. OfferedTokens' = OfferedTokens
    BY <1>2 DEF OfferedTokens
  <2>6. QED
    BY <1>2, <2>3, <2>4, <2>5 DEF IInv, ShellInv
<1>4. OfferInv'
  BY <1>2 DEF IInv, OfferInv
<1>5. CASE UNCHANGED <<pending, grant, approvals>>
  <2>1. PendingInv' /\ GrantInv'
    BY <1>2, <1>5 DEF IInv, PendingInv, GrantInv, OfferOf
  <2>2. QED
    BY <1>2, <1>3, <1>4, <1>5, <2>1 DEF IInv
<1>6. CASE /\ pending[t] # NoPrompt /\ pending[t].token = token
           /\ grant' = [grant EXCEPT ![t] = pending[t]]
           /\ pending' = [pending EXCEPT ![t] = NoPrompt]
           /\ approvals' \in {approvals, approvals \cup {OfferOf(t, pending[t])}}
           /\ platform = "windows" => UNCHANGED approvals
  <2>1. /\ OfferOf(t, pending[t]) \in offers /\ OfferOf(t, pending[t]).token = pending[t].token
        /\ \A a \in approvals : a.token # pending[t].token
    BY <1>6 DEF IInv, PendingInv, OfferOf
  <2>2. \A s \in Tabs \ {t} : pending[s] # NoPrompt => pending[s].token # pending[t].token
    BY <2>1, TabTokens DEF IInv, PendingInv
  <2>3. pending'[t] = NoPrompt /\ grant'[t] = pending[t]
    BY <1>6 DEF TypeOK
  <2>4. \A s \in Tabs \ {t} : pending'[s] = pending[s] /\ grant'[s] = grant[s]
    BY <1>6 DEF TypeOK
  <2>5. PendingInv'
    <3>1. \A s \in Tabs : pending'[s] # NoPrompt =>
            \A a \in approvals' : a.token # pending'[s].token
      BY <1>6, <2>1, <2>2, <2>3, <2>4 DEF IInv, PendingInv
    <3>2. QED
      BY <1>2, <2>3, <2>4, <3>1 DEF IInv, PendingInv, OfferOf
  <2>6. GrantInv'
    BY <1>2, <1>6, <2>1, <2>3, <2>4 DEF IInv, GrantInv, OfferOf
  <2>7. approvals' \subseteq offers'
    BY <1>2, <1>6, <2>1 DEF IInv
  <2>8. QED
    BY <1>3, <1>4, <2>5, <2>6, <2>7 DEF IInv
<1>7. QED
  BY <1>1, <1>5, <1>6

\* Every step keeps the invariant.
LEMMA StepInv ==
  ASSUME TypeOK, IInv, [Next]_vars PROVE IInv'
<1>1. ASSUME NEW t \in Tabs, TabNext(t) PROVE IInv'
  BY <1>1, NavigateInv, StartingInv, FinishedInv, FailedInv, TLSFailedLinuxInv, TLSErrorWindowsInv,
     TLSDiagnosticInv, ClickInv, SwitchTabInv, CloseTabInv DEF TabNext
<1>2. CASE UNCHANGED vars
  BY <1>2 DEF vars, dvars, gvars, IInv, OfferInv, ShellInv, PendingInv, GrantInv, OfferedTokens, OfferOf
<1>3. QED
  BY <1>1, <1>2, RunEvalInv, ProceedInv DEF Next

\* The invariant holds at the start.
LEMMA InitInv == Init => IInv
<1> SUFFICES ASSUME Init PROVE IInv
  OBVIOUS
<1>1. ShellInv
  BY DEF Init, ShellInv, OfferedTokens
<1>2. PendingInv /\ GrantInv /\ OfferInv
  BY DEF Init, PendingInv, GrantInv, OfferInv
<1>3. QED
  BY <1>1, <1>2 DEF Init, IInv

\* The invariant of offers, prompts and grants that the other results rest on.
THEOREM Invariance == Spec => [](TypeOK /\ IInv)
<1>1. Init => TypeOK /\ IInv
  BY InitInv, CertificateAssumption DEF Init, TypeOK
<1>2. TypeOK /\ IInv /\ [Next]_vars => (TypeOK /\ IInv)'
  BY StepType, StepInv
<1>3. QED
  BY <1>1, <1>2, PTL DEF Spec

\* No revoked certificate ever gets an exception (certificateDecision.detected).
THEOREM RevokedNeverApproved == Spec => []RevokedStayBlocked
<1>1. IInv => RevokedStayBlocked
  BY DEF IInv, OfferInv, RevokedStayBlocked
<1>2. QED
  BY <1>1, Invariance, PTL
-----------------------------------------------------------------------------
\* The refinement: every step offers, clicks, approves or is not seen.

\* An offer under the next token is an offer of Consent.
LEMMA OfferStep ==
  ASSUME TypeOK, IInv, NEW t \in Tabs, NEW p \in Prompt, p.token = nextToken,
         offers' = offers \cup {OfferOf(t, p)}, UNCHANGED <<clicked, approvals>>
  PROVE  Promise!Offer
<1>1. OfferOf(t, p) \in Offers /\ OfferOf(t, p).token = nextToken
  BY DEF OfferOf, Offers, Prompt
<1>2. \A q \in offers : q.token # nextToken
  BY CertificateAssumption DEF IInv, OfferInv, TypeOK, Offers, Tokens
<1>3. QED
  BY <1>1, <1>2 DEF Promise!Offer

\* The approval of a clicked offer is one of Consent.
LEMMA ApproveStep ==
  ASSUME NEW o \in offers, o.token \in clicked, \A a \in approvals : a.token # o.token,
         approvals' = approvals \cup {o}, UNCHANGED <<offers, clicked>>
  PROVE  Promise!Approve
BY DEF Promise!Approve

\* A certificate error makes an offer, or nothing that Consent sees.
LEMMA DetectedStep ==
  ASSUME TypeOK, IInv, NEW t \in Tabs, NEW raw \in Raws, NEW cert \in Certs \cup {NoCert},
         nextToken <= MaxTokens, Detected(t, raw, cert), UNCHANGED <<clicked, approvals>>
  PROVE  UNCHANGED gvars \/ Promise!Offer
BY DetectedCases, OfferStep DEF gvars

\* Every step keeps the promise.
LEMMA StepConsent ==
  ASSUME TypeOK, IInv, [Next]_vars
  PROVE  UNCHANGED gvars \/ Promise!Next
<1>1. ASSUME NEW t \in Tabs, NEW cert \in Certs \cup {NoCert}, TLSFailedLinux(t, cert)
      PROVE  UNCHANGED gvars \/ Promise!Next
  <2>1. load[t] \in Raws /\ UNCHANGED <<clicked, approvals>>
    BY <1>1 DEF TLSFailedLinux, TypeOK
  <2>2. CASE nextToken <= MaxTokens /\ Detected(t, load[t], cert)
    BY <2>1, <2>2, DetectedStep DEF Promise!Next
  <2>3. CASE UNCHANGED offers
    BY <2>1, <2>3 DEF gvars
  <2>4. QED
    BY <1>1, <2>2, <2>3 DEF TLSFailedLinux
<1>2. ASSUME NEW t \in Tabs, NEW raw \in Raws, NEW cert \in Certs \cup {NoCert},
             TLSErrorWindows(t, raw, cert)
      PROVE  UNCHANGED gvars \/ Promise!Next
  <2>1. /\ platform = "windows" /\ nextToken <= MaxTokens /\ Detected(t, raw, cert)
        /\ UNCHANGED clicked
    BY <1>2 DEF TLSErrorWindows
  <2>2. CASE UNCHANGED approvals
    BY <2>1, <2>2, DetectedStep DEF Promise!Next
  <2>3. CASE approvals' # approvals
    <3>1. /\ grant[t] # NoPrompt /\ approvals' = approvals \cup {OfferOf(t, grant[t])}
          /\ Normalised(raw) # NoURL /\ Normalised(raw) = current[t]
          /\ Granted(t, Normalised(raw), cert)
      BY <1>2, <2>3, WindowsApproval
    <3>2. UNCHANGED offers
      BY <2>1, <3>1, DetectedCases
    <3>3. /\ OfferOf(t, grant[t]) \in offers /\ grant[t].token \in clicked
          /\ \A a \in approvals : a.token # grant[t].token
      BY <2>1, <3>1 DEF IInv, GrantInv
    <3>4. OfferOf(t, grant[t]).token = grant[t].token
      BY DEF OfferOf
    <3>5. QED
      BY <2>1, <3>1, <3>2, <3>3, <3>4, ApproveStep DEF Promise!Next
  <2>4. QED
    BY <2>2, <2>3
<1>3. ASSUME NEW t \in Tabs, Click(t) PROVE Promise!Next
  <2>1. prompt[t] \in OfferedTokens
    BY <1>3 DEF Click, IInv, ShellInv
  <2>2. PICK o \in offers : o.token = prompt[t]
    BY <2>1 DEF OfferedTokens
  <2>3. QED
    BY <1>3, <2>2 DEF Click, Promise!Next, Promise!Click
<1>4. CASE ProceedCertificate
  <2>1. UNCHANGED <<offers, clicked>>
    BY <1>4 DEF ProceedCertificate
  <2>2. CASE UNCHANGED approvals
    BY <2>1, <2>2 DEF gvars
  <2>3. CASE approvals' # approvals
    <3>1. PICK t \in Tabs, token \in clicked :
            /\ pending[t] # NoPrompt /\ pending[t].token = token
            /\ approvals' = approvals \cup {OfferOf(t, pending[t])}
      BY <1>4, <2>3, Proceeded
    <3>2. /\ OfferOf(t, pending[t]) \in offers /\ OfferOf(t, pending[t]).token = pending[t].token
          /\ \A a \in approvals : a.token # pending[t].token
      BY <3>1 DEF IInv, PendingInv, OfferOf
    <3>3. QED
      BY <2>1, <3>1, <3>2, ApproveStep DEF Promise!Next
  <2>4. QED
    BY <2>2, <2>3
<1>5. ASSUME NEW t \in Tabs, TabNext(t) PROVE UNCHANGED gvars \/ Promise!Next
  BY <1>1, <1>2, <1>3, <1>5 DEF TabNext, Navigate, Starting, Finished, Failed, TLSDiagnostic,
     SwitchTab, CloseTab
<1>6. QED
  BY <1>4, <1>5 DEF Next, RunEval, vars

\* Certificate exceptions implement Consent on both platforms: what the engine is given
\* is what the user was offered and clicked, for the same tab, address and certificate,
\* once.
THEOREM ConsentKept == Spec => ConsentIsBound
<1>1. Init => Promise!Init
  BY DEF Init, Promise!Init
<1>2. TypeOK /\ IInv /\ [Next]_vars => [Promise!Next]_(Promise!cvars)
  BY StepConsent DEF gvars, Promise!cvars
<1>3. QED
  BY <1>1, <1>2, Invariance, PTL DEF Spec, ConsentIsBound, Promise!Spec
=============================================================================
