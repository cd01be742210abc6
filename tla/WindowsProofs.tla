--------------------------- MODULE WindowsProofs ----------------------------
(***************************************************************************)
(* Proofs about the views of WindowsViews: their windows, the layout of    *)
(* the host and the queue of dispatched functions.                         *)
(***************************************************************************)
EXTENDS WindowsViews, TLAPS, SequenceTheorems

\* The functions and what tells them apart.
LEMMA FunctionFacts ==
  /\ Eval \in Functions /\ HideAll \in Functions
  /\ \A id \in IDs : /\ Open(id) \in Functions /\ Select(id) \in Functions
                     /\ Destroy(id) \in Functions
  /\ \A f \in Functions : f.fn \in {"open", "select", "destroy"} => f.id \in IDs
  /\ \A f \in Functions : f.fn = "destroy" => f = Destroy(f.id)
  /\ \A f \in Functions : f.fn = "open" => f = Open(f.id)
  /\ \A f \in Functions : f.fn = "select" => f = Select(f.id)
BY DEF Functions, Eval, HideAll, Open, Select, Destroy

\* A queue without its first function still covers what it shows.
LEMMA CoveredTail ==
  ASSUME NEW queue \in Seq(Functions), queue # <<>>, NEW open, Covered(queue, open)
  PROVE  Covered(Tail(queue), open)
<1> DEFINE rest == Tail(queue)
<1>1. /\ rest \in Seq(Functions) /\ Len(rest) = Len(queue) - 1 /\ Len(queue) \in Nat \ {0}
      /\ DOMAIN rest = 1..Len(queue) - 1 /\ DOMAIN queue = 1..Len(queue)
      /\ \A i \in 1..Len(queue) - 1 : rest[i] = queue[i + 1]
  OBVIOUS
<1> HIDE DEF rest
<1> SUFFICES ASSUME NEW i \in DOMAIN rest, rest[i].fn \in {"open", "select"},
                    rest[i].id \notin open
             PROVE  \E j \in DOMAIN rest : j > i /\ rest[j] = Destroy(rest[i].id)
  BY DEF Covered, rest
<1>2. i + 1 \in DOMAIN queue /\ queue[i + 1] = rest[i]
  BY <1>1
<1>3. PICK j \in DOMAIN queue : j > i + 1 /\ queue[j] = Destroy(rest[i].id)
  BY <1>2 DEF Covered
<1>4. j - 1 \in DOMAIN rest /\ j - 1 > i /\ rest[j - 1] = queue[j]
  BY <1>1, <1>3
<1> QED
  BY <1>3, <1>4

\* What is appended destroys the tabs that it closes.
LEMMA CoveredAppend ==
  ASSUME NEW queue \in Seq(Functions), NEW work \in Seq(Functions), NEW open, NEW rest,
         Covered(queue, open), Covered(work, rest),
         \A id \in open \ rest : \E j \in DOMAIN work : work[j] = Destroy(id)
  PROVE  Covered(queue \o work, rest)
<1> DEFINE all == queue \o work
<1>1. /\ Len(queue) \in Nat /\ DOMAIN queue = 1..Len(queue)
      /\ Len(work) \in Nat /\ DOMAIN work = 1..Len(work)
      /\ DOMAIN all = 1..Len(queue) + Len(work)
      /\ \A i \in 1..Len(queue) : all[i] = queue[i]
      /\ \A i \in 1..Len(work) : all[Len(queue) + i] = work[i]
  OBVIOUS
<1> HIDE DEF all
<1> SUFFICES ASSUME NEW i \in DOMAIN all, all[i].fn \in {"open", "select"}, all[i].id \notin rest
             PROVE  \E j \in DOMAIN all : j > i /\ all[j] = Destroy(all[i].id)
  BY DEF Covered, all
<1>2. CASE i \in 1..Len(queue)
  <2>1. CASE all[i].id \in open
    <3>1. PICK j \in DOMAIN work : work[j] = Destroy(all[i].id)
      BY <2>1
    <3>2. Len(queue) + j \in DOMAIN all /\ Len(queue) + j > i /\ all[Len(queue) + j] = work[j]
      BY <1>1, <1>2, <3>1
    <3> QED
      BY <3>1, <3>2
  <2>2. CASE all[i].id \notin open
    <3>1. PICK j \in DOMAIN queue : j > i /\ queue[j] = Destroy(all[i].id)
      BY <1>1, <1>2, <2>2 DEF Covered
    <3>2. j \in DOMAIN all /\ all[j] = queue[j]
      BY <1>1, <3>1
    <3> QED
      BY <3>1, <3>2
  <2> QED
    BY <2>1, <2>2
<1>3. CASE i \notin 1..Len(queue)
  <2> DEFINE k == i - Len(queue)
  <2>1. k \in DOMAIN work /\ all[i] = work[k]
    BY <1>1, <1>3
  <2>2. PICK j \in DOMAIN work : j > k /\ work[j] = Destroy(all[i].id)
    BY <2>1 DEF Covered
  <2>3. Len(queue) + j \in DOMAIN all /\ Len(queue) + j > i /\ all[Len(queue) + j] = work[j]
    BY <1>1, <2>2
  <2> QED
    BY <2>2, <2>3
<1> QED
  BY <1>2, <1>3

\* Queues may be put together in any order.
LEMMA ConcatIsAssociative ==
  ASSUME NEW r \in Seq(Functions), NEW s \in Seq(Functions), NEW t \in Seq(Functions)
  PROVE  (r \o s) \o t = r \o (s \o t)
<1> DEFINE a == (r \o s) \o t
           b == r \o (s \o t)
<1>1. /\ a \in Seq(Functions) /\ b \in Seq(Functions)
      /\ Len(a) = Len(r) + Len(s) + Len(t) /\ Len(b) = Len(r) + Len(s) + Len(t)
  OBVIOUS
<1>2. \A i \in 1..Len(a) : a[i] = b[i]
  OBVIOUS
<1> QED
  BY <1>1, <1>2, SeqEqual

\* A call appends work that destroys the tabs it closes and shows only open ones.
LEMMA CallKeepsClean ==
  ASSUME batch \in Seq(Functions), dispatchq \in Seq(Functions), NEW work \in Seq(Functions),
         QueueInv, dispatchq' = dispatchq \o work \o <<Eval>>, UNCHANGED <<batch, views>>,
         Covered(work, tabs'),
         \A id \in tabs \ tabs' : \E j \in DOMAIN work : work[j] = Destroy(id)
  PROVE  QueueInv' /\ dispatchq' \in Seq(Functions)
<1> DEFINE Q == batch \o dispatchq
           W == work \o <<Eval>>
<1>0. Eval \in Functions /\ <<Eval>> \in Seq(Functions) /\ W \in Seq(Functions) /\ Q \in Seq(Functions)
  BY FunctionFacts
<1>1. dispatchq' = dispatchq \o W
  <2>1. \A w \in Seq(Functions) : (dispatchq \o work) \o w = dispatchq \o (work \o w)
    BY ConcatIsAssociative, Zenon
  <2>2. (dispatchq \o work) \o <<Eval>> = dispatchq \o (work \o <<Eval>>)
    BY <1>0, <2>1, Zenon
  <2> QED
    BY <2>2, Zenon
<1>2. Dispatched' = Q \o W
  <2>1. Dispatched' = batch \o dispatchq'
    BY DEF Dispatched
  <2>2. \A w \in Seq(Functions) : (batch \o dispatchq) \o w = batch \o (dispatchq \o w)
    BY ConcatIsAssociative, Zenon
  <2> QED
    BY <1>0, <1>1, <2>1, <2>2, Zenon
<1>3. Covered(<<Eval>>, tabs')
  BY DEF Covered, Eval
<1>4. Covered(W, tabs')
  BY <1>0, <1>3, CoveredAppend
<1>5. /\ DOMAIN work \subseteq DOMAIN W /\ \A j \in DOMAIN work : W[j] = work[j]
  BY <1>0
<1>6. \A id \in tabs \ tabs' : \E j \in DOMAIN W : W[j] = Destroy(id)
  BY <1>5
<1>7. Covered(Q, tabs)
  BY DEF QueueInv, Dispatched
<1> HIDE DEF Q, W
<1>8. Covered(Q \o W, tabs')
  BY <1>0, <1>4, <1>6, <1>7, CoveredAppend
<1>9. /\ \A j \in DOMAIN Q : j \in DOMAIN (Q \o W) /\ (Q \o W)[j] = Q[j]
      /\ \A j \in DOMAIN W : Len(Q) + j \in DOMAIN (Q \o W) /\ (Q \o W)[Len(Q) + j] = W[j]
  BY <1>0
<1>10. ASSUME NEW id \in DOMAIN views, id \notin tabs'
       PROVE  \E j \in DOMAIN (Q \o W) : (Q \o W)[j] = Destroy(id)
  <2>1. CASE id \in tabs
    BY <1>6, <1>9, <1>10, <2>1
  <2>2. CASE id \notin tabs
    <3>1. PICK j \in DOMAIN Q : Q[j] = Destroy(id)
      BY <1>10, <2>2 DEF QueueInv, Dispatched, Q
    <3> QED
      BY <1>9, <3>1
  <2> QED
    BY <2>1, <2>2
<1>11. QueueInv'
  BY <1>2, <1>8, <1>10 DEF QueueInv, Covered
<1> QED
  BY <1>0, <1>1, <1>11

\* A call of the shell: what it appends, and what it may change at once.
LEMMA CallStep ==
  ASSUME TypeOK, IInv, NEW work \in Seq(Functions), Call(work), Covered(work, tabs'),
         \A id \in tabs \ tabs' : \E j \in DOMAIN work : work[j] = Destroy(id),
         tabs' \subseteq 1..nextID' - 1, activeTab' \in tabs' \cup {Nobody},
         nextID' \in 1..MaxTabs + 1, blocked' \in BOOLEAN, unshown' \in BOOLEAN,
         shellFull' = shellFull \/ shellFull' = Resized(browserActive),
         UNCHANGED <<views, browserActive, unmade, windows, visible>>
  PROVE  TypeOK' /\ IInv'
<1> USE DEF embedVars
<1>1. /\ UNCHANGED <<batch, embedding, inited, newWindow, nextWindow, closed, ended, sent, quit>>
      /\ dispatchq' = dispatchq \o work \o <<Eval>> /\ app' = app + Len(work) + 1
      /\ calls > 0 /\ calls' = calls - 1
  BY DEF Call, MessageReceived
<1>2. QueueInv' /\ dispatchq' \in Seq(Functions)
  BY <1>1, CallKeepsClean DEF TypeOK, IInv
<1>3. app' \in Nat /\ calls' \in 0..sent'
  BY <1>1 DEF TypeOK
<1>4. shellFull' \in BOOLEAN
  BY DEF TypeOK, Resized
<1>5. TypeOK'
  BY <1>1, <1>2, <1>3, <1>4 DEF TypeOK
<1>6. EmbedInv' /\ ViewWindowsInv' /\ WindowsAreOwned'
  BY <1>1 DEF IInv, EmbedInv, ViewWindowsInv, WindowsAreOwned, Settled
<1>7. LayoutInv'
  <2>1. CASE closed
    BY <1>1, <2>1 DEF LayoutInv
  <2>2. CASE ~closed
    BY <1>1, <2>2, Zenon DEF IInv, LayoutInv, Resized
  <2> QED
    BY <2>1, <2>2
<1>8. VisibleInv' /\ ActiveViewInv'
  BY <1>1 DEF IInv, ActiveViewInv, VisibleInv, Settled
<1> QED
  BY <1>2, <1>5, <1>6, <1>7, <1>8 DEF IInv

\* What the bindings dispatch destroys the tab that they close, and shows open tabs.
LEMMA WorkFacts ==
  ASSUME NEW open
  PROVE  /\ <<>> \in Seq(Functions) /\ Covered(<<>>, open)
         /\ \A work \in ShellWork : work \in Seq(Functions) /\ Covered(work, open)
         /\ \A id \in IDs :
              /\ DestroyWork(id) \in Seq(Functions) /\ Covered(DestroyWork(id), open)
              /\ DOMAIN DestroyWork(id) = {1} /\ DestroyWork(id)[1] = Destroy(id)
         /\ \A id \in IDs \cap open :
              /\ <<Eval, Open(id)>> \in Seq(Functions) /\ Covered(<<Eval, Open(id)>>, open)
              /\ <<Eval, Select(id)>> \in Seq(Functions) /\ Covered(<<Eval, Select(id)>>, open)
<1> USE FunctionFacts
<1>1. <<>> \in Seq(Functions) /\ Covered(<<>>, open)
  BY DEF Covered
<1>2. ASSUME NEW work \in ShellWork PROVE work \in Seq(Functions) /\ Covered(work, open)
  <2>1. CASE work = <<HideAll>>
    BY <2>1 DEF Covered, HideAll
  <2>2. CASE work = <<HideAll, Eval>>
    <3>1. work \in Seq(Functions)
      BY <2>2
    <3>2. DOMAIN work = {1, 2} /\ work[1] = HideAll /\ work[2] = Eval
      BY <2>2
    <3> QED
      BY <3>1, <3>2 DEF Covered, HideAll, Eval
  <2> QED
    BY <2>1, <2>2 DEF ShellWork
<1>3. ASSUME NEW id \in IDs
      PROVE  /\ DestroyWork(id) \in Seq(Functions) /\ Covered(DestroyWork(id), open)
             /\ DOMAIN DestroyWork(id) = {1} /\ DestroyWork(id)[1] = Destroy(id)
  <2>1. DestroyWork(id) = <<Destroy(id)>>
    BY DEF DestroyWork
  <2>2. DestroyWork(id) \in Seq(Functions)
    BY <2>1
  <2>3. DOMAIN DestroyWork(id) = {1} /\ DestroyWork(id)[1] = Destroy(id)
    BY <2>1
  <2> QED
    BY <2>2, <2>3 DEF Covered, Destroy
<1>4. ASSUME NEW id \in IDs \cap open, NEW f \in {Open(id), Select(id)}
      PROVE  <<Eval, f>> \in Seq(Functions) /\ Covered(<<Eval, f>>, open)
  <2> DEFINE work == <<Eval, f>>
  <2>1. work \in Seq(Functions)
    BY <1>4
  <2>2. DOMAIN work = {1, 2} /\ work[1] = Eval /\ work[2] = f
    OBVIOUS
  <2>3. f.id \in open
    BY <1>4 DEF Open, Select
  <2> QED
    BY <2>1, <2>2, <2>3 DEF Covered, Eval
<1> QED
  BY <1>1, <1>2, <1>3, <1>4

\* Work behind the destruction of a closed tab.
LEMMA ClosingWork ==
  ASSUME NEW open, NEW id \in IDs, NEW work \in Seq(Functions), Covered(work, open)
  PROVE  /\ DestroyWork(id) \o work \in Seq(Functions) /\ Covered(DestroyWork(id) \o work, open)
         /\ \E j \in DOMAIN (DestroyWork(id) \o work) : (DestroyWork(id) \o work)[j] = Destroy(id)
<1> DEFINE D == DestroyWork(id)
<1>1. D \in Seq(Functions) /\ Covered(D, open) /\ DOMAIN D = {1} /\ D[1] = Destroy(id)
  BY WorkFacts
<1> HIDE DEF D
<1>2. D \o work \in Seq(Functions) /\ Covered(D \o work, open)
  BY <1>1, CoveredAppend
<1>3. Len(D) = 1
  <2>1. Len(D) \in Nat /\ DOMAIN D = 1..Len(D)
    BY <1>1, LenProperties
  <2>2. Len(D) \in DOMAIN D \/ Len(D) = 0
    BY <2>1
  <2> QED
    BY <1>1, <2>1, <2>2
<1>4. 1 \in DOMAIN (D \o work) /\ (D \o work)[1] = D[1]
  <2>1. Len(work) \in Nat /\ 1 \in 1..Len(D) + Len(work) /\ 1 <= Len(D)
    BY <1>3
  <2>2. Len(D \o work) = Len(D) + Len(work) /\ DOMAIN (D \o work) = 1..Len(D \o work)
    BY <1>1, <1>2
  <2> QED
    BY <1>1, <1>3, <2>1, <2>2, ConcatProperties
<1> QED
  BY <1>1, <1>2, <1>4 DEF D

\* The bindings.
LEMMA HandleCallStep ==
  ASSUME TypeOK, IInv, HandleCall
  PROVE  TypeOK' /\ IInv'
<1> USE DEF viewVars, appVars
<1>0. /\ tabs \subseteq IDs /\ tabs \subseteq 1..nextID - 1 /\ nextID \in 1..MaxTabs + 1
      /\ activeTab \in tabs \cup {Nobody} /\ MaxTabs \in Nat
      /\ blocked \in BOOLEAN /\ unshown \in BOOLEAN
  BY WindowsAssumption DEF TypeOK, IDs
<1>1. CASE NewBrowserTab
  <2>1. nextID \in IDs \cap tabs'
    BY <1>0, <1>1 DEF NewBrowserTab, IDs
  <2>2. /\ tabs' \subseteq 1..nextID' - 1 /\ activeTab' \in tabs' \cup {Nobody}
        /\ nextID' \in 1..MaxTabs + 1 /\ tabs \ tabs' = {}
    BY <1>0, <1>1 DEF NewBrowserTab
  <2>3. /\ Call(<<Eval, Open(nextID)>>) /\ blocked' \in BOOLEAN /\ unshown' \in BOOLEAN
        /\ UNCHANGED <<views, browserActive, unmade, windows, visible, shellFull>>
    BY <1>0, <1>1 DEF NewBrowserTab
  <2> QED
    BY <2>1, <2>2, <2>3, WorkFacts, CallStep
<1>2. CASE NavigateBrowser
  <2>1. /\ unshown' \in BOOLEAN
        /\ UNCHANGED <<tabs, activeTab, nextID, views, browserActive, unmade, windows, visible,
                       shellFull, blocked>>
    BY <1>0, <1>2 DEF NavigateBrowser
  <2>2. CASE activeTab = Nobody
    BY <1>0, <1>2, <2>1, <2>2, WorkFacts, CallStep DEF NavigateBrowser
  <2>3. CASE activeTab # Nobody
    <3>1. activeTab \in IDs \cap tabs' /\ Call(<<Eval, Open(activeTab)>>)
      BY <1>0, <1>2, <2>1, <2>3 DEF NavigateBrowser
    <3> QED
      BY <1>0, <2>1, <3>1, WorkFacts, CallStep
  <2> QED
    BY <2>2, <2>3
<1>3. CASE ShowShell
  <2>1. PICK work \in ShellWork : Call(work)
    BY <1>3 DEF ShowShell
  <2>2. /\ activeTab' = Nobody /\ unshown' \in BOOLEAN
        /\ UNCHANGED <<tabs, nextID, views, browserActive, unmade, windows, visible, shellFull,
                       blocked>>
    BY <1>3 DEF ShowShell
  <2> QED
    BY <1>0, <2>1, <2>2, WorkFacts, CallStep
<1>4. CASE RegisterLocalTab
  <2>1. unshown' \in BOOLEAN
    BY <1>0, <1>4 DEF RegisterLocalTab
  <2> QED
    BY <1>0, <1>4, <2>1, WorkFacts, CallStep DEF RegisterLocalTab
<1>5. CASE SetChromeHeight
  <2>1. ~SelfDeadlock
    BY DEF SelfDeadlock, HeldWhileEmbedding
  <2>2. blocked' \in BOOLEAN /\ shellFull' = Resized(browserActive)
    BY <1>5, <2>1 DEF SetChromeHeight, SelfDeadlock
  <2> QED
    BY <1>0, <1>5, <2>2, WorkFacts, CallStep DEF SetChromeHeight
<1>6. CASE UseActiveView
  <2>1. blocked' \in BOOLEAN
    BY <1>6 DEF UseActiveView, SelfDeadlock
  <2> QED
    BY <1>0, <1>6, <2>1, WorkFacts, CallStep DEF UseActiveView
<1>7. ASSUME NEW id \in IDs, SwitchTab(id) PROVE TypeOK' /\ IInv'
  <2>1. /\ id \in IDs \cap tabs' /\ Call(<<Eval, Select(id)>>) /\ activeTab' = id
        /\ unshown' \in BOOLEAN
        /\ UNCHANGED <<tabs, nextID, views, browserActive, unmade, windows, visible,
                       shellFull, blocked>>
    BY <1>7 DEF SwitchTab
  <2> QED
    BY <1>0, <2>1, WorkFacts, CallStep
<1>8. ASSUME NEW id \in IDs, CloseTab(id) \/ ForgetTab(id) PROVE TypeOK' /\ IInv'
  <2>1. /\ tabs' = tabs \ {id} /\ unshown' \in BOOLEAN
        /\ UNCHANGED <<nextID, views, browserActive, unmade, windows, visible, shellFull,
                       blocked>>
    BY <1>0, <1>8 DEF CloseTab, ForgetTab
  <2>2. activeTab' \in tabs' \cup {Nobody}
    BY <1>0, <1>8, <2>1 DEF CloseTab, ForgetTab, Forgotten
  <2>3. ASSUME NEW work \in Seq(Functions), Covered(work, tabs'), Call(work),
               \E j \in DOMAIN work : work[j] = Destroy(id)
        PROVE  TypeOK' /\ IInv'
    BY <1>0, <2>1, <2>2, <2>3, CallStep
  <2>4. CASE Call(DestroyWork(id))
    BY <2>3, <2>4, WorkFacts
  <2>5. ASSUME NEW work \in ShellWork, Call(DestroyWork(id) \o work) PROVE TypeOK' /\ IInv'
    BY <2>3, <2>5, WorkFacts, ClosingWork
  <2>6. CASE activeTab' \in tabs' /\ Call(DestroyWork(id) \o <<Eval, Select(activeTab')>>)
    <3>1. activeTab' \in IDs \cap tabs'
      BY <1>0, <2>1, <2>6
    <3>2. <<Eval, Select(activeTab')>> \in Seq(Functions) /\ Covered(<<Eval, Select(activeTab')>>, tabs')
      BY <3>1, WorkFacts
    <3> QED
      BY <2>3, <2>6, <3>2, ClosingWork
  <2> QED
    BY <1>8, <2>4, <2>5, <2>6 DEF CloseTab, ForgetTab
<1>9. ASSUME NEW id \in IDs, RegisterClosedTab(id) PROVE TypeOK' /\ IInv'
  <2>1. /\ tabs' = tabs \cup {id} /\ id \in 1..nextID - 1 /\ activeTab' = id /\ Call(<<>>)
        /\ unshown' \in BOOLEAN
        /\ UNCHANGED <<nextID, views, browserActive, unmade, windows, visible, shellFull,
                       blocked>>
    BY <1>9 DEF RegisterClosedTab
  <2>2. tabs' \subseteq 1..nextID' - 1 /\ activeTab' \in tabs' \cup {Nobody} /\ tabs \ tabs' = {}
    BY <1>0, <2>1
  <2> QED
    BY <1>0, <2>1, <2>2, WorkFacts, CallStep
<1> QED
  BY <1>1, <1>2, <1>3, <1>4, <1>5, <1>6, <1>7, <1>8, <1>9 DEF HandleCall

\* The first function has run: it made a view of its tab, destroyed it, or did neither.
LEMMA QueueAdvances ==
  ASSUME batch \in Seq(Functions), dispatchq \in Seq(Functions), batch # <<>>, QueueInv,
         batch' = Tail(batch), UNCHANGED <<dispatchq, tabs>>,
         \/ DOMAIN views' = DOMAIN views /\ Head(batch).fn # "destroy"
         \/ /\ DOMAIN views' = DOMAIN views \cup {Head(batch).id}
            /\ Head(batch).fn \in {"open", "select"}
         \/ DOMAIN views' = DOMAIN views \ {Head(batch).id} /\ Head(batch).fn = "destroy"
  PROVE  QueueInv' /\ batch' \in Seq(Functions)
<1> DEFINE Q == batch \o dispatchq
           R == Tail(batch) \o dispatchq
<1>1. /\ Len(batch) \in Nat \ {0} /\ Len(dispatchq) \in Nat
      /\ Tail(batch) \in Seq(Functions) /\ Len(Tail(batch)) = Len(batch) - 1
      /\ Q \in Seq(Functions) /\ R \in Seq(Functions)
  OBVIOUS
<1>2. /\ Len(Q) = Len(batch) + Len(dispatchq) /\ Len(R) = Len(Q) - 1
      /\ DOMAIN Q = 1..Len(Q) /\ DOMAIN R = 1..Len(R) /\ Q[1] = Head(batch)
  BY <1>1
<1>3. \A i \in 1..Len(R) : R[i] = Q[i + 1]
  BY <1>1, <1>2
<1>4. Dispatched' = R /\ Dispatched = Q
  BY DEF Dispatched
<1> HIDE DEF Q, R
<1>5. Q # <<>> /\ R = Tail(Q)
  <2>1. Q # <<>>
    BY <1>1, <1>2
  <2>2. Tail(Q) \in Seq(Functions) /\ Len(Tail(Q)) = Len(Q) - 1
    BY <1>1, <2>1
  <2>3. \A i \in 1..Len(R) : Tail(Q)[i] = Q[i + 1]
    BY <1>1, <1>2, <2>1
  <2> QED
    BY <1>1, <1>2, <1>3, <2>1, <2>2, <2>3, SeqEqual
<1>6. Covered(Q, tabs) /\ Covered(R, tabs)
  BY <1>1, <1>4, <1>5, CoveredTail DEF QueueInv
<1>7. ASSUME NEW id, NEW j \in DOMAIN Q, Q[j] = Destroy(id),
             Head(batch).fn # "destroy" \/ Head(batch).id # id
      PROVE  \E k \in DOMAIN R : R[k] = Destroy(id)
  <2>1. j # 1
    BY <1>2, <1>7 DEF Destroy
  <2>2. Len(Q) \in Nat /\ Len(R) = Len(Q) - 1 /\ DOMAIN R = 1..Len(R) /\ j \in 1..Len(Q)
    BY <1>1, <1>2
  <2>3. j - 1 \in 1..Len(R) /\ (j - 1) + 1 = j
    BY <2>1, <2>2
  <2>4. R[j - 1] = Q[j]
    BY <1>3, <2>3
  <2> QED
    BY <1>7, <2>2, <2>3, <2>4
<1>8. ASSUME NEW id \in DOMAIN views', id \notin tabs
      PROVE  \E k \in DOMAIN R : R[k] = Destroy(id)
  <2>1. CASE Head(batch).fn \in {"open", "select"} /\ id = Head(batch).id
    <3>1. 1 \in DOMAIN Q
      BY <1>1, <1>2
    <3>2. PICK j \in DOMAIN Q : j > 1 /\ Q[j] = Destroy(id)
      BY <1>2, <1>6, <1>8, <2>1, <3>1 DEF Covered
    <3> QED
      BY <1>7, <2>1, <3>2
  <2>2. CASE id \in DOMAIN views /\ (Head(batch).fn # "destroy" \/ Head(batch).id # id)
    <3>1. PICK j \in DOMAIN Q : Q[j] = Destroy(id)
      BY <1>4, <1>8, <2>2 DEF QueueInv
    <3> QED
      BY <1>7, <2>2, <3>1
  <2> QED
    BY <1>8, <2>1, <2>2
<1>9. QueueInv'
  BY <1>4, <1>6, <1>8 DEF QueueInv, Covered
<1> QED
  BY <1>1, <1>9

\* Show lays the host out for its view, whose window exists as long as the host does.
LEMMA ShowLayout ==
  ASSUME closed \in BOOLEAN, shellFull \in BOOLEAN, NEW id \in IDs,
         Show(id, views', windows'), embedding' = Nobody, UNCHANGED closed,
         unmade' \/ id \in DOMAIN views',
         ~closed => \A i \in DOMAIN views' : views'[i] \in windows'
  PROVE  /\ browserActive' \in IDs \cup {Nobody} /\ shellFull' \in BOOLEAN
         /\ visible' \subseteq windows' /\ LayoutInv' /\ ActiveViewInv' /\ VisibleInv'
<1>0. id # Nobody
  BY WindowsAssumption DEF IDs
<1>1. browserActive' = id /\ shellFull' = Resized(id) /\ visible' = ShownWindows(id, views', windows')
  BY DEF Show
<1>2. shellFull' \in BOOLEAN
  BY <1>1 DEF Resized
<1>3. visible' \subseteq windows'
  BY <1>1 DEF ShownWindows
<1>4. ~closed => ~shellFull'
  BY <1>0, <1>1 DEF Resized
<1>5. LayoutInv'
  BY <1>0, <1>1, <1>2, <1>4 DEF LayoutInv
<1>6. ~closed => visible' = {views'[i] : i \in DOMAIN views' \cap {id}}
  BY <1>1 DEF ShownWindows
<1> QED
  BY <1>1, <1>2, <1>3, <1>5, <1>6 DEF ActiveViewInv, VisibleInv

\* Messages, and steps of WebView2, which leave the views and the tabs alone.
LEMMA LoopStep ==
  ASSUME TypeOK, IInv,
         \/ ShellCalls \/ HostResized \/ HostDestroyed \/ TakeApp \/ DropApp \/ RunEnds
         \/ EmbedQuits \/ EnvironmentCompleted \/ ControllerCompleted \/ UNCHANGED vars
  PROVE  TypeOK' /\ IInv'
<1> USE DEF appVars, embedVars, viewVars, postVars
<1>1. UNCHANGED <<tabs, activeTab, nextID, unshown, embedding, newWindow, nextWindow, views,
                  browserActive, unmade>>
  BY DEF ShellCalls, HostResized, HostDestroyed, TakeApp, DropApp, RunEnds, EmbedQuits,
         EnvironmentCompleted, ControllerCompleted, vars
<1>2. /\ {closed', blocked', ended', quit', shellFull'} \subseteq BOOLEAN /\ app' \in Nat
      /\ inited' \in {"env", "controller", "ok", "failed"}
      /\ sent' \in 0..MaxCalls /\ calls' \in 0..sent'
  <2>1. {closed', ended', quit'} \subseteq BOOLEAN
    BY DEF TypeOK, ShellCalls, HostResized, HostDestroyed, TakeApp, DropApp, RunEnds, EmbedQuits,
         EnvironmentCompleted, ControllerCompleted, vars
  <2>2. {blocked', shellFull'} \subseteq BOOLEAN
    BY DEF TypeOK, ShellCalls, HostResized, HostDestroyed, TakeApp, DropApp, RunEnds, EmbedQuits,
         EnvironmentCompleted, ControllerCompleted, vars, SelfDeadlock, Resized
  <2>3. app' \in Nat /\ inited' \in {"env", "controller", "ok", "failed"}
    BY DEF TypeOK, ShellCalls, HostResized, HostDestroyed, TakeApp, DropApp, RunEnds, EmbedQuits,
         EnvironmentCompleted, ControllerCompleted, vars
  <2>4. sent' \in 0..MaxCalls /\ calls' \in 0..sent'
    <3>1. CASE ShellCalls
      BY <3>1, WindowsAssumption DEF TypeOK, ShellCalls
    <3>2. CASE HostDestroyed
      BY <3>2 DEF TypeOK, HostDestroyed
    <3>3. CASE ~ShellCalls /\ ~HostDestroyed
      <4>1. UNCHANGED <<sent, calls>>
        BY <3>3 DEF HostResized, TakeApp, DropApp, RunEnds, EmbedQuits, EnvironmentCompleted,
                    ControllerCompleted, vars
      <4> QED
        BY <4>1 DEF TypeOK
    <3> QED
      BY <3>1, <3>2, <3>3
  <2> QED
    BY <2>1, <2>2, <2>3, <2>4
<1>3. CASE HostDestroyed
  <2>1. closed' /\ windows' = {} /\ visible' = {} /\ UNCHANGED <<batch, dispatchq, shellFull>>
    BY <1>3 DEF HostDestroyed
  <2>2. TypeOK'
    BY <1>1, <1>2, <2>1 DEF TypeOK
  <2> QED
    BY <1>1, <2>1, <2>2 DEF IInv, EmbedInv, ViewWindowsInv, LayoutInv, ActiveViewInv, QueueInv,
       Dispatched, Covered, WindowsAreOwned, VisibleInv
<1>4. CASE ~HostDestroyed
  <2>1. UNCHANGED <<windows, visible, closed>>
    BY <1>4 DEF ShellCalls, HostResized, TakeApp, DropApp, RunEnds, EmbedQuits,
         EnvironmentCompleted, ControllerCompleted, vars
  <2>2. shellFull' = shellFull \/ shellFull' = Resized(browserActive)
    BY <1>4 DEF ShellCalls, HostResized, TakeApp, DropApp, RunEnds, EmbedQuits,
         EnvironmentCompleted, ControllerCompleted, vars, SelfDeadlock, HeldWhileEmbedding
  <2>3. LayoutInv'
    <3>1. CASE closed
      BY <2>1, <3>1 DEF LayoutInv
    <3>2. CASE ~closed
      BY <1>1, <2>1, <2>2, <3>2, Zenon DEF IInv, LayoutInv, Resized
    <3> QED
      BY <3>1, <3>2
  <2>4. ActiveViewInv' /\ VisibleInv' /\ WindowsAreOwned' /\ ViewWindowsInv'
    BY <1>1, <2>1 DEF IInv, ActiveViewInv, VisibleInv, Settled, WindowsAreOwned, ViewWindowsInv
  <2>5. /\ batch' \in Seq(Functions) /\ dispatchq' \in Seq(Functions)
        /\ Dispatched' = Dispatched /\ EmbedInv'
    <3>1. CASE TakeApp
      <4>1. batch = <<>> /\ batch' = dispatchq /\ dispatchq' = <<>> /\ embedding = Nobody
        BY <3>1 DEF TakeApp, Waiting
      <4>2. dispatchq \in Seq(Functions) /\ <<>> \o dispatchq = dispatchq /\ dispatchq \o <<>> = dispatchq
        BY ConcatEmptySeq DEF TypeOK
      <4>3. Dispatched' = Dispatched
        BY <4>1, <4>2 DEF Dispatched
      <4> QED
        BY <1>1, <4>1, <4>2, <4>3 DEF EmbedInv
    <3>2. CASE ~TakeApp
      <4>1. UNCHANGED <<batch, dispatchq>>
        BY <1>4, <3>2 DEF ShellCalls, HostResized, DropApp, RunEnds, EmbedQuits,
           EnvironmentCompleted, ControllerCompleted, vars
      <4>2. EmbedInv'
        BY <1>1, <4>1 DEF IInv, EmbedInv, Open, Select
      <4> QED
        BY <4>1, <4>2 DEF TypeOK, Dispatched
    <3> QED
      BY <3>1, <3>2
  <2>6. QueueInv'
    BY <1>1, <2>5 DEF IInv, QueueInv, Covered
  <2>7. TypeOK'
    BY <1>1, <1>2, <2>1, <2>5 DEF TypeOK
  <2> QED
    BY <2>3, <2>4, <2>5, <2>6, <2>7 DEF IInv
<1> QED
  BY <1>3, <1>4

\* A dispatched function shows a view, makes one or fails to, hides or destroys.
LEMMA WorkStep ==
  ASSUME TypeOK, IInv, Work
  PROVE  TypeOK' /\ IInv'
<1> USE DEF appVars, embedVars, viewVars, postVars
<1>0. /\ batch \in Seq(Functions) /\ dispatchq \in Seq(Functions) /\ QueueInv
      /\ closed \in BOOLEAN /\ shellFull \in BOOLEAN
      /\ \A f \in Functions : f.fn \in {"open", "select", "destroy"} => f.id \in IDs
      /\ batch # <<>> => Head(batch) \in Functions
  BY FunctionFacts DEF TypeOK, IInv
<1>1. UNCHANGED <<tabs, activeTab, nextID, unshown, calls, sent, dispatchq, app, quit, closed, blocked,
                  ended>>
  BY DEF Work, CreateView, CreateFails, EmbedFails, EmbedSucceeds, RunFunction
<1>2. CASE CreateView
  <2>1. /\ embedding = Nobody /\ batch # <<>> /\ Head(batch).fn \in {"open", "select"}
        /\ Head(batch).id \notin DOMAIN views /\ embedding' = Head(batch).id
        /\ inited' \in {"env", "failed"}
        /\ newWindow' = nextWindow /\ nextWindow' = nextWindow + 1
        /\ windows' = windows \cup {nextWindow} /\ visible' = visible \cup {nextWindow}
        /\ UNCHANGED <<batch, views, browserActive, unmade, shellFull>>
    BY <1>2 DEF CreateView, Asked
  <2>2. embedding' \in IDs /\ embedding' # Nobody
    BY <1>0, <2>1, WindowsAssumption DEF IDs
  <2>3. /\ nextWindow' \in Nat \ {0} /\ newWindow' \in 0..nextWindow' - 1 /\ newWindow' # 0
        /\ windows' \subseteq 1..nextWindow' - 1 /\ visible' \subseteq windows'
        /\ \A id \in DOMAIN views : views[id] \in 1..nextWindow' - 1 /\ views[id] # newWindow'
    BY <2>1 DEF TypeOK
  <2>4. TypeOK'
    BY <1>1, <2>1, <2>2, <2>3 DEF TypeOK
  <2>5. EmbedInv'
    <3>1. Head(batch) \in {Open(embedding'), Select(embedding')}
      BY <1>0, <2>1, FunctionFacts
    <3> QED
      BY <2>1, <2>3, <3>1 DEF EmbedInv, Open, Select
  <2>6. ViewWindowsInv' /\ LayoutInv' /\ ActiveViewInv' /\ WindowsAreOwned' /\ VisibleInv'
    BY <1>1, <2>1, <2>2 DEF IInv, ViewWindowsInv, LayoutInv, ActiveViewInv, WindowsAreOwned,
       VisibleInv, Settled
  <2>7. QueueInv'
    BY <1>0, <1>1, <2>1 DEF QueueInv, Dispatched, Covered
  <2> QED
    BY <2>4, <2>5, <2>6, <2>7 DEF IInv
<1>3. CASE CreateFails
  <2>1. /\ embedding = Nobody /\ batch # <<>> /\ Head(batch).fn \in {"open", "select"}
        /\ batch' = Tail(batch) /\ UNCHANGED <<embedding, inited, newWindow, nextWindow, views, windows>>
        /\ Show(Head(batch).id, views, windows) /\ unmade' = TRUE
    BY <1>3 DEF CreateFails
  <2>2. Head(batch).id \in IDs
    BY <1>0, <2>1
  <2>3. QueueInv' /\ batch' \in Seq(Functions)
    BY <1>0, <1>1, <2>1, QueueAdvances
  <2>4. ~closed => \A i \in DOMAIN views' : views'[i] \in windows'
    BY <2>1 DEF IInv, ViewWindowsInv
  <2>5. /\ browserActive' \in IDs \cup {Nobody} /\ shellFull' \in BOOLEAN
        /\ visible' \subseteq windows' /\ LayoutInv' /\ ActiveViewInv' /\ VisibleInv'
    BY <1>0, <1>1, <2>1, <2>2, <2>4, ShowLayout
  <2>6. TypeOK'
    BY <1>1, <2>1, <2>3, <2>5 DEF TypeOK
  <2>7. EmbedInv' /\ ViewWindowsInv' /\ WindowsAreOwned'
    BY <1>1, <2>1 DEF IInv, EmbedInv, ViewWindowsInv, WindowsAreOwned, Settled
  <2> QED
    BY <2>3, <2>5, <2>6, <2>7 DEF IInv
<1>4. ASSUME embedding # Nobody
      PROVE  /\ batch # <<>> /\ Head(batch).fn \in {"open", "select"} /\ Head(batch).id = embedding
             /\ embedding \in IDs /\ embedding \notin DOMAIN views /\ newWindow \in 1..nextWindow - 1
             /\ \A id \in DOMAIN views : views[id] # newWindow
             /\ ~closed => newWindow \in windows
  BY <1>4 DEF IInv, EmbedInv, ViewWindowsInv, TypeOK, Open, Select
<1>5. CASE EmbedFails
  <2>1. /\ embedding # Nobody /\ embedding' = Nobody /\ newWindow' = 0 /\ batch' = Tail(batch)
        /\ windows' = windows \ {newWindow} /\ UNCHANGED <<inited, nextWindow, views>>
        /\ Show(embedding, views, windows') /\ unmade' = TRUE
    BY <1>5 DEF EmbedFails, FailedWindows
  <2>2. QueueInv' /\ batch' \in Seq(Functions)
    BY <1>0, <1>1, <1>4, <2>1, QueueAdvances
  <2>3. ~closed => \A i \in DOMAIN views' : views'[i] \in windows'
    BY <1>4, <2>1 DEF IInv, ViewWindowsInv
  <2>4. /\ browserActive' \in IDs \cup {Nobody} /\ shellFull' \in BOOLEAN
        /\ visible' \subseteq windows' /\ LayoutInv' /\ ActiveViewInv' /\ VisibleInv'
    BY <1>0, <1>1, <1>4, <2>1, <2>3, ShowLayout
  <2>5. TypeOK'
    <3>1. nextWindow \in Nat \ {0} /\ windows \subseteq 1..nextWindow - 1
      BY DEF TypeOK
    <3>2. newWindow' = 0 /\ nextWindow' = nextWindow /\ windows' \subseteq windows
      BY <2>1
    <3>3. newWindow' \in 0..nextWindow' - 1 /\ windows' \subseteq 1..nextWindow' - 1
      BY <3>1, <3>2
    <3> QED
      BY <1>1, <2>1, <2>2, <2>4, <3>3 DEF TypeOK
  <2>6. EmbedInv' /\ ViewWindowsInv'
    BY <1>1, <2>1, <2>3 DEF IInv, EmbedInv, ViewWindowsInv
  <2>7. WindowsAreOwned'
    BY <2>1 DEF IInv, WindowsAreOwned, Settled
  <2> QED
    BY <2>2, <2>4, <2>5, <2>6, <2>7 DEF IInv
<1>6. CASE EmbedSucceeds
  <2> DEFINE known == [id \in DOMAIN views \cup {embedding} |->
                         IF id \in DOMAIN views THEN views[id] ELSE newWindow]
  <2>1. /\ embedding # Nobody /\ embedding' = Nobody /\ newWindow' = 0 /\ batch' = Tail(batch)
        /\ views' = known /\ UNCHANGED <<inited, nextWindow>>
        /\ windows' = IF embedding \in DOMAIN views THEN windows \ {newWindow} ELSE windows
        /\ Show(embedding, views', windows') /\ unmade' = FALSE
    BY <1>6 DEF EmbedSucceeds
  <2>2. /\ DOMAIN views' = DOMAIN views \cup {embedding} /\ views'[embedding] = newWindow
        /\ \A id \in DOMAIN views : views'[id] = views[id]
    BY <1>4, <2>1
  <2> HIDE DEF known
  <2>3. UNCHANGED windows
    BY <1>4, <2>1
  <2>4. QueueInv' /\ batch' \in Seq(Functions)
    BY <1>0, <1>1, <1>4, <2>1, <2>2, QueueAdvances
  <2>5. ~closed => \A i \in DOMAIN views' : views'[i] \in windows'
    BY <1>4, <2>1, <2>2, <2>3 DEF IInv, ViewWindowsInv
  <2>6. /\ browserActive' \in IDs \cup {Nobody} /\ shellFull' \in BOOLEAN
        /\ visible' \subseteq windows' /\ LayoutInv' /\ ActiveViewInv' /\ VisibleInv'
    BY <1>0, <1>1, <1>4, <2>1, <2>2, <2>5, ShowLayout
  <2>7. TypeOK'
    <3>1. /\ newWindow' \in 0..nextWindow' - 1
          /\ \A id \in DOMAIN views' : views'[id] \in 1..nextWindow' - 1
      BY <1>4, <2>1, <2>2 DEF TypeOK
    <3>2. DOMAIN views' \subseteq IDs
      BY <1>4, <2>1, <2>2 DEF TypeOK
    <3> QED
      BY <1>1, <2>1, <2>3, <2>4, <2>6, <3>1, <3>2 DEF TypeOK
  <2>8. EmbedInv' /\ ViewWindowsInv'
    BY <1>1, <1>4, <2>1, <2>2, <2>5 DEF IInv, EmbedInv, ViewWindowsInv
  <2>9. WindowsAreOwned'
    BY <2>1, <2>2, <2>3 DEF IInv, WindowsAreOwned, Settled
  <2> QED
    BY <2>4, <2>6, <2>7, <2>8, <2>9 DEF IInv
<1>7. CASE RunFunction
  <2> DEFINE f == Head(batch)
  <2>1. /\ embedding = Nobody /\ batch # <<>> /\ batch' = Tail(batch)
        /\ UNCHANGED <<embedding, inited, newWindow, nextWindow>>
    BY <1>7 DEF RunFunction
  <2>2. f \in Functions
    BY <1>0, <2>1
  <2> HIDE DEF f
  <2>3. ASSUME /\ visible' \subseteq windows' /\ shellFull' \in BOOLEAN
               /\ browserActive' \in IDs \cup {Nobody} /\ unmade' \in BOOLEAN
               /\ LayoutInv' /\ ActiveViewInv' /\ VisibleInv',
               \/ UNCHANGED <<views, windows>> /\ f.fn # "destroy"
               \/ /\ DOMAIN views' = DOMAIN views \ {f.id} /\ f.fn = "destroy"
                  /\ \A id \in DOMAIN views' : views'[id] = views[id]
                  /\ windows' = windows \ DestroyedWindows(f.id)
        PROVE  TypeOK' /\ IInv'
    <3>1. QueueInv' /\ batch' \in Seq(Functions)
      BY <1>0, <1>1, <2>1, <2>3, QueueAdvances DEF f
    <3>2. /\ DOMAIN views' \subseteq DOMAIN views /\ windows' \subseteq windows
          /\ \A id \in DOMAIN views' : views'[id] = views[id]
      BY <2>3
    <3>3. TypeOK'
      BY <1>1, <2>1, <2>3, <3>1, <3>2 DEF TypeOK
    <3>4. EmbedInv'
      BY <2>1 DEF EmbedInv
    <3>5. ViewWindowsInv' /\ WindowsAreOwned'
      <4>1. CASE UNCHANGED <<views, windows>>
        BY <1>1, <2>1, <4>1 DEF IInv, ViewWindowsInv, WindowsAreOwned, Settled
      <4>2. CASE ~UNCHANGED <<views, windows>>
        BY <1>1, <2>1, <2>3, <4>2 DEF IInv, ViewWindowsInv, WindowsAreOwned, Settled, DestroyedWindows
      <4> QED
        BY <4>1, <4>2
    <3> QED
      BY <2>3, <3>1, <3>3, <3>4, <3>5 DEF IInv
  <2>4. CASE f.fn = "eval" /\ UNCHANGED viewVars
    <3>1. LayoutInv' /\ ActiveViewInv' /\ VisibleInv'
      BY <1>1, <2>1, <2>4 DEF IInv, LayoutInv, ActiveViewInv, VisibleInv, Settled
    <3> QED
      BY <1>0, <2>3, <2>4, <3>1 DEF TypeOK
  <2>5. CASE /\ f.fn \in {"open", "select"} /\ Show(f.id, views, windows)
             /\ unmade' = FALSE /\ f.id \in DOMAIN views /\ UNCHANGED <<views, windows>>
    <3>1. f.id \in IDs
      BY <1>0, <2>2, <2>5
    <3>2. ~closed => \A i \in DOMAIN views' : views'[i] \in windows'
      BY <2>5 DEF IInv, ViewWindowsInv
    <3>3. /\ browserActive' \in IDs \cup {Nobody} /\ shellFull' \in BOOLEAN
          /\ visible' \subseteq windows' /\ LayoutInv' /\ ActiveViewInv' /\ VisibleInv'
      BY <1>0, <1>1, <2>1, <2>5, <3>1, <3>2, ShowLayout
    <3> QED
      BY <2>3, <2>5, <3>3
  <2>6. CASE /\ f.fn = "hide" /\ browserActive' = Nobody /\ unmade' = FALSE /\ shellFull' = Resized(Nobody)
             /\ visible' = {} /\ UNCHANGED <<views, windows>>
    <3>1. shellFull' \in BOOLEAN
      BY <1>0, <2>6 DEF Resized
    <3>2. ~closed => shellFull' = TRUE
      BY <2>6 DEF Resized
    <3>3. LayoutInv' /\ ActiveViewInv'
      BY <1>1, <2>6, <3>2 DEF LayoutInv, ActiveViewInv
    <3>4. Nobody \notin DOMAIN views
      BY WindowsAssumption DEF TypeOK, IDs
    <3>5. VisibleInv'
      BY <1>1, <2>6, <3>4 DEF VisibleInv
    <3> QED
      BY <2>3, <2>6, <3>1, <3>3, <3>5
  <2>7. CASE /\ f.fn = "destroy"
             /\ views' = [id \in DOMAIN views \ {f.id} |-> views[id]]
             /\ windows' = windows \ DestroyedWindows(f.id)
             /\ visible' = visible \cap windows'
             /\ browserActive' = IF browserActive = f.id THEN Nobody ELSE browserActive
             /\ unmade' = (unmade /\ browserActive # f.id)
             /\ shellFull' = DestroyedLayout(f.id)
    <3>1. DOMAIN views' = DOMAIN views \ {f.id} /\ \A id \in DOMAIN views' : views'[id] = views[id]
      BY <2>7
    <3>2. shellFull' \in BOOLEAN /\ browserActive' \in IDs \cup {Nobody} /\ visible' \subseteq windows'
      BY <1>0, <2>7 DEF TypeOK, DestroyedLayout, Resized
    <3>3. f.id \in IDs /\ f.id # Nobody /\ Nobody \notin DOMAIN views
      BY <1>0, <2>2, <2>7, WindowsAssumption DEF TypeOK, IDs
    <3>4. LayoutInv'
      <4>1. CASE browserActive = f.id
        <5>1. ~closed => shellFull' = TRUE
          BY <2>7, <4>1 DEF DestroyedLayout, Resized
        <5> QED
          BY <1>1, <2>7, <4>1, <5>1 DEF LayoutInv
      <4>2. CASE browserActive # f.id
        BY <1>1, <2>7, <4>2 DEF IInv, LayoutInv, DestroyedLayout
      <4> QED
        BY <4>1, <4>2
    <3>5. ASSUME ~closed
          PROVE  visible' = {views'[id] : id \in DOMAIN views' \cap {browserActive'}}
      <4>1. visible = {views[id] : id \in DOMAIN views \cap {browserActive}}
        BY <2>1, <3>5 DEF IInv, VisibleInv, Settled
      <4>2. /\ \A i, j \in DOMAIN views : views[i] = views[j] => i = j
            /\ \A id \in DOMAIN views : views[id] \in windows
        BY <3>5 DEF IInv, ViewWindowsInv
      <4>3. CASE browserActive = f.id
        BY <2>7, <3>1, <3>3, <4>1, <4>3 DEF DestroyedWindows
      <4>4. CASE browserActive # f.id
        BY <2>7, <3>1, <4>1, <4>2, <4>4 DEF DestroyedWindows
      <4> QED
        BY <4>3, <4>4
    <3>6. VisibleInv' /\ ActiveViewInv' /\ unmade' \in BOOLEAN
      BY <1>1, <2>7, <3>1, <3>5 DEF IInv, TypeOK, VisibleInv, ActiveViewInv
    <3> QED
      BY <2>3, <2>7, <3>1, <3>2, <3>4, <3>6
  <2> QED
    BY <1>7, <2>4, <2>5, <2>6, <2>7 DEF RunFunction, f
<1> QED
  BY <1>2, <1>3, <1>5, <1>6, <1>7 DEF Work

\* A queue without its first function leads on from what that function left.
LEMMA LeadsTail ==
  ASSUME NEW queue \in Seq(Functions), queue # <<>>, NEW now, NEW next, NEW final,
         Leads(queue, now, final),
         next = IF Chooses(queue[1]) THEN queue[1].id
                ELSE IF queue[1] = Destroy(now) THEN Nobody ELSE now
  PROVE  Leads(Tail(queue), next, final)
<1> DEFINE rest == Tail(queue)
<1>1. /\ Len(queue) \in Nat \ {0} /\ DOMAIN queue = 1..Len(queue)
      /\ DOMAIN rest = 1..Len(queue) - 1
      /\ \A i \in 1..Len(queue) - 1 : rest[i] = queue[i + 1]
      /\ \A i \in DOMAIN queue : queue[i] \in Functions
  OBVIOUS
<1> HIDE DEF rest
<1>2. \A i \in DOMAIN queue : queue[i] # Destroy(Nobody)
  BY <1>1, WindowsAssumption, FunctionFacts DEF Destroy, IDs
<1>3. ASSUME NEW i \in Nat, NEW chosen, Ends(queue, i + 1, chosen, final)
      PROVE  Ends(rest, i, chosen, final)
  <2>1. \A j \in DOMAIN rest : j > i =>
          j + 1 \in DOMAIN queue /\ j + 1 > i + 1 /\ queue[j + 1] = rest[j]
    BY <1>1
  <2>2. \A j \in DOMAIN queue : j > i + 1 =>
          j - 1 \in DOMAIN rest /\ j - 1 > i /\ queue[j] = rest[j - 1]
    BY <1>1
  <2> QED
    BY <1>3, <2>1, <2>2 DEF Ends
<1>4. CASE Ends(queue, 0, now, final)
  <2>1. 1 \in DOMAIN queue /\ ~Chooses(queue[1])
    BY <1>1, <1>4 DEF Ends
  <2>2. CASE queue[1] = Destroy(now)
    <3>1. next = Nobody /\ final = Nobody
      BY <1>4, <2>1, <2>2 DEF Ends
    <3>2. Ends(queue, 0 + 1, Nobody, Nobody)
      BY <1>2, <1>4 DEF Ends
    <3> QED
      BY <1>3, <3>1, <3>2 DEF Leads, rest
  <2>3. CASE queue[1] # Destroy(now)
    <3>1. next = now
      BY <2>1, <2>3
    <3>2. Ends(queue, 0 + 1, now, final)
      <4>1. \A j \in DOMAIN queue : j > 0 /\ queue[j] = Destroy(now) => j > 0 + 1
        BY <1>1, <2>3
      <4> QED
        BY <1>4, <4>1 DEF Ends
    <3> QED
      BY <1>3, <3>1, <3>2 DEF Leads, rest
  <2> QED
    BY <2>2, <2>3
<1>5. ASSUME NEW i \in DOMAIN queue, Chooses(queue[i]), Ends(queue, i, queue[i].id, final)
      PROVE  Leads(rest, next, final)
  <2>1. Ends(rest, i - 1, queue[i].id, final)
    <3>1. i - 1 \in Nat /\ (i - 1) + 1 = i
      BY <1>1
    <3> QED
      BY <1>3, <1>5, <3>1
  <2>2. CASE i = 1
    BY <1>5, <2>1, <2>2 DEF Leads
  <2>3. CASE i # 1
    <3>1. i - 1 \in DOMAIN rest /\ rest[i - 1] = queue[i]
      BY <1>1, <2>3
    <3> QED
      BY <1>5, <2>1, <3>1 DEF Leads
  <2> QED
    BY <2>2, <2>3
<1> QED
  BY <1>4, <1>5 DEF Leads, rest

\* Work that chooses a tab and does not destroy it leads there from anywhere.
LEMMA LeadsChosen ==
  ASSUME NEW queue \in Seq(Functions), NEW work \in Seq(Functions), NEW now, NEW k \in DOMAIN work,
         Chooses(work[k]),
         \A j \in DOMAIN work : j > k => ~Chooses(work[j]) /\ work[j].fn # "destroy"
  PROVE  Leads(queue \o work, now, work[k].id)
<1> DEFINE all == queue \o work
           i == Len(queue) + k
<1>1. /\ Len(queue) \in Nat /\ Len(work) \in Nat /\ DOMAIN work = 1..Len(work)
      /\ DOMAIN all = 1..Len(queue) + Len(work)
      /\ \A j \in 1..Len(work) : all[Len(queue) + j] = work[j]
  OBVIOUS
<1> HIDE DEF all
<1>2. i \in DOMAIN all /\ all[i] = work[k]
  BY <1>1
<1>3. ASSUME NEW j \in DOMAIN all, j > i PROVE ~Chooses(all[j]) /\ all[j] # Destroy(work[k].id)
  <2>1. j - Len(queue) \in DOMAIN work /\ j - Len(queue) > k /\ all[j] = work[j - Len(queue)]
    BY <1>1, <1>3
  <2> QED
    BY <2>1 DEF Destroy
<1>4. Ends(all, i, work[k].id, work[k].id)
  BY <1>3 DEF Ends
<1> QED
  BY <1>2, <1>4 DEF Leads, all

\* Work that chooses nothing leaves what the queue leads to, unless it destroys it.
LEMMA LeadsKept ==
  ASSUME NEW queue \in Seq(Functions), NEW work \in Seq(Functions), NEW now, NEW final, NEW after,
         Leads(queue, now, final), \A j \in DOMAIN work : ~Chooses(work[j]),
         after = IF \E j \in DOMAIN work : work[j] = Destroy(final) THEN Nobody ELSE final
  PROVE  Leads(queue \o work, now, after)
<1> DEFINE all == queue \o work
<1>1. /\ Len(queue) \in Nat /\ Len(work) \in Nat
      /\ DOMAIN queue = 1..Len(queue) /\ DOMAIN work = 1..Len(work)
      /\ DOMAIN all = 1..Len(queue) + Len(work)
      /\ \A j \in 1..Len(queue) : all[j] = queue[j]
      /\ \A j \in 1..Len(work) : all[Len(queue) + j] = work[j]
      /\ \A j \in DOMAIN work : work[j] \in Functions
  OBVIOUS
<1> HIDE DEF all
<1>2. \A j \in DOMAIN work : work[j] # Destroy(Nobody)
  BY <1>1, WindowsAssumption, FunctionFacts DEF Destroy, IDs
<1>3. ASSUME NEW i \in 0..Len(queue), NEW chosen, Ends(queue, i, chosen, final)
      PROVE  Ends(all, i, chosen, after)
  <2>1. \A j \in DOMAIN all : \/ j \in DOMAIN queue /\ all[j] = queue[j]
                              \/ /\ j - Len(queue) \in DOMAIN work
                                 /\ all[j] = work[j - Len(queue)] /\ j > i
    BY <1>1
  <2>2. \A j \in DOMAIN work : /\ Len(queue) + j \in DOMAIN all /\ Len(queue) + j > i
                               /\ all[Len(queue) + j] = work[j]
    BY <1>1
  <2>3. \A j \in DOMAIN queue : j \in DOMAIN all /\ all[j] = queue[j]
    BY <1>1
  <2>4. \A j \in DOMAIN all : j > i => ~Chooses(all[j])
    BY <1>3, <2>1 DEF Ends
  <2>5. CASE \E j \in DOMAIN queue : j > i /\ queue[j] = Destroy(chosen)
    <3>1. final = Nobody
      BY <1>3, <2>5 DEF Ends
    <3>2. after = Nobody
      BY <1>2, <3>1
    <3> QED
      BY <2>3, <2>4, <2>5, <3>2 DEF Ends
  <2>6. CASE ~\E j \in DOMAIN queue : j > i /\ queue[j] = Destroy(chosen)
    <3>1. final = chosen
      BY <1>3, <2>6 DEF Ends
    <3>2. (\E j \in DOMAIN all : j > i /\ all[j] = Destroy(chosen))
            <=> \E j \in DOMAIN work : work[j] = Destroy(final)
      BY <2>1, <2>2, <2>6, <3>1
    <3> QED
      BY <2>4, <3>1, <3>2 DEF Ends
  <2> QED
    BY <2>5, <2>6
<1>4. CASE Ends(queue, 0, now, final)
  BY <1>1, <1>3, <1>4 DEF Leads, all
<1>5. ASSUME NEW i \in DOMAIN queue, Chooses(queue[i]), Ends(queue, i, queue[i].id, final)
      PROVE  Leads(all, now, after)
  <2>1. i \in 0..Len(queue) /\ i \in DOMAIN all /\ all[i] = queue[i]
    BY <1>1
  <2> QED
    BY <1>3, <1>5, <2>1 DEF Leads
<1> QED
  BY <1>4, <1>5 DEF Leads, all

\* A call puts its work and the reply behind everything that was dispatched.
LEMMA CallAppends ==
  ASSUME TypeOK, NEW work \in Seq(Functions), Call(work)
  PROVE  /\ Dispatched' = Dispatched \o (work \o <<Eval>>)
         /\ Dispatched \in Seq(Functions) /\ work \o <<Eval>> \in Seq(Functions)
         /\ DOMAIN (work \o <<Eval>>) = 1..Len(work) + 1 /\ DOMAIN work = 1..Len(work)
         /\ Len(work) \in Nat
         /\ \A j \in DOMAIN work : (work \o <<Eval>>)[j] = work[j]
         /\ (work \o <<Eval>>)[Len(work) + 1] = Eval
<1> DEFINE W == work \o <<Eval>>
<1>1. /\ batch \in Seq(Functions) /\ dispatchq \in Seq(Functions)
      /\ <<Eval>> \in Seq(Functions) /\ W \in Seq(Functions)
  BY FunctionFacts DEF TypeOK
<1>2. dispatchq' = dispatchq \o work \o <<Eval>> /\ UNCHANGED batch
  BY DEF Call
<1>3. /\ \A w \in Seq(Functions) : (dispatchq \o work) \o w = dispatchq \o (work \o w)
      /\ \A w \in Seq(Functions) : (batch \o dispatchq) \o w = batch \o (dispatchq \o w)
  <2>1. \A w \in Seq(Functions) : (dispatchq \o work) \o w = dispatchq \o (work \o w)
    BY <1>1, ConcatIsAssociative, Zenon
  <2>2. \A w \in Seq(Functions) : (batch \o dispatchq) \o w = batch \o (dispatchq \o w)
    BY <1>1, ConcatIsAssociative, Zenon
  <2> QED
    BY <2>1, <2>2, Zenon
<1>4. Dispatched' = Dispatched \o W
  <2>1. (dispatchq \o work) \o <<Eval>> = dispatchq \o W
    BY <1>1, <1>3, Zenon
  <2>2. (batch \o dispatchq) \o W = batch \o (dispatchq \o W)
    BY <1>1, <1>3, Zenon
  <2> QED
    BY <1>2, <2>1, <2>2, Zenon DEF Dispatched
<1>5. Dispatched \in Seq(Functions)
  BY <1>1 DEF Dispatched
<1>6. /\ DOMAIN W = 1..Len(work) + 1 /\ DOMAIN work = 1..Len(work) /\ Len(work) \in Nat
      /\ \A j \in DOMAIN work : W[j] = work[j]
      /\ W[Len(work) + 1] = Eval
  BY <1>1
<1> QED
  BY <1>1, <1>4, <1>5, <1>6

\* A call that chooses what the App made active.
LEMMA FollowChosen ==
  ASSUME TypeOK, NEW work \in Seq(Functions), Call(work), UNCHANGED browserActive,
         NEW k \in DOMAIN work, Chooses(work[k]), work[k].id = activeTab',
         \A j \in DOMAIN work : j > k => work[j] = Eval
  PROVE  FollowInv'
<1> DEFINE W == work \o <<Eval>>
<1>1. /\ Dispatched' = Dispatched \o W /\ Dispatched \in Seq(Functions) /\ W \in Seq(Functions)
      /\ DOMAIN W = 1..Len(work) + 1 /\ DOMAIN work = 1..Len(work) /\ Len(work) \in Nat
      /\ \A j \in DOMAIN work : W[j] = work[j]
      /\ W[Len(work) + 1] = Eval
  BY CallAppends
<1> HIDE DEF W
<1>2. k \in DOMAIN W /\ W[k] = work[k]
  BY <1>1
<1>3. \A j \in DOMAIN W : j > k => W[j] = Eval
  <2>1. \A j \in DOMAIN W : j \in DOMAIN work \/ j = Len(work) + 1
    BY <1>1
  <2> QED
    BY <1>1, <2>1
<1>4. ~Chooses(Eval) /\ Eval.fn # "destroy"
  BY DEF Chooses, Eval
<1>5. Leads(Dispatched \o W, browserActive, W[k].id)
  BY <1>1, <1>2, <1>3, <1>4, LeadsChosen
<1>6. Leads(Dispatched', browserActive', activeTab')
  BY <1>1, <1>2, <1>5
<1> QED
  BY <1>6 DEF FollowInv, Leads, Ends, Chooses

\* A call that chooses nothing and destroys the active tab's view only if that goes.
LEMMA FollowKept ==
  ASSUME TypeOK, FollowInv, NEW work \in Seq(Functions), Call(work), UNCHANGED browserActive,
         \A j \in DOMAIN work : ~Chooses(work[j]),
         unshown' \/ (/\ ~unshown
                      /\ activeTab' = IF \E j \in DOMAIN work : work[j] = Destroy(activeTab)
                                      THEN Nobody ELSE activeTab)
  PROVE  FollowInv'
<1> DEFINE W == work \o <<Eval>>
<1>1. /\ Dispatched' = Dispatched \o W /\ Dispatched \in Seq(Functions) /\ W \in Seq(Functions)
      /\ DOMAIN W = 1..Len(work) + 1 /\ DOMAIN work = 1..Len(work) /\ Len(work) \in Nat
      /\ \A j \in DOMAIN work : W[j] = work[j]
      /\ W[Len(work) + 1] = Eval
  BY CallAppends
<1> HIDE DEF W
<1>2. CASE unshown'
  BY <1>2 DEF FollowInv
<1>3. CASE ~unshown'
  <2>1. Leads(Dispatched, browserActive, activeTab)
    BY <1>3 DEF FollowInv
  <2>2. \A j \in DOMAIN W : j \in DOMAIN work \/ (j = Len(work) + 1 /\ W[j] = Eval)
    BY <1>1
  <2>3. ~Chooses(Eval) /\ \A id : Eval # Destroy(id)
    BY DEF Chooses, Eval, Destroy
  <2>4. \A j \in DOMAIN W : ~Chooses(W[j])
    BY <1>1, <2>2, <2>3
  <2>5. (\E j \in DOMAIN W : W[j] = Destroy(activeTab))
          <=> \E j \in DOMAIN work : work[j] = Destroy(activeTab)
    BY <1>1, <2>2, <2>3
  <2>6. activeTab' = IF \E j \in DOMAIN W : W[j] = Destroy(activeTab) THEN Nobody ELSE activeTab
    BY <1>3, <2>5
  <2>7. Leads(Dispatched \o W, browserActive, activeTab')
    BY <1>1, <2>1, <2>4, <2>6, LeadsKept
  <2>8. Leads(Dispatched', browserActive', activeTab')
    BY <1>1, <2>7
  <2> QED
    BY <2>8 DEF FollowInv, Leads, Ends, Chooses
<1> QED
  BY <1>2, <1>3

\* What the bindings dispatch: what it chooses at its end, if anything.
LEMMA ChoosingWork ==
  /\ DOMAIN <<>> = {} /\ <<>> \in Seq(Functions)
  /\ \A f \in Functions : /\ <<Eval, f>> \in Seq(Functions) /\ DOMAIN <<Eval, f>> = {1, 2}
                          /\ <<Eval, f>>[2] = f
  /\ \A work \in ShellWork : /\ work \in Seq(Functions) /\ 1 \in DOMAIN work /\ work[1] = HideAll
                             /\ \A j \in DOMAIN work : j > 1 => work[j] = Eval
  /\ \A id \in IDs : /\ DestroyWork(id) \in Seq(Functions) /\ Len(DestroyWork(id)) = 1
                     /\ DOMAIN DestroyWork(id) = {1} /\ DestroyWork(id)[1] = Destroy(id)
  /\ Chooses(HideAll) /\ HideAll.id = Nobody
  /\ \A id : /\ Chooses(Open(id)) /\ Open(id).id = id /\ Chooses(Select(id)) /\ Select(id).id = id
             /\ ~Chooses(Destroy(id))
  /\ \A i, j : Destroy(i) = Destroy(j) => i = j
<1> USE FunctionFacts
<1>1. DOMAIN <<>> = {} /\ <<>> \in Seq(Functions)
  OBVIOUS
<1>2. ASSUME NEW f \in Functions
      PROVE  /\ <<Eval, f>> \in Seq(Functions) /\ DOMAIN <<Eval, f>> = {1, 2} /\ <<Eval, f>>[2] = f
  OBVIOUS
<1>3. ASSUME NEW work \in ShellWork
      PROVE  /\ work \in Seq(Functions) /\ 1 \in DOMAIN work /\ work[1] = HideAll
             /\ \A j \in DOMAIN work : j > 1 => work[j] = Eval
  <2>1. CASE work = <<HideAll>>
    BY <2>1
  <2>2. CASE work = <<HideAll, Eval>>
    <3>1. work \in Seq(Functions) /\ DOMAIN work = {1, 2} /\ work[1] = HideAll /\ work[2] = Eval
      BY <2>2
    <3> QED
      BY <3>1
  <2> QED
    BY <2>1, <2>2 DEF ShellWork
<1>4. ASSUME NEW id \in IDs
      PROVE  /\ DestroyWork(id) \in Seq(Functions) /\ Len(DestroyWork(id)) = 1
             /\ DOMAIN DestroyWork(id) = {1} /\ DestroyWork(id)[1] = Destroy(id)
  BY DEF DestroyWork
<1>5. Chooses(HideAll) /\ HideAll.id = Nobody
  BY DEF Chooses, HideAll
<1>6. ASSUME NEW id
      PROVE  /\ Chooses(Open(id)) /\ Open(id).id = id /\ Chooses(Select(id)) /\ Select(id).id = id
             /\ ~Chooses(Destroy(id))
  BY DEF Chooses, Open, Select, Destroy
<1>7. \A i, j : Destroy(i) = Destroy(j) => i = j
  BY DEF Destroy
<1> QED
  BY <1>1, <1>2, <1>3, <1>4, <1>5, <1>6, <1>7

\* Two queues put together.
LEMMA ConcatFacts ==
  ASSUME NEW queue \in Seq(Functions), NEW work \in Seq(Functions)
  PROVE  /\ queue \o work \in Seq(Functions) /\ DOMAIN (queue \o work) = 1..Len(queue) + Len(work)
         /\ Len(work) \in Nat /\ DOMAIN work = 1..Len(work)
         /\ \A j \in 1..Len(work) : (queue \o work)[Len(queue) + j] = work[j]
OBVIOUS

\* The same behind the destruction of a closed tab.
LEMMA FollowClosing ==
  ASSUME TypeOK, NEW id \in IDs, NEW work \in Seq(Functions), Call(DestroyWork(id) \o work),
         UNCHANGED browserActive,
         NEW k \in DOMAIN work, Chooses(work[k]), work[k].id = activeTab',
         \A j \in DOMAIN work : j > k => work[j] = Eval
  PROVE  FollowInv'
<1> DEFINE all == DestroyWork(id) \o work
<1>1. Call(all)
  OBVIOUS
<1>2. /\ all \in Seq(Functions) /\ Len(work) \in Nat /\ DOMAIN work = 1..Len(work)
      /\ DOMAIN all = 1..1 + Len(work)
      /\ \A j \in 1..Len(work) : all[1 + j] = work[j]
  <2> DEFINE D == DestroyWork(id)
  <2>1. D \in Seq(Functions) /\ Len(D) = 1
    BY ChoosingWork
  <2> HIDE DEF D
  <2>2. /\ D \o work \in Seq(Functions) /\ DOMAIN (D \o work) = 1..Len(D) + Len(work)
        /\ Len(work) \in Nat /\ DOMAIN work = 1..Len(work)
        /\ \A j \in 1..Len(work) : (D \o work)[Len(D) + j] = work[j]
    BY <2>1, ConcatFacts, Zenon
  <2> QED
    BY <2>1, <2>2 DEF D
<1> HIDE DEF all
<1>3. k + 1 \in DOMAIN all /\ all[k + 1] = work[k]
  BY <1>2
<1>4. \A j \in DOMAIN all : j > k + 1 => all[j] = Eval
  <2>1. \A j \in DOMAIN all : j > k + 1 =>
          j - 1 \in DOMAIN work /\ j - 1 > k /\ all[j] = work[j - 1]
    BY <1>2
  <2> QED
    BY <2>1
<1>5. k + 1 \in DOMAIN all /\ Chooses(all[k + 1]) /\ all[k + 1].id = activeTab'
  BY <1>3
<1> QED
  BY <1>1, <1>2, <1>4, <1>5, FollowChosen

\* Every binding that makes a tab active and is to show it dispatches what shows it last.
LEMMA FollowCall ==
  ASSUME TypeOK, FollowInv, HandleCall
  PROVE  FollowInv'
<1> USE ChoosingWork, FunctionFacts
<1>0. /\ tabs \subseteq IDs /\ activeTab \in tabs \cup {Nobody} /\ Nobody \notin IDs
      /\ nextID \in 1..MaxTabs + 1 /\ MaxTabs \in Nat /\ unshown \in BOOLEAN
  BY WindowsAssumption DEF TypeOK, IDs
<1>1. UNCHANGED browserActive
  BY DEF HandleCall, NewBrowserTab, NavigateBrowser, ShowShell, RegisterLocalTab, SetChromeHeight,
         UseActiveView, SwitchTab, CloseTab, ForgetTab, RegisterClosedTab, viewVars
<1>2. ASSUME NEW id \in IDs, NEW f \in {Open(id), Select(id)}, Call(<<Eval, f>>), activeTab' = id
      PROVE  FollowInv'
  <2> DEFINE work == <<Eval, f>>
  <2>1. work \in Seq(Functions) /\ DOMAIN work = {1, 2} /\ work[2] = f /\ Chooses(f) /\ f.id = id
    BY <1>2
  <2>2. Call(work)
    BY <1>2
  <2> HIDE DEF work
  <2>3. \A j \in DOMAIN work : j > 2 => work[j] = Eval
    BY <2>1
  <2> QED
    BY <1>1, <1>2, <2>1, <2>2, <2>3, FollowChosen
<1>3. ASSUME NEW work \in ShellWork, Call(work), activeTab' = Nobody PROVE FollowInv'
  BY <1>1, <1>3, FollowChosen
<1>4. ASSUME Call(<<>>), unshown' \/ (~unshown /\ UNCHANGED activeTab) PROVE FollowInv'
  <2>1. \A j \in DOMAIN <<>> : ~Chooses(<<>>[j])
    OBVIOUS
  <2>2. ~\E j \in DOMAIN <<>> : <<>>[j] = Destroy(activeTab)
    OBVIOUS
  <2> QED
    BY <1>1, <1>4, <2>1, <2>2, FollowKept
<1>5. ASSUME NEW id \in IDs, Call(DestroyWork(id)), activeTab' = Forgotten(id), UNCHANGED unshown
      PROVE  FollowInv'
  <2> DEFINE work == DestroyWork(id)
  <2>1. work \in Seq(Functions) /\ DOMAIN work = {1} /\ work[1] = Destroy(id) /\ Call(work)
    BY <1>5
  <2> HIDE DEF work
  <2>2. \A j \in DOMAIN work : ~Chooses(work[j])
    BY <2>1
  <2>3. activeTab' = IF \E j \in DOMAIN work : work[j] = Destroy(activeTab) THEN Nobody ELSE activeTab
    BY <1>5, <2>1 DEF Forgotten
  <2>4. CASE unshown
    BY <1>5, <2>4 DEF FollowInv
  <2>5. CASE ~unshown
    BY <1>1, <1>5, <2>1, <2>2, <2>3, <2>5, FollowKept
  <2> QED
    BY <2>4, <2>5
<1>6. CASE NewBrowserTab
  <2>1. nextID \in IDs /\ Call(<<Eval, Open(nextID)>>) /\ activeTab' = nextID
    BY <1>0, <1>6 DEF NewBrowserTab, IDs
  <2> QED
    BY <1>2, <2>1
<1>7. CASE NavigateBrowser
  <2>1. CASE activeTab = Nobody
    <3>1. Call(<<>>) /\ unshown' = unshown /\ UNCHANGED activeTab
      BY <1>0, <1>7, <2>1 DEF NavigateBrowser
    <3> QED
      BY <1>0, <1>4, <3>1
  <2>2. CASE activeTab # Nobody
    BY <1>0, <1>2, <1>7, <2>2 DEF NavigateBrowser
  <2> QED
    BY <2>1, <2>2
<1>8. CASE ShowShell
  BY <1>3, <1>8 DEF ShowShell
<1>9. CASE RegisterLocalTab
  <2>1. CASE unshown \/ activeTab # Nobody
    <3>1. Call(<<>>) /\ unshown'
      BY <1>9, <2>1 DEF RegisterLocalTab
    <3> QED
      BY <1>4, <3>1
  <2>2. CASE ~unshown /\ activeTab = Nobody
    <3>1. Call(<<>>) /\ UNCHANGED activeTab
      BY <1>9, <2>2 DEF RegisterLocalTab
    <3> QED
      BY <1>4, <2>2, <3>1
  <2> QED
    BY <2>1, <2>2
<1>10. CASE SetChromeHeight \/ UseActiveView
  <2>1. Call(<<>>) /\ UNCHANGED <<activeTab, unshown>>
    BY <1>10 DEF SetChromeHeight, UseActiveView, appVars
  <2> QED
    BY <1>0, <1>4, <2>1
<1>11. ASSUME NEW id \in IDs, SwitchTab(id) PROVE FollowInv'
  BY <1>2, <1>11 DEF SwitchTab
<1>12. ASSUME NEW id \in IDs, CloseTab(id) PROVE FollowInv'
  <2>1. CASE activeTab # id /\ Call(DestroyWork(id)) /\ UNCHANGED <<activeTab, unshown>>
    BY <1>5, <2>1 DEF Forgotten
  <2>2. CASE activeTab' = Nobody /\ \E work \in ShellWork : Call(DestroyWork(id) \o work)
    <3>1. PICK work \in ShellWork : Call(DestroyWork(id) \o work)
      BY <2>2
    <3>2. /\ work \in Seq(Functions) /\ 1 \in DOMAIN work /\ Chooses(work[1])
          /\ work[1].id = activeTab' /\ \A j \in DOMAIN work : j > 1 => work[j] = Eval
      BY <2>2
    <3> QED
      BY <1>1, <3>1, <3>2, FollowClosing
  <2>3. CASE activeTab' \in tabs' /\ Call(DestroyWork(id) \o <<Eval, Select(activeTab')>>)
    <3> DEFINE work == <<Eval, Select(activeTab')>>
    <3>1. activeTab' \in IDs
      BY <1>0, <1>12, <2>3 DEF CloseTab
    <3>2. Select(activeTab') \in Functions
      BY <3>1
    <3>3. work \in Seq(Functions) /\ DOMAIN work = {1, 2} /\ work[2] = Select(activeTab')
      BY <3>2
    <3>4. Call(DestroyWork(id) \o work)
      BY <2>3
    <3> HIDE DEF work
    <3>5. \A j \in DOMAIN work : j > 2 => work[j] = Eval
      BY <3>3
    <3> QED
      BY <1>1, <3>3, <3>4, <3>5, FollowClosing
  <2> QED
    BY <1>12, <2>1, <2>2, <2>3 DEF CloseTab
<1>13. ASSUME NEW id \in IDs, ForgetTab(id) PROVE FollowInv'
  BY <1>5, <1>13 DEF ForgetTab
<1>14. ASSUME NEW id \in IDs, RegisterClosedTab(id) PROVE FollowInv'
  BY <1>14 DEF RegisterClosedTab, FollowInv
<1> QED
  BY <1>6, <1>7, <1>8, <1>9, <1>10, <1>11, <1>12, <1>13, <1>14 DEF HandleCall

\* Messages and WebView2 choose nothing, and leave what was dispatched in its order.
LEMMA FollowLoop ==
  ASSUME TypeOK, FollowInv,
         \/ ShellCalls \/ HostResized \/ HostDestroyed \/ TakeApp \/ DropApp \/ RunEnds
         \/ EmbedQuits \/ EnvironmentCompleted \/ ControllerCompleted \/ UNCHANGED vars
  PROVE  FollowInv'
<1> USE DEF appVars, embedVars, viewVars, postVars
<1>1. UNCHANGED <<activeTab, unshown, browserActive>>
  BY DEF ShellCalls, HostResized, HostDestroyed, TakeApp, DropApp, RunEnds, EmbedQuits,
         EnvironmentCompleted, ControllerCompleted, vars
<1>2. Dispatched' = Dispatched
  <2>1. CASE TakeApp
    <3>1. batch = <<>> /\ batch' = dispatchq /\ dispatchq' = <<>>
      BY <2>1 DEF TakeApp, Waiting
    <3>2. <<>> \o dispatchq = dispatchq /\ dispatchq \o <<>> = dispatchq
      BY ConcatEmptySeq DEF TypeOK
    <3> QED
      BY <3>1, <3>2 DEF Dispatched
  <2>2. CASE ~TakeApp
    <3>1. UNCHANGED <<batch, dispatchq>>
      BY <2>2 DEF ShellCalls, HostResized, HostDestroyed, DropApp, RunEnds, EmbedQuits,
         EnvironmentCompleted, ControllerCompleted, vars
    <3> QED
      BY <3>1 DEF Dispatched
  <2> QED
    BY <2>1, <2>2
<1> QED
  BY <1>1, <1>2 DEF FollowInv, Leads, Ends, Chooses

\* The first function has run.
LEMMA FollowAdvances ==
  ASSUME TypeOK, FollowInv, batch # <<>>, batch' = Tail(batch),
         UNCHANGED <<dispatchq, activeTab, unshown>>,
         browserActive' = IF Chooses(Head(batch)) THEN Head(batch).id
                          ELSE IF Head(batch) = Destroy(browserActive) THEN Nobody
                          ELSE browserActive
  PROVE  FollowInv'
<1> DEFINE Q == batch \o dispatchq
           R == Tail(batch) \o dispatchq
<1>0. batch \in Seq(Functions) /\ dispatchq \in Seq(Functions)
  BY DEF TypeOK
<1>1. /\ Len(batch) \in Nat \ {0} /\ Len(dispatchq) \in Nat
      /\ Tail(batch) \in Seq(Functions) /\ Len(Tail(batch)) = Len(batch) - 1
      /\ Q \in Seq(Functions) /\ R \in Seq(Functions)
  BY <1>0
<1>2. /\ Len(Q) = Len(batch) + Len(dispatchq) /\ Len(R) = Len(Q) - 1
      /\ DOMAIN Q = 1..Len(Q) /\ DOMAIN R = 1..Len(R) /\ Q[1] = Head(batch)
  BY <1>0, <1>1
<1>3. \A i \in 1..Len(R) : R[i] = Q[i + 1]
  BY <1>0, <1>1, <1>2
<1>4. Dispatched' = R /\ Dispatched = Q
  BY DEF Dispatched
<1> HIDE DEF Q, R
<1>5. Q # <<>> /\ R = Tail(Q)
  <2>1. Q # <<>>
    BY <1>1, <1>2
  <2>2. Tail(Q) \in Seq(Functions) /\ Len(Tail(Q)) = Len(Q) - 1
    BY <1>1, <2>1
  <2>3. \A i \in 1..Len(R) : Tail(Q)[i] = Q[i + 1]
    BY <1>1, <1>2, <2>1
  <2> QED
    BY <1>1, <1>2, <1>3, <2>1, <2>2, <2>3, SeqEqual
<1>6. CASE unshown
  BY <1>6 DEF FollowInv
<1>7. CASE ~unshown
  <2>1. Leads(Q, browserActive, activeTab)
    BY <1>4, <1>7 DEF FollowInv
  <2>2. browserActive' = IF Chooses(Q[1]) THEN Q[1].id
                         ELSE IF Q[1] = Destroy(browserActive) THEN Nobody ELSE browserActive
    BY <1>2
  <2>3. Leads(Tail(Q), browserActive', activeTab)
    BY <1>1, <1>5, <2>1, <2>2, LeadsTail
  <2>4. Leads(Dispatched', browserActive', activeTab')
    BY <1>4, <1>5, <2>3
  <2> QED
    BY <2>4 DEF FollowInv, Leads, Ends, Chooses
<1> QED
  BY <1>6, <1>7

\* A dispatched function leaves the manager at what it chose, whether its view was made
\* or not.
LEMMA FollowWork ==
  ASSUME TypeOK, IInv, FollowInv, Work
  PROVE  FollowInv'
<1> USE DEF appVars, embedVars, viewVars, postVars
<1>0. UNCHANGED <<activeTab, unshown, dispatchq>>
  BY DEF Work, CreateView, CreateFails, EmbedFails, EmbedSucceeds, RunFunction
<1>1. CASE CreateView
  <2>1. UNCHANGED <<batch, browserActive>>
    BY <1>1 DEF CreateView
  <2> QED
    BY <1>0, <2>1 DEF FollowInv, Dispatched, Leads, Ends, Chooses
<1>2. CASE CreateFails
  <2>1. /\ batch # <<>> /\ batch' = Tail(batch) /\ Head(batch).fn \in {"open", "select"}
        /\ browserActive' = Head(batch).id
    BY <1>2 DEF CreateFails, Show
  <2>2. Chooses(Head(batch))
    BY <2>1 DEF Chooses
  <2> QED
    BY <1>0, <2>1, <2>2, FollowAdvances
<1>3. CASE EmbedFails \/ EmbedSucceeds
  <2>1. embedding # Nobody /\ batch' = Tail(batch) /\ browserActive' = embedding
    BY <1>3 DEF EmbedFails, EmbedSucceeds, Show
  <2>2. batch # <<>> /\ Head(batch).fn \in {"open", "select"} /\ Head(batch).id = embedding
    BY <2>1 DEF IInv, EmbedInv, Open, Select
  <2>3. Chooses(Head(batch))
    BY <2>2 DEF Chooses
  <2> QED
    BY <1>0, <2>1, <2>2, <2>3, FollowAdvances
<1>4. CASE RunFunction
  <2> DEFINE f == Head(batch)
  <2>1. batch # <<>> /\ batch' = Tail(batch)
    BY <1>4 DEF RunFunction
  <2>2. f \in Functions
    BY <2>1 DEF TypeOK
  <2>3. browserActive' = IF Chooses(f) THEN f.id
                         ELSE IF f = Destroy(browserActive) THEN Nobody ELSE browserActive
    <3>1. CASE f.fn = "eval" /\ UNCHANGED browserActive
      BY <3>1 DEF Chooses, Destroy
    <3>2. CASE f.fn \in {"open", "select"} /\ browserActive' = f.id
      BY <3>2 DEF Chooses
    <3>3. CASE f.fn = "hide" /\ browserActive' = Nobody
      <4>1. f.id = Nobody
        BY <2>2, <3>3 DEF Functions
      <4> QED
        BY <3>3, <4>1 DEF Chooses
    <3>4. CASE /\ f.fn = "destroy"
               /\ browserActive' = IF browserActive = f.id THEN Nobody ELSE browserActive
      <4>1. f = Destroy(f.id) /\ ~Chooses(f)
        BY <2>2, <3>4, FunctionFacts DEF Chooses
      <4>2. f = Destroy(browserActive) <=> browserActive = f.id
        BY <4>1 DEF Destroy
      <4> QED
        BY <3>4, <4>1, <4>2
    <3> QED
      BY <1>4, <3>1, <3>2, <3>3, <3>4 DEF RunFunction, Show
  <2> QED
    BY <1>0, <2>1, <2>3, FollowAdvances
<1> QED
  BY <1>1, <1>2, <1>3, <1>4 DEF Work

\* The invariant of the views, with the types.
THEOREM Invariance == Spec => [](TypeOK /\ IInv)
<1>1. Init => TypeOK /\ IInv
  <2> SUFFICES ASSUME Init PROVE TypeOK /\ IInv
    OBVIOUS
  <2>1. DOMAIN views = {} /\ windows = {} /\ visible = {} /\ embedding = Nobody
    BY DEF Init
  <2>2. TypeOK
    <3>1. /\ nextID \in 1..MaxTabs + 1 /\ sent \in 0..MaxCalls /\ calls \in 0..sent /\ app \in Nat
          /\ nextWindow \in Nat \ {0} /\ newWindow \in 0..nextWindow - 1
      BY WindowsAssumption DEF Init
    <3>2. dispatchq \in Seq(Functions) /\ batch \in Seq(Functions)
      BY DEF Init
    <3>3. {unshown, unmade, shellFull, closed, blocked, ended, quit} \subseteq BOOLEAN
      BY DEF Init
    <3> QED
      BY <2>1, <3>1, <3>2, <3>3 DEF Init, TypeOK
  <2>3. Dispatched = <<>>
    BY DEF Init, Dispatched
  <2>4. QueueInv
    BY <2>1, <2>3 DEF QueueInv, Covered
  <2>5. LayoutInv
    BY DEF Init, LayoutInv
  <2> QED
    BY <2>1, <2>2, <2>4, <2>5 DEF Init, IInv, EmbedInv, ViewWindowsInv, WindowsAreOwned, LayoutInv,
       ActiveViewInv, VisibleInv
<1>2. TypeOK /\ IInv /\ [Next]_vars => TypeOK' /\ IInv'
  BY HandleCallStep, LoopStep, WorkStep DEF Next, Loop, WebView2
<1> QED
  BY <1>1, <1>2, PTL DEF Spec

\* No child window is left behind by newNativeContentView, Ensure or Destroy, however far
\* the creation of a view came.
THEOREM NoWindowLeaks == Spec => []WindowsAreOwned
<1>1. IInv => WindowsAreOwned
  BY DEF IInv
<1> QED
  BY <1>1, Invariance, PTL

\* Between two functions the shell makes room for one view, which exists and is alone on
\* the screen, or for the one that Ensure could not make (nativeContentManager.Show,
\* HideAll, Destroy and resizeAll).
THEOREM LayoutIsRight == Spec => []LayoutFollowsViews
<1>1. TypeOK /\ IInv => LayoutFollowsViews
  <2> SUFFICES ASSUME TypeOK, IInv, Settled, ~closed PROVE LayoutFollowsViews
    BY DEF LayoutFollowsViews
  <2>1. /\ shellFull = (browserActive = Nobody) /\ shellFull \in BOOLEAN
        /\ visible = {views[id] : id \in DOMAIN views \cap {browserActive}}
        /\ \A id \in DOMAIN views : views[id] \in windows
        /\ browserActive # Nobody => unmade \/ browserActive \in DOMAIN views
        /\ Nobody \notin DOMAIN views
    BY WindowsAssumption
       DEF TypeOK, IDs, IInv, LayoutInv, VisibleInv, ViewWindowsInv, ActiveViewInv
  <2>2. CASE browserActive = Nobody
    BY <2>1, <2>2 DEF LayoutFollowsViews
  <2>3. CASE browserActive \in DOMAIN views
    <3>1. visible = {views[browserActive]} /\ ~shellFull
      BY <2>1, <2>3
    <3> QED
      BY <2>1, <2>3, <3>1 DEF LayoutFollowsViews
  <2>4. CASE browserActive # Nobody /\ browserActive \notin DOMAIN views
    BY <2>1, <2>4 DEF LayoutFollowsViews
  <2> QED
    BY <2>2, <2>3, <2>4
<1> QED
  BY <1>1, Invariance, PTL

\* When everything dispatched has run, no closed tab has a view (destroyContentOnUI, which
\* is dispatched behind whatever may still make it).
THEOREM ClosedTabsHaveNoView == Spec => []ViewsAreOpen
<1>1. TypeOK /\ IInv => ViewsAreOpen
  <2> SUFFICES ASSUME TypeOK, IInv, batch = <<>>, dispatchq = <<>> PROVE DOMAIN views \subseteq tabs
    BY DEF ViewsAreOpen, Quiet
  <2>1. Dispatched = <<>>
    BY DEF Dispatched
  <2> QED
    BY <2>1 DEF IInv, QueueInv
<1> QED
  BY <1>1, Invariance, PTL
\* Once everything dispatched has run, the manager shows the App's active tab (newBrowserTab,
\* navigateBrowser, switchTab, closeTab, goHome and clearActiveTab, whose functions run
\* after the next bindings have been called).
THEOREM ManagerShowsActive == Spec => []ManagerFollowsApp
<1>1. Init => FollowInv
  <2> SUFFICES ASSUME Init PROVE Leads(Dispatched, browserActive, activeTab)
    BY DEF FollowInv
  <2>1. Dispatched = <<>> /\ browserActive = Nobody /\ activeTab = Nobody
    BY DEF Init, Dispatched
  <2> QED
    BY <2>1 DEF Leads, Ends
<1>2. TypeOK /\ IInv /\ FollowInv /\ [Next]_vars => FollowInv'
  BY FollowCall, FollowLoop, FollowWork DEF Next, Loop, WebView2
<1>3. FollowInv => ManagerFollowsApp
  <2> SUFFICES ASSUME FollowInv, batch = <<>>, dispatchq = <<>>, ~unshown
               PROVE  browserActive = activeTab
    BY DEF ManagerFollowsApp, Quiet
  <2>1. Dispatched = <<>>
    BY DEF Dispatched
  <2> QED
    BY <2>1 DEF FollowInv, Leads, Ends
<1> QED
  BY <1>1, <1>2, <1>3, Invariance, PTL DEF Spec
=============================================================================
