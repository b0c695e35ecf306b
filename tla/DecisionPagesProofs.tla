------------------------- MODULE DecisionPagesProofs -------------------------
(***************************************************************************)
(* What the pages that take decisions guarantee for any number of          *)
(* requests, stages, decisions, visits and filters.                        *)
(***************************************************************************)
EXTENDS DecisionPages, TLAPS

\* Calls of the ledger are numbered, and the last one asks for the filter shown.
LedgerSound ==
    \A c \in ledgerCalls : c[1] <= changes /\ (c[1] = changes => c[2] = statusFilter)

\* A second read follows a decision of this page that was accepted.
ReadsSound ==
    \A g \in reads : g[1] # 0 => /\ g[1] \in DOMAIN decisions
                                 /\ decisions[g[1]].page = "request"
                                 /\ decisions[g[1]].client = "ok"

\* Nothing a page knows is ahead of the server, and what was applied is closed.
StageSound ==
    /\ \A t \in tasks : t[2] <= stage[t[1]]
    /\ selected # NoTask => selected[2] <= stage[selected[1]]
    /\ request <= stage[Viewed]
    /\ \A g \in reads : g[2] <= stage[Viewed]
    /\ \A i \in DOMAIN decisions :
          /\ decisions[i].shown[2] <= stage[decisions[i].shown[1]]
          /\ decisions[i].server = "applied" => IsClosed(decisions[i].shown)
    /\ tasksLoading => tasks = {}

\* Comments are numbered by the decision they are written for, and the last
\* decision of the tasks page is the only one that may be unanswered.
CommentSound ==
    /\ comment <= Len(decisions) + 1
    /\ \A i \in DOMAIN decisions : decisions[i].page = "tasks" =>
          /\ decisions[i].note <= i
          /\ decisions[i].client = "pending" =>
                \A j \in DOMAIN decisions : i < j => decisions[j].page # "tasks"
          /\ decisions[i].client = "ok" /\ decisions[i].note # 0 =>
                comment # decisions[i].note

\* The list of requests, the two pages and the decisions they have sent.
LedgerInv == LedgerTypeOK /\ LedgerSound /\ RowsMatchFilter
Inv == /\ TypeOK /\ LedgerInv /\ ReadsSound /\ StageSound /\ CommentSound
       /\ OneDecisionAtATime /\ OneSubmissionAtATime /\ CommentSentOnce

-----------------------------------------------------------------------------
\* The list of requests.

\* Answers come in any order: only the one to the last call, or none, is taken
\* for granted.
LEMMA LedgerStep ==
  ASSUME LedgerInv, LedgerNext
  PROVE  LedgerInv'
<1> USE DEF LedgerInv, LedgerTypeOK
<1>1. changes \in Nat /\ MaxChanges \in Nat /\ NoRows \notin Filters
  BY LedgerAssumption
<1>2. \A c \in ledgerCalls : c[1] \in 0 .. MaxChanges /\ c[2] \in Filters
  OBVIOUS
<1>3. ASSUME NEW f \in Filters, ChangeFilter(f) PROVE LedgerInv'
  <2>1. /\ statusFilter' = f /\ changes' = changes + 1 /\ changes < MaxChanges
        /\ ledgerCalls' = ledgerCalls \cup {<<changes + 1, f>>} /\ disturbed' = FALSE
        /\ UNCHANGED <<rows, ledgerLoading>>
    BY <1>3 DEF ChangeFilter
  <2>2. changes' \in 0 .. MaxChanges /\ <<changes + 1, f>> \in (0 .. MaxChanges) \X Filters
    BY <1>1, <2>1
  <2>3. LedgerTypeOK'
    BY <2>1, <2>2
  <2>4. LedgerSound'
    BY <1>1, <1>2, <2>1 DEF LedgerSound
  <2>5. RowsMatchFilter'
    <3>1. \E c \in ledgerCalls' : c[1] = changes'
      <4>1. <<changes + 1, f>> \in ledgerCalls' /\ <<changes + 1, f>>[1] = changes'
        BY <2>1
      <4> QED
        BY <4>1
    <3> QED
      BY <3>1 DEF RowsMatchFilter
  <2> QED
    BY <2>3, <2>4, <2>5
<1>4. ASSUME NEW c \in ledgerCalls, RowsArrive(c) PROVE LedgerInv'
  <2>1. LedgerTypeOK' /\ LedgerSound'
    BY <1>2, <1>4 DEF RowsArrive, LedgerSound
  <2>2. RowsMatchFilter'
    <3>1. /\ ledgerCalls' = ledgerCalls \ {c} /\ rows' = c[2]
          /\ disturbed' = (disturbed \/ (c[1] < changes /\ \A d \in ledgerCalls : d[1] # changes))
          /\ UNCHANGED <<statusFilter, changes>>
      BY <1>4 DEF RowsArrive
    <3>2. CASE c[1] = changes
      BY <3>1, <3>2 DEF RowsMatchFilter, LedgerSound
    <3>3. CASE c[1] # changes
      <4>1. c[1] < changes
        BY <1>1, <1>2, <3>3 DEF LedgerSound
      <4>2. (\A d \in ledgerCalls' : d[1] # changes) => \A d \in ledgerCalls : d[1] # changes
        BY <3>1, <3>3
      <4> QED
        BY <3>1, <4>1, <4>2 DEF RowsMatchFilter
    <3> QED
      BY <3>2, <3>3
  <2> QED
    BY <2>1, <2>2
<1>5. ASSUME NEW c \in ledgerCalls, RowsFail(c) PROVE LedgerInv'
  <2>1. LedgerTypeOK' /\ LedgerSound'
    BY <1>2, <1>5 DEF RowsFail, LedgerSound
  <2>2. RowsMatchFilter'
    <3>1. /\ ledgerCalls' = ledgerCalls \ {c} /\ UNCHANGED <<statusFilter, rows, changes>>
          /\ disturbed' = (disturbed \/ c[1] = changes)
      BY <1>5 DEF RowsFail
    <3>2. CASE c[1] = changes
      BY <3>1, <3>2 DEF RowsMatchFilter
    <3>3. CASE c[1] # changes
      <4>1. (\A d \in ledgerCalls' : d[1] # changes) => \A d \in ledgerCalls : d[1] # changes
        BY <3>1, <3>3
      <4> QED
        BY <3>1, <3>3, <4>1 DEF RowsMatchFilter
    <3> QED
      BY <3>2, <3>3
  <2> QED
    BY <2>1, <2>2
<1> QED
  BY <1>3, <1>4, <1>5 DEF LedgerNext

\* The list as it is mounted.
LEMMA LedgerMount ==
  ASSUME statusFilter = AllNodes, rows = NoRows, ledgerLoading = TRUE,
         ledgerCalls = {<<0, AllNodes>>}, changes = 0, disturbed = FALSE
  PROVE  LedgerInv
<1>1. LedgerTypeOK
  <2>1. 0 \in 0 .. MaxChanges /\ AllNodes \in Filters
    BY LedgerAssumption
  <2>2. <<0, AllNodes>> \in (0 .. MaxChanges) \X Filters
    BY <2>1
  <2> QED
    BY <2>1, <2>2 DEF LedgerTypeOK
<1>2. LedgerSound /\ RowsMatchFilter
  BY DEF LedgerSound, RowsMatchFilter
<1> QED
  BY <1>1, <1>2 DEF LedgerInv

-----------------------------------------------------------------------------
\* Steps of the server.

\* Facts about the constants used throughout.
LEMMA ServiceFacts ==
  /\ LastStage \in Nat /\ LastStage >= 1 /\ Finalized = LastStage + 1
  /\ MaxDecisions \in Nat /\ NoTask \notin Executions /\ Viewed \in Requests
  /\ NoDetails \notin Requests
  /\ \A t \in Executions : t[1] \in Requests /\ t[2] \in Nat /\ t[2] >= 1 /\ t[2] <= LastStage
BY ServiceAssumption, RequestPageAssumption, TaskPageAssumption DEF Finalized, Executions, Stages

\* The server moves requests on and touches nothing of the pages.
LEMMA ServerStep ==
  ASSUME Inv, ServiceNext, UNCHANGED <<taskVars, requestVars, ledgerVars, mounted, visits>>
  PROVE  Inv'
<1> USE DEF Inv
<1>1. /\ stage \in [Requests -> 1 .. Finalized] /\ others \subseteq Executions
      /\ decisions \in Seq(Decision) /\ Len(decisions) \in Nat
      /\ Len(decisions) <= MaxDecisions /\ DOMAIN decisions = 1 .. Len(decisions)
      /\ \A i \in DOMAIN decisions : decisions[i] \in Decision
  BY DEF TypeOK, ServiceTypeOK
<1>2. /\ UNCHANGED <<tasks, tasksLoading, selected, details, detailCalls, comment, deciding>>
      /\ UNCHANGED <<request, requestLoading, processing, note, reads>>
      /\ UNCHANGED <<statusFilter, rows, ledgerLoading, ledgerCalls, changes, disturbed>>
  BY DEF taskVars, requestVars, ledgerVars
<1>3. /\ stage' \in [Requests -> 1 .. Finalized]
      /\ \A r \in Requests : stage'[r] >= stage[r]
      /\ others' \subseteq Executions
      /\ decisions' \in Seq(Decision) /\ Len(decisions') = Len(decisions)
      /\ DOMAIN decisions' = DOMAIN decisions
      /\ \A i \in DOMAIN decisions :
            /\ decisions'[i].page = decisions[i].page
            /\ decisions'[i].shown = decisions[i].shown
            /\ decisions'[i].note = decisions[i].note
            /\ decisions'[i].client = decisions[i].client
            /\ \/ decisions'[i].server = decisions[i].server
               \/ decisions'[i].server = "refused"
               \/ stage'[decisions[i].shown[1]] > stage[decisions[i].shown[1]]
  <2>1. ASSUME NEW i \in DOMAIN decisions, Refuse(i) PROVE <1>3
    <3> DEFINE new == [decisions[i] EXCEPT !.server = "refused"]
    <3>1. decisions' = [decisions EXCEPT ![i] = new] /\ UNCHANGED <<stage, others>>
      BY <2>1 DEF Refuse
    <3>2. /\ new \in Decision /\ new.page = decisions[i].page /\ new.shown = decisions[i].shown
          /\ new.note = decisions[i].note /\ new.client = decisions[i].client
          /\ new.server = "refused"
      BY <1>1 DEF Decision
    <3> HIDE DEF new
    <3>3. \A r \in Requests : stage[r] \in Nat
      BY <1>1, ServiceFacts
    <3> QED
      BY <1>1, <3>1, <3>2, <3>3
  <2>2. ASSUME NEW i \in DOMAIN decisions, NEW n \in After(stage[decisions[i].shown[1]]),
               Apply(i, n)
        PROVE  <1>3
    <3> DEFINE r == decisions[i].shown[1]
               new == [decisions[i] EXCEPT !.server = "applied", !.closed = <<r, stage[r]>>]
    <3>1. /\ decisions' = [decisions EXCEPT ![i] = new] /\ UNCHANGED others
          /\ stage' = [stage EXCEPT ![r] = n] /\ stage[r] \in Cleared
      BY <2>2 DEF Apply
    <3>2. r \in Requests /\ stage[r] \in Nat /\ stage[r] \in Stages
      BY <1>1, <3>1, ServiceAssumption, ServiceFacts DEF Decision, Stages
    <3>3. <<r, stage[r]>> \in Executions
      BY <3>2 DEF Executions
    <3>4. /\ new \in Decision /\ new.page = decisions[i].page /\ new.shown = decisions[i].shown
          /\ new.note = decisions[i].note /\ new.client = decisions[i].client
          /\ new.server = "applied"
      BY <1>1, <3>3 DEF Decision
    <3>5. n \in 1 .. Finalized /\ n > stage[r]
      BY <2>2, <3>2, ServiceFacts DEF After
    <3>6. \A q \in Requests : stage[q] \in Nat
      BY <1>1, ServiceFacts
    <3> HIDE DEF new
    <3> QED
      BY <1>1, <3>1, <3>2, <3>4, <3>5, <3>6
  <2>3. ASSUME NEW r \in Requests, NEW n \in After(stage[r]), OtherDecides(r, n) PROVE <1>3
    <3>1. /\ UNCHANGED decisions /\ others' = others \cup {<<r, stage[r]>>}
          /\ stage' = [stage EXCEPT ![r] = n]
      BY <2>3 DEF OtherDecides
    <3>2. \A q \in Requests : stage[q] \in Nat /\ stage[q] >= 1
      BY <1>1, ServiceFacts
    <3>3. n \in 1 .. Finalized /\ n > stage[r] /\ stage[r] \in Stages
      BY <2>3, <3>2, ServiceFacts DEF After, Stages
    <3>4. <<r, stage[r]>> \in Executions
      BY <3>3 DEF Executions
    <3>5. others' \subseteq Executions
      BY <1>1, <3>1, <3>4
    <3>6. stage' \in [Requests -> 1 .. Finalized] /\ \A q \in Requests : stage'[q] >= stage[q]
      BY <1>1, <3>1, <3>2, <3>3
    <3> HIDE DEF Executions
    <3> QED
      BY <1>1, <3>1, <3>5, <3>6
  <2> QED
    BY <2>1, <2>2, <2>3 DEF ServiceNext
<1>4. TypeOK' /\ LedgerInv'
  BY <1>1, <1>2, <1>3 DEF TypeOK, ServiceTypeOK, TaskTypeOK, RequestTypeOK, LedgerTypeOK,
     LedgerInv, LedgerSound, RowsMatchFilter
<1>5. ReadsSound' /\ CommentSound' /\ CommentSentOnce'
  BY <1>2, <1>3 DEF ReadsSound, CommentSound, CommentSentOnce
<1>6. PendingOf("tasks")' = PendingOf("tasks") /\ PendingOf("request")' = PendingOf("request")
  BY <1>3 DEF PendingOf
<1>7. OneDecisionAtATime' /\ OneSubmissionAtATime'
  BY <1>2, <1>6 DEF OneDecisionAtATime, OneSubmissionAtATime
<1>8. StageSound'
  <2>1. \A r \in Requests : stage[r] \in Nat /\ stage'[r] \in Nat /\ stage[r] <= stage'[r]
    BY <1>1, <1>3, ServiceFacts
  <2>2. \A t \in Executions : t[2] <= stage[t[1]] => t[2] <= stage'[t[1]]
    BY <2>1, ServiceFacts
  <2>3. \A t \in Executions : stage[t[1]] > t[2] => stage'[t[1]] > t[2]
    BY <2>1, ServiceFacts
  <2>4. tasks \subseteq Executions /\ selected \in Executions \cup {NoTask}
        /\ request \in Nat /\ reads \subseteq (0 .. MaxDecisions) \X (0 .. Finalized)
    BY ServiceFacts DEF TypeOK, TaskTypeOK, RequestTypeOK
  <2>5. \A i \in DOMAIN decisions : decisions[i].shown \in Executions
    BY <1>1 DEF Decision
  <2>6. \A t \in tasks' : t[2] <= stage'[t[1]]
    BY <1>2, <2>2, <2>4 DEF StageSound
  <2>7. selected' # NoTask => selected'[2] <= stage'[selected'[1]]
    BY <1>2, <2>2, <2>4 DEF StageSound
  <2>8. request' <= stage'[Viewed] /\ \A g \in reads' : g[2] <= stage'[Viewed]
    BY <1>2, <2>1, <2>4, ServiceFacts DEF StageSound
  <2>9. \A i \in DOMAIN decisions' :
          /\ decisions'[i].shown[2] <= stage'[decisions'[i].shown[1]]
          /\ decisions'[i].server = "applied" =>
                stage'[decisions'[i].shown[1]] > decisions'[i].shown[2]
    <3> SUFFICES ASSUME NEW i \in DOMAIN decisions
                 PROVE  /\ decisions[i].shown[2] <= stage'[decisions[i].shown[1]]
                        /\ decisions'[i].server = "applied" =>
                              stage'[decisions[i].shown[1]] > decisions[i].shown[2]
      BY <1>3
    <3>1. decisions[i].shown[2] <= stage[decisions[i].shown[1]]
          /\ (decisions[i].server = "applied" =>
                stage[decisions[i].shown[1]] > decisions[i].shown[2])
      BY DEF StageSound, IsClosed
    <3> QED
      BY <1>3, <2>1, <2>2, <2>3, <2>5, <3>1, ServiceFacts
  <2> QED
    BY <1>2, <2>6, <2>7, <2>8, <2>9 DEF StageSound, IsClosed
<1> QED
  BY <1>4, <1>5, <1>7, <1>8

-----------------------------------------------------------------------------
\* What the pages do with the list of decisions.

\* A click adds a decision that is not answered yet.
LEMMA SendFacts ==
  ASSUME ServiceTypeOK, NEW page \in Pages, NEW shown \in Executions,
         NEW text \in 0 .. MaxDecisions, Send(page, shown, text)
  PROVE  /\ decisions' \in Seq(Decision) /\ Len(decisions') = Len(decisions) + 1
         /\ Len(decisions') <= MaxDecisions
         /\ DOMAIN decisions' = 1 .. Len(decisions) + 1
         /\ \A i \in DOMAIN decisions : decisions'[i] = decisions[i]
         /\ LET new == decisions'[Len(decisions) + 1]
            IN  /\ new.page = page /\ new.shown = shown /\ new.note = text
                /\ new.client = "pending" /\ new.server = "waiting"
<1> DEFINE new == [page |-> page, shown |-> shown, note |-> text,
                   server |-> "waiting", client |-> "pending", closed |-> NoTask]
<1>1. decisions \in Seq(Decision) /\ Len(decisions) \in Nat
  BY DEF ServiceTypeOK
<1>2. new \in Decision /\ new.page = page /\ new.shown = shown /\ new.note = text
        /\ new.client = "pending" /\ new.server = "waiting"
  BY DEF Decision
<1>3. decisions' = Append(decisions, new) /\ Len(decisions) < MaxDecisions
  BY DEF Send
<1> HIDE DEF new
<1>4. /\ decisions' \in Seq(Decision) /\ Len(decisions') = Len(decisions) + 1
      /\ DOMAIN decisions' = 1 .. Len(decisions) + 1
      /\ \A i \in DOMAIN decisions : decisions'[i] = decisions[i]
      /\ decisions'[Len(decisions) + 1] = new
  BY <1>1, <1>2, <1>3
<1> QED
  BY <1>1, <1>2, <1>3, <1>4, ServiceFacts

\* An answer changes what the client knows of one decision.
LEMMA AnswerFacts ==
  ASSUME ServiceTypeOK, NEW i \in DOMAIN decisions,
         NEW outcome \in {"ok", "failed", "unread"}, Answered(i, outcome)
  PROVE  /\ decisions' \in Seq(Decision) /\ Len(decisions') = Len(decisions)
         /\ DOMAIN decisions' = DOMAIN decisions
         /\ \A j \in DOMAIN decisions :
               /\ decisions'[j].page = decisions[j].page
               /\ decisions'[j].shown = decisions[j].shown
               /\ decisions'[j].note = decisions[j].note
               /\ decisions'[j].server = decisions[j].server
               /\ decisions'[j].closed = decisions[j].closed
               /\ decisions'[j].client = IF j = i THEN outcome ELSE decisions[j].client
<1> DEFINE new == [decisions[i] EXCEPT !.client = outcome]
<1>1. decisions \in Seq(Decision) /\ Len(decisions) \in Nat /\ decisions[i] \in Decision
        /\ DOMAIN decisions = 1 .. Len(decisions)
  BY DEF ServiceTypeOK
<1>2. decisions' = [decisions EXCEPT ![i] = new]
  BY DEF Answered
<1>3. /\ new \in Decision /\ new.page = decisions[i].page /\ new.shown = decisions[i].shown
      /\ new.note = decisions[i].note /\ new.server = decisions[i].server
      /\ new.closed = decisions[i].closed /\ new.client = outcome
  BY <1>1 DEF Decision
<1> HIDE DEF new
<1> QED
  BY <1>1, <1>2, <1>3

-----------------------------------------------------------------------------
\* Steps of the tasks page.

\* Steps that leave the decisions alone.
LEMMA TaskViewStep ==
  ASSUME Inv,
         \/ FetchTasks \/ CloseModal \/ WriteComment
         \/ \E t \in Executions : Select(t)
         \/ \E r \in Requests : DetailsArrive(r),
         UNCHANGED <<serviceVars, requestVars, ledgerVars, mounted, visits>>
  PROVE  Inv'
<1> USE DEF Inv
<1>1. /\ UNCHANGED <<stage, others, decisions, request, requestLoading, processing, note, reads>>
      /\ UNCHANGED <<statusFilter, rows, ledgerLoading, ledgerCalls, changes, disturbed>>
      /\ UNCHANGED <<mounted, visits>> /\ deciding' = deciding
  BY DEF serviceVars, requestVars, ledgerVars, FetchTasks, CloseModal, WriteComment, Select,
     DetailsArrive
<1>2. LedgerInv' /\ ReadsSound' /\ OneDecisionAtATime' /\ OneSubmissionAtATime'
        /\ CommentSentOnce' /\ ServiceTypeOK' /\ RequestTypeOK'
  BY <1>1 DEF TypeOK, LedgerInv, LedgerTypeOK, LedgerSound, RowsMatchFilter, ReadsSound,
     OneDecisionAtATime, OneSubmissionAtATime, PendingOf, CommentSentOnce, ServiceTypeOK,
     RequestTypeOK
<1>3. ServiceTypeOK /\ TaskTypeOK
  BY DEF TypeOK
<1>4. TaskTypeOK' /\ StageSound' /\ CommentSound'
  <2>1. CASE FetchTasks
    <3>1. tasks' \subseteq MyTasks /\ tasksLoading' = FALSE
          /\ UNCHANGED <<selected, details, detailCalls, comment, deciding>>
      BY <2>1 DEF FetchTasks
    <3>2. \A t \in MyTasks : t \in Executions /\ t[2] <= stage[t[1]]
      BY <1>3, ServiceFacts DEF MyTasks, ServiceTypeOK
    <3> QED
      BY <1>1, <1>3, <3>1, <3>2 DEF TaskTypeOK, StageSound, CommentSound, IsClosed
  <2>2. ASSUME NEW t \in Executions, Select(t) PROVE TaskTypeOK' /\ StageSound' /\ CommentSound'
    <3>1. /\ t \in tasks /\ selected' = t /\ detailCalls[t[1]] < MaxCalls
          /\ detailCalls' = [detailCalls EXCEPT ![t[1]] = @ + 1]
          /\ UNCHANGED <<tasks, tasksLoading, details, comment, deciding>>
      BY <2>2 DEF Select, Reviewable
    <3>2. detailCalls' \in [Requests -> 0 .. MaxCalls]
      BY <1>3, <3>1, ServiceFacts, TaskPageAssumption DEF TaskTypeOK
    <3> QED
      BY <1>1, <1>3, <3>1, <3>2 DEF TaskTypeOK, StageSound, CommentSound, IsClosed
  <2>3. ASSUME NEW r \in Requests, DetailsArrive(r)
        PROVE  TaskTypeOK' /\ StageSound' /\ CommentSound'
    <3>1. /\ detailCalls[r] > 0 /\ detailCalls' = [detailCalls EXCEPT ![r] = @ - 1]
          /\ details' \in {r, details}
          /\ UNCHANGED <<tasks, tasksLoading, selected, comment, deciding>>
      BY <2>3 DEF DetailsArrive
    <3>2. detailCalls' \in [Requests -> 0 .. MaxCalls]
      BY <1>3, <3>1, TaskPageAssumption DEF TaskTypeOK
    <3> QED
      BY <1>1, <1>3, <3>1, <3>2 DEF TaskTypeOK, StageSound, CommentSound, IsClosed
  <2>4. CASE CloseModal
    <3>1. selected' = NoTask
          /\ UNCHANGED <<tasks, tasksLoading, details, detailCalls, comment, deciding>>
      BY <2>4 DEF CloseModal
    <3> QED
      BY <1>1, <1>3, <3>1 DEF TaskTypeOK, StageSound, CommentSound, IsClosed
  <2>5. CASE WriteComment
    <3>1. comment' = Len(decisions) + 1 /\ Len(decisions) < MaxDecisions
          /\ UNCHANGED <<tasks, tasksLoading, selected, details, detailCalls, deciding>>
      BY <2>5 DEF WriteComment
    <3>2. Len(decisions) \in Nat /\ DOMAIN decisions = 1 .. Len(decisions)
          /\ \A i \in DOMAIN decisions : decisions[i].note \in Nat
      <4>1. \A i \in DOMAIN decisions : decisions[i] \in Decision
        BY <1>3 DEF ServiceTypeOK
      <4>2. \A i \in DOMAIN decisions : decisions[i].note \in Nat
        BY <4>1, ServiceFacts DEF Decision
      <4> QED
        BY <1>3, <4>2 DEF ServiceTypeOK
    <3>3. TaskTypeOK'
      BY <1>3, <3>1, <3>2, ServiceFacts DEF TaskTypeOK
    <3>4. StageSound'
      BY <1>1, <3>1 DEF StageSound, IsClosed
    <3>5. CommentSound'
      BY <1>1, <3>1, <3>2 DEF CommentSound
    <3> QED
      BY <3>3, <3>4, <3>5
  <2> QED
    BY <2>1, <2>2, <2>3, <2>4, <2>5
<1> QED
  BY <1>1, <1>2, <1>4 DEF TypeOK, LedgerInv

\* A click while the buttons are not blocked.
LEMMA DecideStep ==
  ASSUME Inv, Decide, UNCHANGED <<requestVars, ledgerVars, mounted, visits>>
  PROVE  Inv'
<1> USE DEF Inv
<1>1. /\ UNCHANGED <<stage, others, request, requestLoading, processing, note, reads>>
      /\ UNCHANGED <<statusFilter, rows, ledgerLoading, ledgerCalls, changes, disturbed>>
      /\ UNCHANGED <<mounted, visits, tasks, tasksLoading, selected, details, detailCalls>>
      /\ UNCHANGED comment
      /\ deciding' = TRUE /\ ~deciding /\ selected # NoTask
  BY DEF Decide, DecisionEnabled, ModalShown, requestVars, ledgerVars
<1>2. ServiceTypeOK /\ TaskTypeOK /\ selected \in Executions /\ comment \in 0 .. MaxDecisions
        /\ "tasks" \in Pages
  BY <1>1 DEF TypeOK, TaskTypeOK, Pages
<1> DEFINE k == Len(decisions) + 1
<1>3. /\ decisions' \in Seq(Decision) /\ Len(decisions') = k /\ k <= MaxDecisions
      /\ DOMAIN decisions' = 1 .. k
      /\ \A i \in DOMAIN decisions : decisions'[i] = decisions[i]
      /\ decisions'[k].page = "tasks" /\ decisions'[k].shown = selected
      /\ decisions'[k].note = comment /\ decisions'[k].client = "pending"
      /\ decisions'[k].server = "waiting"
  BY <1>2, SendFacts DEF Decide
<1>4. Len(decisions) \in Nat /\ DOMAIN decisions = 1 .. Len(decisions) /\ k \in Nat
        /\ k \notin DOMAIN decisions
  BY <1>2 DEF ServiceTypeOK
<1> HIDE DEF k
<1>5. \A i \in DOMAIN decisions' : i \in DOMAIN decisions \/ i = k
  BY <1>3, <1>4 DEF k
<1>6. DOMAIN decisions \subseteq DOMAIN decisions' /\ k \in DOMAIN decisions'
        /\ \A i \in DOMAIN decisions : i < k /\ i \in Nat
  BY <1>3, <1>4 DEF k
<1>7. TypeOK' /\ LedgerInv' /\ ReadsSound'
  BY <1>1, <1>3, <1>6 DEF TypeOK, ServiceTypeOK, TaskTypeOK, RequestTypeOK, LedgerTypeOK,
     LedgerInv, LedgerSound, RowsMatchFilter, ReadsSound
<1>8. PendingOf("tasks") = {} /\ PendingOf("tasks")' = {k}
        /\ PendingOf("request")' = PendingOf("request")
  <2>1. PendingOf("tasks") = {}
    BY <1>1 DEF OneDecisionAtATime
  <2>2. PendingOf("tasks")' = PendingOf("tasks") \cup {k}
    BY <1>3, <1>5, <1>6 DEF PendingOf
  <2>3. PendingOf("request")' = PendingOf("request")
    BY <1>3, <1>5, <1>6 DEF PendingOf
  <2> QED
    BY <2>1, <2>2, <2>3
<1>9. OneDecisionAtATime' /\ OneSubmissionAtATime'
  BY <1>1, <1>8 DEF OneDecisionAtATime, OneSubmissionAtATime
<1>10. StageSound'
  BY <1>1, <1>3, <1>5 DEF StageSound, IsClosed
<1>11. \A i \in DOMAIN decisions : decisions[i].page = "tasks" => decisions[i].client # "pending"
  BY <1>8 DEF PendingOf
<1>12. CommentSound'
  <2>1. comment' <= k /\ k <= Len(decisions') + 1
    BY <1>1, <1>3, <1>4 DEF CommentSound, k
  <2>2. comment' <= Len(decisions') + 1
    BY <1>1, <1>2, <1>3, <1>4, <2>1
  <2>3. \A i \in DOMAIN decisions' : decisions'[i].page = "tasks" =>
          /\ decisions'[i].note <= i
          /\ decisions'[i].client = "pending" =>
                \A j \in DOMAIN decisions' : i < j => decisions'[j].page # "tasks"
          /\ decisions'[i].client = "ok" /\ decisions'[i].note # 0 =>
                comment' # decisions'[i].note
    <3> SUFFICES ASSUME NEW i \in DOMAIN decisions', decisions'[i].page = "tasks"
                 PROVE  /\ decisions'[i].note <= i
                        /\ decisions'[i].client = "pending" =>
                              \A j \in DOMAIN decisions' : i < j => decisions'[j].page # "tasks"
                        /\ decisions'[i].client = "ok" /\ decisions'[i].note # 0 =>
                              comment' # decisions'[i].note
      OBVIOUS
    <3>1. CASE i \in DOMAIN decisions
      BY <1>1, <1>3, <1>11, <3>1 DEF CommentSound
    <3>2. CASE i = k
      <4>1. \A j \in DOMAIN decisions' : ~(k < j)
        BY <1>3, <1>4
      <4> QED
        BY <1>1, <1>3, <2>1, <3>2, <4>1
    <3> QED
      BY <1>5, <3>1, <3>2
  <2> QED
    BY <2>2, <2>3 DEF CommentSound
<1>13. CommentSentOnce'
  <2> SUFFICES ASSUME NEW i \in DOMAIN decisions', NEW j \in DOMAIN decisions', i < j,
                      decisions'[i].page = "tasks", decisions'[j].page = "tasks",
                      decisions'[i].client = "ok", decisions'[i].note # 0
               PROVE  decisions'[j].note # decisions'[i].note
    BY DEF CommentSentOnce
  <2>1. i \in DOMAIN decisions
    BY <1>3, <1>5
  <2>2. CASE j = k
    BY <1>3, <2>1, <2>2 DEF CommentSound
  <2>3. CASE j \in DOMAIN decisions
    BY <1>3, <2>1, <2>3 DEF CommentSentOnce
  <2> QED
    BY <1>5, <2>2, <2>3
<1> QED
  BY <1>7, <1>9, <1>10, <1>12, <1>13

\* The answer frees the buttons; after a success the comment is gone.
LEMMA DecisionAnsweredStep ==
  ASSUME Inv, NEW i \in DOMAIN decisions, DecisionOk(i) \/ DecisionFailed(i),
         UNCHANGED <<requestVars, ledgerVars, mounted, visits>>
  PROVE  Inv'
<1> USE DEF Inv
<1>1. PICK outcome \in {"ok", "failed"} :
        /\ Answered(i, outcome)
        /\ outcome = "ok" => /\ tasks' = tasks \ {decisions[i].shown}
                             /\ selected' = NoTask /\ details' = NoDetails /\ comment' = 0
        /\ outcome = "failed" => UNCHANGED <<tasks, selected, details, comment>>
  <2>1. CASE DecisionOk(i)
    BY <2>1 DEF DecisionOk, AnswerOk, Decided
  <2>2. CASE DecisionFailed(i)
    BY <2>2 DEF DecisionFailed, AnswerFailed
  <2> QED
    BY <2>1, <2>2
<1>2. /\ UNCHANGED <<stage, others, request, requestLoading, processing, note, reads>>
      /\ UNCHANGED <<statusFilter, rows, ledgerLoading, ledgerCalls, changes, disturbed>>
      /\ UNCHANGED <<mounted, visits, tasksLoading, detailCalls>>
      /\ deciding' = FALSE
      /\ decisions[i].page = "tasks" /\ decisions[i].client = "pending"
  BY DEF DecisionOk, DecisionFailed, AnswerOk, AnswerFailed, requestVars, ledgerVars
<1>3. ServiceTypeOK /\ TaskTypeOK /\ Len(decisions) \in Nat
        /\ DOMAIN decisions = 1 .. Len(decisions)
  BY DEF TypeOK, ServiceTypeOK
<1>4. /\ decisions' \in Seq(Decision) /\ Len(decisions') = Len(decisions)
      /\ DOMAIN decisions' = DOMAIN decisions
      /\ \A j \in DOMAIN decisions :
            /\ decisions'[j].page = decisions[j].page
            /\ decisions'[j].shown = decisions[j].shown
            /\ decisions'[j].note = decisions[j].note
            /\ decisions'[j].server = decisions[j].server
            /\ decisions'[j].client = IF j = i THEN outcome ELSE decisions[j].client
  BY <1>1, <1>3, AnswerFacts
<1>5. tasks' \subseteq tasks /\ selected' \in {selected, NoTask} /\ details' \in {details, NoDetails}
        /\ comment' \in {comment, 0}
  BY <1>1
<1>6. TypeOK'
  <2>1. ServiceTypeOK'
    BY <1>2, <1>3, <1>4 DEF ServiceTypeOK
  <2>2. TaskTypeOK'
    <3>1. comment' \in 0 .. MaxDecisions
      BY <1>3, <1>5, ServiceFacts DEF TaskTypeOK
    <3>2. /\ tasks' \subseteq Executions /\ selected' \in Executions \cup {NoTask}
          /\ details' \in Requests \cup {NoDetails}
      BY <1>3, <1>5 DEF TaskTypeOK
    <3> QED
      BY <1>2, <1>3, <3>1, <3>2 DEF TaskTypeOK
  <2> QED
    BY <1>2, <2>1, <2>2 DEF TypeOK, RequestTypeOK, LedgerTypeOK
<1>7. LedgerInv'
  BY <1>2 DEF LedgerInv, LedgerTypeOK, LedgerSound, RowsMatchFilter
<1>8. ReadsSound'
  BY <1>2, <1>4 DEF ReadsSound
<1>9. StageSound'
  BY <1>2, <1>4, <1>5 DEF StageSound, IsClosed
<1>10. PendingOf("tasks")' = {} /\ PendingOf("request")' = PendingOf("request")
  <2>1. PendingOf("tasks")' = PendingOf("tasks") \ {i}
    BY <1>2, <1>4 DEF PendingOf
  <2>2. i \in PendingOf("tasks")
    BY <1>2 DEF PendingOf
  <2>3. PendingOf("request")' = PendingOf("request")
    BY <1>2, <1>4 DEF PendingOf
  <2> QED
    BY <2>1, <2>2, <2>3 DEF OneDecisionAtATime
<1>11. OneDecisionAtATime' /\ OneSubmissionAtATime'
  BY <1>2, <1>10 DEF OneDecisionAtATime, OneSubmissionAtATime
<1>12. CommentSound'
  <2>1. comment' <= Len(decisions') + 1
    BY <1>3, <1>4, <1>5 DEF CommentSound
  <2>2. \A j \in DOMAIN decisions : decisions'[j].client = "pending" =>
            decisions[j].client = "pending"
    BY <1>4
  <2>3. \A j \in DOMAIN decisions : decisions[j].page = "tasks" =>
          /\ decisions'[j].note <= j
          /\ decisions'[j].client = "pending" =>
                \A m \in DOMAIN decisions' : j < m => decisions'[m].page # "tasks"
    BY <1>4, <2>2 DEF CommentSound
  <2>4. \A j \in DOMAIN decisions :
          decisions[j].page = "tasks" /\ decisions'[j].client = "ok" /\ decisions[j].note # 0 =>
             comment' # decisions[j].note
    BY <1>1, <1>4 DEF CommentSound
  <2> QED
    BY <1>4, <2>1, <2>3, <2>4 DEF CommentSound
<1>13. CommentSentOnce'
  <2> SUFFICES ASSUME NEW j \in DOMAIN decisions, NEW m \in DOMAIN decisions, j < m,
                      decisions[j].page = "tasks", decisions[m].page = "tasks",
                      decisions'[j].client = "ok", decisions[j].note # 0
               PROVE  decisions[m].note # decisions[j].note
    BY <1>4 DEF CommentSentOnce
  <2>1. j # i
    BY <1>2 DEF CommentSound
  <2> QED
    BY <1>4, <2>1 DEF CommentSentOnce
<1> QED
  BY <1>6, <1>7, <1>8, <1>9, <1>11, <1>12, <1>13

-----------------------------------------------------------------------------
\* Steps of the page of a request.

\* The reads of an answered decision.
Refreshing == {g \in reads : g[1] # 0}

\* A read is a pair.
LEMMA ReadFacts ==
  ASSUME RequestTypeOK
  PROVE  \A g \in reads : /\ g = <<g[1], g[2]>> /\ g[1] \in 0 .. MaxDecisions
                          /\ g[2] \in 0 .. Finalized
BY DEF RequestTypeOK

\* Steps that leave the decisions alone.
LEMMA RequestViewStep ==
  ASSUME Inv,
         \/ \E g \in reads : ServeRead(g) \/ FetchOk(g) \/ FetchFailed(g) \/ RefreshOk(g)
         \/ WriteNote,
         UNCHANGED <<serviceVars, taskVars, ledgerVars, mounted, visits>>
  PROVE  Inv'
<1> USE DEF Inv
<1>1. /\ UNCHANGED <<stage, others, decisions, tasks, tasksLoading, selected, details>>
      /\ UNCHANGED <<detailCalls, comment, deciding, mounted, visits>>
      /\ UNCHANGED <<statusFilter, rows, ledgerLoading, ledgerCalls, changes, disturbed>>
  BY DEF serviceVars, taskVars, ledgerVars
<1>2. /\ LedgerInv' /\ OneDecisionAtATime' /\ CommentSound' /\ CommentSentOnce'
      /\ ServiceTypeOK' /\ TaskTypeOK'
  BY <1>1 DEF TypeOK, LedgerInv, LedgerTypeOK, LedgerSound, RowsMatchFilter,
     OneDecisionAtATime, PendingOf, CommentSound, CommentSentOnce, ServiceTypeOK, TaskTypeOK
<1>3. ServiceTypeOK /\ RequestTypeOK
  BY DEF TypeOK
<1>4. PendingOf("request")' = PendingOf("request")
  BY <1>1 DEF PendingOf
<1>5. stage[Viewed] \in 1 .. Finalized /\ 0 \in 0 .. Finalized
        /\ \A n \in 1 .. Finalized : n \in 0 .. Finalized
  BY <1>3, ServiceFacts DEF ServiceTypeOK
<1>6. \A g \in reads : g = <<g[1], g[2]>> /\ g[1] \in 0 .. MaxDecisions /\ g[2] \in 0 .. Finalized
  BY <1>3, ReadFacts
<1>7. RequestTypeOK' /\ ReadsSound' /\ StageSound' /\ OneSubmissionAtATime'
  <2>1. ASSUME NEW g \in reads, ServeRead(g)
        PROVE  RequestTypeOK' /\ ReadsSound' /\ StageSound' /\ OneSubmissionAtATime'
    <3> DEFINE new == <<g[1], stage[Viewed]>>
    <3>1. /\ reads' = (reads \ {g}) \cup {new}
          /\ UNCHANGED <<request, requestLoading, processing, note>>
      BY <2>1 DEF ServeRead
    <3>2. new[1] = g[1] /\ new[2] = stage[Viewed]
          /\ new \in (0 .. MaxDecisions) \X (0 .. Finalized)
      BY <1>5, <1>6
    <3> HIDE DEF new
    <3>3. RequestTypeOK'
      BY <1>3, <3>1, <3>2 DEF RequestTypeOK
    <3>4. ReadsSound' /\ StageSound'
      BY <1>1, <1>5, <3>1, <3>2 DEF ReadsSound, StageSound, IsClosed
    <3>5. /\ Refreshing' = {} <=> Refreshing = {}
          /\ \A x, y \in Refreshing' : x = y
      BY <3>1, <3>2 DEF Refreshing, OneSubmissionAtATime
    <3>6. OneSubmissionAtATime'
      BY <1>4, <3>1, <3>5 DEF OneSubmissionAtATime, Refreshing
    <3> QED
      BY <3>3, <3>4, <3>6
  <2>2. ASSUME NEW g \in reads, FetchOk(g) \/ FetchFailed(g)
        PROVE  RequestTypeOK' /\ ReadsSound' /\ StageSound' /\ OneSubmissionAtATime'
    <3>1. /\ g[1] = 0 /\ reads' = reads \ {g} /\ requestLoading' = FALSE
          /\ request' \in {request, g[2]}
          /\ UNCHANGED <<processing, note>>
      BY <2>2 DEF FetchOk, FetchFailed
    <3>2. RequestTypeOK' /\ ReadsSound' /\ StageSound'
      <4>1. g[2] \in 0 .. Finalized /\ g[2] <= stage[Viewed]
            /\ request \in 0 .. Finalized /\ request <= stage[Viewed]
        BY <1>3, <1>6 DEF StageSound, RequestTypeOK
      <4>2. request' \in 0 .. Finalized /\ request' <= stage[Viewed] /\ reads' \subseteq reads
        BY <3>1, <4>1
      <4>3. RequestTypeOK'
        BY <1>3, <3>1, <4>2 DEF RequestTypeOK
      <4>4. ReadsSound'
        BY <1>1, <4>2 DEF ReadsSound
      <4>5. StageSound'
        BY <1>1, <4>2 DEF StageSound, IsClosed
      <4> QED
        BY <4>3, <4>4, <4>5
    <3>3. Refreshing' = Refreshing
      BY <3>1 DEF Refreshing
    <3>4. OneSubmissionAtATime'
      BY <1>4, <3>1, <3>3 DEF OneSubmissionAtATime, Refreshing
    <3> QED
      BY <3>2, <3>4
  <2>3. ASSUME NEW g \in reads, RefreshOk(g)
        PROVE  RequestTypeOK' /\ ReadsSound' /\ StageSound' /\ OneSubmissionAtATime'
    <3>1. /\ g[1] # 0 /\ reads' = reads \ {g} /\ request' = g[2] /\ note' = 0
          /\ processing' = FALSE /\ UNCHANGED requestLoading
      BY <2>3 DEF RefreshOk
    <3>2. RequestTypeOK' /\ ReadsSound' /\ StageSound'
      <4>1. /\ request' \in 0 .. Finalized /\ request' <= stage[Viewed]
            /\ reads' \subseteq reads /\ note' \in 0 .. MaxDecisions
        BY <1>6, <3>1, ServiceFacts DEF StageSound
      <4>2. RequestTypeOK'
        BY <1>3, <3>1, <4>1 DEF RequestTypeOK
      <4>3. ReadsSound'
        BY <1>1, <4>1 DEF ReadsSound
      <4>4. StageSound'
        BY <1>1, <4>1 DEF StageSound, IsClosed
      <4> QED
        BY <4>2, <4>3, <4>4
    <3>3. g \in Refreshing /\ Refreshing' = Refreshing \ {g}
      BY <3>1 DEF Refreshing
    <3>4. Refreshing' = {} /\ PendingOf("request") = {}
      BY <3>3 DEF OneSubmissionAtATime, Refreshing
    <3>5. OneSubmissionAtATime'
      BY <1>4, <3>1, <3>4 DEF OneSubmissionAtATime, Refreshing
    <3> QED
      BY <3>2, <3>5
  <2>4. CASE WriteNote
    <3>1. note' = Len(decisions) + 1 /\ Len(decisions) < MaxDecisions
          /\ UNCHANGED <<request, requestLoading, processing, reads>>
      BY <2>4 DEF WriteNote
    <3>2. note' \in 0 .. MaxDecisions
      BY <1>3, <3>1, ServiceFacts DEF ServiceTypeOK
    <3> QED
      BY <1>1, <1>3, <1>4, <3>1, <3>2 DEF RequestTypeOK, ReadsSound, StageSound, IsClosed,
         OneSubmissionAtATime
  <2> QED
    BY <2>1, <2>2, <2>3, <2>4
<1> QED
  BY <1>1, <1>2, <1>7 DEF TypeOK, LedgerInv

\* A click while the button is not blocked.
LEMMA SubmitStep ==
  ASSUME Inv, Submit, UNCHANGED <<taskVars, ledgerVars, mounted, visits>>
  PROVE  Inv'
<1> USE DEF Inv
<1>1. /\ UNCHANGED <<stage, others, tasks, tasksLoading, selected, details, detailCalls>>
      /\ UNCHANGED <<comment, deciding, mounted, visits>>
      /\ UNCHANGED <<statusFilter, rows, ledgerLoading, ledgerCalls, changes, disturbed>>
      /\ UNCHANGED <<request, requestLoading, note, reads>>
      /\ processing' = TRUE /\ ~processing /\ CurrentStep # 0
  BY DEF Submit, SubmitEnabled, RequestView, taskVars, ledgerVars
<1>2. ServiceTypeOK /\ RequestTypeOK /\ note \in 0 .. MaxDecisions /\ "request" \in Pages
  BY DEF TypeOK, RequestTypeOK, Pages
<1> DEFINE k == Len(decisions) + 1
           shown == <<Viewed, CurrentStep>>
<1>3. CurrentStep = request /\ request \in Stages
  BY <1>1 DEF CurrentStep
<1>4. shown \in Executions /\ shown[2] <= stage[shown[1]]
  BY <1>3, ServiceFacts DEF Executions, StageSound
<1> HIDE DEF shown
<1>5. /\ decisions' \in Seq(Decision) /\ Len(decisions') = k /\ k <= MaxDecisions
      /\ DOMAIN decisions' = 1 .. k
      /\ \A i \in DOMAIN decisions : decisions'[i] = decisions[i]
      /\ decisions'[k].page = "request" /\ decisions'[k].shown = shown
      /\ decisions'[k].note = note /\ decisions'[k].client = "pending"
      /\ decisions'[k].server = "waiting"
  BY <1>2, <1>4, SendFacts DEF Submit, shown
<1>6. Len(decisions) \in Nat /\ DOMAIN decisions = 1 .. Len(decisions) /\ k \in Nat
        /\ k \notin DOMAIN decisions /\ Len(decisions) <= k
  BY <1>2 DEF ServiceTypeOK
<1> HIDE DEF k
<1>7. \A i \in DOMAIN decisions' : i \in DOMAIN decisions \/ i = k
  BY <1>5, <1>6 DEF k
<1>8. DOMAIN decisions \subseteq DOMAIN decisions' /\ k \in DOMAIN decisions'
  BY <1>5, <1>6 DEF k
<1>9. TypeOK' /\ LedgerInv' /\ ReadsSound'
  BY <1>1, <1>5, <1>8 DEF TypeOK, ServiceTypeOK, TaskTypeOK, RequestTypeOK, LedgerTypeOK,
     LedgerInv, LedgerSound, RowsMatchFilter, ReadsSound
<1>10. PendingOf("request")' = PendingOf("request") \cup {k}
         /\ PendingOf("tasks")' = PendingOf("tasks")
  BY <1>5, <1>7, <1>8 DEF PendingOf
<1>11. PendingOf("request") = {} /\ Refreshing = {} /\ Refreshing' = Refreshing
  BY <1>1 DEF OneSubmissionAtATime, Refreshing
<1>12. OneDecisionAtATime' /\ OneSubmissionAtATime'
  BY <1>1, <1>10, <1>11 DEF OneDecisionAtATime, OneSubmissionAtATime, Refreshing
<1>13. StageSound'
  BY <1>1, <1>4, <1>5, <1>7 DEF StageSound, IsClosed
<1>14. CommentSound'
  <2>1. comment \in Nat /\ comment <= Len(decisions') + 1
    BY <1>5, <1>6 DEF CommentSound, TypeOK, TaskTypeOK, k
  <2> QED
    BY <1>1, <1>5, <1>7, <2>1 DEF CommentSound
<1>15. CommentSentOnce'
  BY <1>5, <1>7 DEF CommentSentOnce
<1> QED
  BY <1>9, <1>12, <1>13, <1>14, <1>15

\* The decision is answered, or its second read fails: the call goes on with the
\* second read, or it ends and frees the button.
LEMMA SubmissionAnsweredStep ==
  ASSUME Inv,
         \/ \E i \in DOMAIN decisions : SubmitOk(i) \/ SubmitFailed(i)
         \/ \E g \in reads : RefreshFailed(g),
         UNCHANGED <<taskVars, ledgerVars, mounted, visits>>
  PROVE  Inv'
<1> USE DEF Inv
<1>1. ServiceTypeOK /\ RequestTypeOK /\ Len(decisions) \in Nat
        /\ DOMAIN decisions = 1 .. Len(decisions) /\ Len(decisions) <= MaxDecisions
  BY DEF TypeOK, ServiceTypeOK
<1>2. \A g \in reads : g = <<g[1], g[2]>> /\ g[1] \in 0 .. MaxDecisions /\ g[2] \in 0 .. Finalized
  BY <1>1, ReadFacts
<1> DEFINE Outcome(i, outcome) ==
        /\ Answered(i, outcome) /\ decisions[i].page = "request"
        /\ UNCHANGED <<stage, others, request, requestLoading, note>>
        /\ outcome = "ok" => /\ decisions[i].client = "pending"
                             /\ reads' = reads \cup {<<i, 0>>} /\ UNCHANGED processing
        /\ outcome = "failed" => /\ decisions[i].client = "pending"
                                 /\ processing' = FALSE /\ UNCHANGED reads
        /\ outcome = "unread" => /\ decisions[i].client = "ok" /\ processing' = FALSE
                                 /\ \E g \in reads : g[1] = i /\ reads' = reads \ {g}
<1> DEFINE Known ==
        \E i \in DOMAIN decisions, outcome \in {"ok", "failed", "unread"} : Outcome(i, outcome)
<1>2a. Known
  <2>1. ASSUME NEW i \in DOMAIN decisions, SubmitOk(i) PROVE Known
    <3>1. Outcome(i, "ok")
      BY <2>1 DEF SubmitOk, AnswerOk
    <3> HIDE DEF Outcome
    <3> QED
      BY <3>1
  <2>2. ASSUME NEW i \in DOMAIN decisions, SubmitFailed(i) PROVE Known
    <3>1. Outcome(i, "failed")
      BY <2>2 DEF SubmitFailed, AnswerFailed
    <3> HIDE DEF Outcome
    <3> QED
      BY <3>1
  <2>3. ASSUME NEW g \in reads, RefreshFailed(g) PROVE Known
    <3>1. g[1] \in DOMAIN decisions /\ decisions[g[1]].page = "request"
          /\ decisions[g[1]].client = "ok"
      BY <2>3 DEF RefreshFailed, ReadsSound
    <3>2. Outcome(g[1], "unread")
      BY <2>3, <3>1 DEF RefreshFailed
    <3> HIDE DEF Outcome
    <3> QED
      BY <3>1, <3>2
  <2> HIDE DEF Known
  <2> QED
    BY <2>1, <2>2, <2>3
<1>3. PICK i \in DOMAIN decisions, outcome \in {"ok", "failed", "unread"} : Outcome(i, outcome)
  BY <1>2a
<1>4. /\ UNCHANGED <<tasks, tasksLoading, selected, details, detailCalls, comment, deciding>>
      /\ UNCHANGED <<statusFilter, rows, ledgerLoading, ledgerCalls, changes, disturbed>>
      /\ UNCHANGED <<mounted, visits>>
  BY DEF taskVars, ledgerVars
<1>5. /\ decisions' \in Seq(Decision) /\ Len(decisions') = Len(decisions)
      /\ DOMAIN decisions' = DOMAIN decisions
      /\ \A j \in DOMAIN decisions :
            /\ decisions'[j].page = decisions[j].page
            /\ decisions'[j].shown = decisions[j].shown
            /\ decisions'[j].note = decisions[j].note
            /\ decisions'[j].server = decisions[j].server
            /\ decisions'[j].client = IF j = i THEN outcome ELSE decisions[j].client
  BY <1>1, <1>3, AnswerFacts
<1>6. <<i, 0>> \in (0 .. MaxDecisions) \X (0 .. Finalized) /\ <<i, 0>>[1] = i /\ <<i, 0>>[2] = 0
        /\ i # 0
  BY <1>1, ServiceFacts
<1>7. reads' \subseteq reads \cup {<<i, 0>>}
  BY <1>3
<1>8. TypeOK'
  <2>1. ServiceTypeOK'
    BY <1>1, <1>3, <1>5 DEF ServiceTypeOK
  <2>2. RequestTypeOK'
    <3>1. reads' \subseteq (0 .. MaxDecisions) \X (0 .. Finalized)
      BY <1>1, <1>6, <1>7 DEF RequestTypeOK
    <3>2. processing' \in BOOLEAN
      BY <1>1, <1>3 DEF RequestTypeOK
    <3> QED
      BY <1>1, <1>3, <3>1, <3>2 DEF RequestTypeOK
  <2> QED
    BY <1>4, <2>1, <2>2 DEF TypeOK, TaskTypeOK, LedgerTypeOK
<1>9. LedgerInv'
  BY <1>4 DEF LedgerInv, LedgerTypeOK, LedgerSound, RowsMatchFilter
<1>10. StageSound'
  <2>1. stage[Viewed] >= 0
    BY <1>1, ServiceFacts DEF ServiceTypeOK
  <2>2. \A g \in reads' : g[2] <= stage[Viewed]
    BY <1>6, <1>7, <2>1 DEF StageSound
  <2> QED
    BY <1>3, <1>4, <1>5, <2>2 DEF StageSound, IsClosed
<1>11. CommentSound' /\ CommentSentOnce'
  BY <1>3, <1>4, <1>5 DEF CommentSound, CommentSentOnce
<1>12. PendingOf("tasks")' = PendingOf("tasks")
  BY <1>3, <1>5 DEF PendingOf
<1>13. OneDecisionAtATime'
  BY <1>4, <1>12 DEF OneDecisionAtATime
<1>14. ReadsSound' /\ OneSubmissionAtATime'
  <2>1. PendingOf("request")' = PendingOf("request") \ {i}
    BY <1>3, <1>5 DEF PendingOf
  <2>2. CASE outcome = "ok"
    <3>1. i \in PendingOf("request") /\ processing' = processing
      BY <1>3, <2>2 DEF PendingOf
    <3>2. PendingOf("request")' = {} /\ Refreshing = {} /\ processing
      BY <2>1, <3>1 DEF OneSubmissionAtATime, Refreshing
    <3>3. Refreshing' = {<<i, 0>>}
      BY <1>3, <1>6, <2>2, <3>2 DEF Refreshing
    <3>4. OneSubmissionAtATime'
      BY <3>1, <3>2, <3>3 DEF OneSubmissionAtATime, Refreshing
    <3>5. ReadsSound'
      BY <1>3, <1>5, <1>6, <2>2, <3>2 DEF ReadsSound, Refreshing
    <3> QED
      BY <3>4, <3>5
  <2>3. CASE outcome = "failed"
    <3>1. i \in PendingOf("request") /\ reads' = reads /\ processing' = FALSE
      BY <1>3, <2>3 DEF PendingOf
    <3>2. PendingOf("request")' = {} /\ Refreshing = {}
      BY <2>1, <3>1 DEF OneSubmissionAtATime, Refreshing
    <3>3. Refreshing' = {}
      BY <3>1, <3>2 DEF Refreshing
    <3> QED
      BY <3>1, <3>2, <3>3 DEF OneSubmissionAtATime, Refreshing, ReadsSound
  <2>4. CASE outcome = "unread"
    <3>1. PICK g \in reads : g[1] = i /\ reads' = reads \ {g}
      BY <1>3, <2>4
    <3>2. g \in Refreshing /\ processing' = FALSE
      BY <1>3, <1>6, <2>4, <3>1 DEF Refreshing
    <3>3. Refreshing' = {} /\ PendingOf("request") = {}
      BY <3>1, <3>2 DEF Refreshing, OneSubmissionAtATime
    <3>4. PendingOf("request")' = {}
      BY <2>1, <3>3
    <3> QED
      BY <3>2, <3>3, <3>4 DEF OneSubmissionAtATime, Refreshing, ReadsSound
  <2> QED
    BY <2>2, <2>3, <2>4
<1> QED
  BY <1>8, <1>9, <1>10, <1>11, <1>13, <1>14

-----------------------------------------------------------------------------
\* Another page is mounted: what was unanswered will be taken for failed.
LEMMA NavigateStep ==
  ASSUME Inv, Navigate
  PROVE  Inv'
<1> USE DEF Inv
<1> DEFINE left(i) == IF decisions[i].client = "pending"
                      THEN [decisions[i] EXCEPT !.client = "failed"] ELSE decisions[i]
<1>1. ServiceTypeOK /\ decisions \in Seq(Decision) /\ Len(decisions) \in Nat
        /\ DOMAIN decisions = 1 .. Len(decisions)
        /\ \A i \in DOMAIN decisions : decisions[i] \in Decision
  BY DEF TypeOK, ServiceTypeOK
<1>2. \A i \in DOMAIN decisions :
        /\ left(i) \in Decision /\ left(i).page = decisions[i].page
        /\ left(i).shown = decisions[i].shown /\ left(i).note = decisions[i].note
        /\ left(i).server = decisions[i].server
        /\ left(i).client = IF decisions[i].client = "pending" THEN "failed"
                            ELSE decisions[i].client
  BY <1>1 DEF Decision
<1>3. decisions' = [i \in DOMAIN decisions |-> left(i)]
  BY DEF Navigate
<1> HIDE DEF left
<1>4. /\ decisions' \in Seq(Decision) /\ Len(decisions') = Len(decisions)
      /\ DOMAIN decisions' = DOMAIN decisions
      /\ \A i \in DOMAIN decisions :
            /\ decisions'[i].page = decisions[i].page
            /\ decisions'[i].shown = decisions[i].shown
            /\ decisions'[i].note = decisions[i].note
            /\ decisions'[i].server = decisions[i].server
            /\ decisions'[i].client # "pending"
            /\ decisions'[i].client = "ok" => decisions[i].client = "ok"
  <2>1. decisions' \in [1 .. Len(decisions) -> Decision]
    BY <1>1, <1>2, <1>3
  <2>2. decisions' \in Seq(Decision) /\ Len(decisions') = Len(decisions)
    BY <1>1, <2>1
  <2>3. \A i \in DOMAIN decisions : decisions'[i] = left(i)
    BY <1>3
  <2> QED
    BY <1>2, <1>3, <2>2, <2>3
<1>5. /\ UNCHANGED <<stage, others>>
      /\ tasks' = {} /\ tasksLoading' = TRUE /\ selected' = NoTask
      /\ details' = NoDetails /\ detailCalls' = [r \in Requests |-> 0]
      /\ comment' = 0 /\ deciding' = FALSE
      /\ request' = 0 /\ requestLoading' = TRUE /\ processing' = FALSE
      /\ note' = 0 /\ reads' = {<<0, 0>>}
      /\ mounted' \in Pages \cup {"ledger"} /\ visits' = visits + 1 /\ visits < MaxVisits
  BY DEF Navigate
<1>6. LedgerInv'
  <2>1. /\ statusFilter' = AllNodes /\ rows' = NoRows /\ ledgerLoading' = TRUE
        /\ ledgerCalls' = {<<0, AllNodes>>} /\ changes' = 0 /\ disturbed' = FALSE
    BY DEF Navigate
  <2>2. 0 \in 0 .. MaxChanges /\ AllNodes \in Filters
    BY LedgerAssumption
  <2>3. /\ <<0, AllNodes>> \in (0 .. MaxChanges) \X Filters
        /\ <<0, AllNodes>>[1] = 0 /\ <<0, AllNodes>>[2] = AllNodes
    BY <2>2
  <2>4. LedgerTypeOK'
    BY <2>1, <2>2, <2>3 DEF LedgerTypeOK
  <2>5. LedgerSound'
    BY <2>1, <2>3 DEF LedgerSound
  <2>6. RowsMatchFilter'
    BY <2>1, <2>3 DEF RowsMatchFilter
  <2> QED
    BY <2>4, <2>5, <2>6 DEF LedgerInv
<1>7. TypeOK'
  <2>1. ServiceTypeOK' /\ TaskTypeOK' /\ RequestTypeOK'
    <3>1. ServiceTypeOK'
      BY <1>1, <1>4, <1>5 DEF ServiceTypeOK
    <3>2. TaskTypeOK'
      <4>1. 0 \in 0 .. MaxDecisions /\ 0 \in 0 .. MaxCalls
        BY ServiceFacts, TaskPageAssumption
      <4>2. detailCalls' \in [Requests -> 0 .. MaxCalls]
        BY <1>5, <4>1
      <4> QED
        BY <1>5, <4>1, <4>2 DEF TaskTypeOK
    <3>3. <<0, 0>> \in (0 .. MaxDecisions) \X (0 .. Finalized)
      BY ServiceFacts
    <3>4. RequestTypeOK'
      BY <1>5, <3>3, ServiceFacts DEF RequestTypeOK
    <3> QED
      BY <3>1, <3>2, <3>4
  <2>2. visits' \in 0 .. MaxVisits
    BY <1>5, VisitsAssumption DEF TypeOK
  <2> QED
    BY <1>5, <1>6, <2>1, <2>2 DEF TypeOK, LedgerInv
<1>8. ReadsSound'
  BY <1>5 DEF ReadsSound
<1>9. PendingOf("tasks")' = {} /\ PendingOf("request")' = {} /\ Refreshing' = {}
  BY <1>4, <1>5 DEF PendingOf, Refreshing
<1>10. OneDecisionAtATime' /\ OneSubmissionAtATime'
  BY <1>5, <1>9 DEF OneDecisionAtATime, OneSubmissionAtATime, Refreshing
<1>11. StageSound'
  <2>1. 0 <= stage[Viewed]
    BY <1>1, ServiceFacts DEF ServiceTypeOK
  <2> QED
    BY <1>4, <1>5, <2>1 DEF StageSound, IsClosed
<1>12. CommentSound' /\ CommentSentOnce'
  BY <1>1, <1>4, <1>5 DEF CommentSound, CommentSentOnce
<1> QED
  BY <1>6, <1>7, <1>8, <1>10, <1>11, <1>12

\* A step that leaves the decisions and both pages alone.
LEMMA PagesAside ==
  ASSUME Inv, LedgerInv', UNCHANGED <<serviceVars, taskVars, requestVars, mounted, visits>>
  PROVE  Inv'
<1>1. /\ UNCHANGED <<stage, others, decisions>>
      /\ UNCHANGED <<tasks, tasksLoading, selected, details, detailCalls, comment, deciding>>
      /\ UNCHANGED <<request, requestLoading, processing, note, reads>>
      /\ UNCHANGED <<mounted, visits>>
  BY DEF serviceVars, taskVars, requestVars
<1>2. ServiceTypeOK' /\ TaskTypeOK' /\ RequestTypeOK'
  BY <1>1 DEF Inv, TypeOK, ServiceTypeOK, TaskTypeOK, RequestTypeOK
<1>3. TypeOK'
  BY <1>1, <1>2 DEF Inv, TypeOK, LedgerInv
<1>4. ReadsSound' /\ CommentSound' /\ CommentSentOnce'
  BY <1>1 DEF Inv, ReadsSound, CommentSound, CommentSentOnce
<1>5. StageSound'
  BY <1>1 DEF Inv, StageSound, IsClosed
<1>6. OneDecisionAtATime' /\ OneSubmissionAtATime'
  BY <1>1 DEF Inv, OneDecisionAtATime, OneSubmissionAtATime, PendingOf
<1> QED
  BY <1>2, <1>3, <1>4, <1>5, <1>6 DEF Inv

-----------------------------------------------------------------------------
\* Init establishes the invariant and every step preserves it.
LEMMA Invariance == Spec => []Inv
<1>1. Init => Inv
  <2> SUFFICES ASSUME Init PROVE Inv
    OBVIOUS
  <2> USE DEF Init, ServiceInit, TaskInit, RequestInit, LedgerInit
  <2>1. LedgerInv
    BY LedgerMount
  <2>2. decisions \in Seq(Decision) /\ Len(decisions) = 0 /\ DOMAIN decisions = {}
    OBVIOUS
  <2>3. ServiceTypeOK
    BY <2>2, ServiceFacts DEF ServiceTypeOK
  <2>4. TaskTypeOK
    <3>1. 0 \in 0 .. MaxDecisions /\ 0 \in 0 .. MaxCalls
      BY ServiceFacts, TaskPageAssumption
    <3>2. detailCalls \in [Requests -> 0 .. MaxCalls]
      BY <3>1
    <3> QED
      BY <3>1, <3>2 DEF TaskTypeOK
  <2>5. RequestTypeOK
    <3>1. <<0, 0>> \in (0 .. MaxDecisions) \X (0 .. Finalized)
      BY ServiceFacts
    <3> QED
      BY <3>1, ServiceFacts DEF RequestTypeOK
  <2>6. TypeOK
    BY <2>1, <2>3, <2>4, <2>5, VisitsAssumption DEF TypeOK, LedgerInv
  <2>7. PendingOf("tasks") = {} /\ PendingOf("request") = {} /\ Refreshing = {}
    BY <2>2 DEF PendingOf, Refreshing
  <2>8. OneDecisionAtATime /\ OneSubmissionAtATime
    BY <2>7 DEF OneDecisionAtATime, OneSubmissionAtATime, Refreshing
  <2>9. StageSound
    BY <2>2, ServiceFacts DEF StageSound
  <2>10. ReadsSound /\ CommentSound /\ CommentSentOnce
    BY <2>2 DEF ReadsSound, CommentSound, CommentSentOnce
  <2> QED
    BY <2>1, <2>6, <2>8, <2>9, <2>10 DEF Inv
<1>2. Inv /\ [Next]_vars => Inv'
  <2> SUFFICES ASSUME Inv, [Next]_vars PROVE Inv'
    OBVIOUS
  <2>1. CASE ServiceNext /\ UNCHANGED <<taskVars, requestVars, ledgerVars, mounted, visits>>
    BY <2>1, ServerStep
  <2>2. CASE TaskPageSteps
    <3>1. TaskNext /\ UNCHANGED <<requestVars, ledgerVars, mounted, visits>>
      BY <2>2 DEF TaskPageSteps
    <3>2. CASE Decide
      BY <3>1, <3>2, DecideStep
    <3>3. CASE \E i \in DOMAIN decisions : DecisionOk(i) \/ DecisionFailed(i)
      BY <3>1, <3>3, DecisionAnsweredStep
    <3>4. CASE /\ \/ FetchTasks
                  \/ \E t \in Executions : Select(t)
                  \/ \E r \in Requests : DetailsArrive(r)
                  \/ CloseModal
                  \/ WriteComment
               /\ UNCHANGED serviceVars
      BY <3>1, <3>4, TaskViewStep
    <3> QED
      BY <3>1, <3>2, <3>3, <3>4 DEF TaskNext
  <2>3. CASE RequestPageSteps
    <3>1. RequestNext /\ UNCHANGED <<taskVars, ledgerVars, mounted, visits>>
      BY <2>3 DEF RequestPageSteps
    <3>2. CASE Submit
      BY <3>1, <3>2, SubmitStep
    <3>3. CASE \/ \E i \in DOMAIN decisions : SubmitOk(i) \/ SubmitFailed(i)
               \/ \E g \in reads : RefreshFailed(g)
      BY <3>1, <3>3, SubmissionAnsweredStep
    <3>4. CASE /\ \/ \E g \in reads : ServeRead(g) \/ FetchOk(g) \/ FetchFailed(g) \/ RefreshOk(g)
                  \/ WriteNote
               /\ UNCHANGED serviceVars
      BY <3>1, <3>4, RequestViewStep
    <3> QED
      BY <3>1, <3>2, <3>3, <3>4 DEF RequestNext
  <2>4. CASE LedgerSteps
    <3>1. LedgerNext /\ UNCHANGED <<serviceVars, taskVars, requestVars, mounted, visits>>
      BY <2>4 DEF LedgerSteps
    <3>2. LedgerInv'
      BY <3>1, LedgerStep DEF Inv
    <3> QED
      BY <3>1, <3>2, PagesAside
  <2>5. CASE Navigate
    BY <2>5, NavigateStep
  <2>6. CASE UNCHANGED vars
    <3>1. LedgerInv'
      BY <2>6 DEF vars, ledgerVars, Inv, LedgerInv, LedgerTypeOK, LedgerSound, RowsMatchFilter
    <3> QED
      BY <2>6, <3>1, PagesAside DEF vars
  <2> QED
    BY <2>1, <2>2, <2>3, <2>4, <2>5, <2>6 DEF Next
<1> QED
  BY <1>1, <1>2, PTL DEF Spec

-----------------------------------------------------------------------------
\* What the pages know of the executions they decide.

\* Closed by another user, or by a decision of one of the pages.
Accounted ==
    others \cup {decisions[j].closed : j \in {k \in DOMAIN decisions : decisions[k].server = "applied"}}

\* Open, or known by whom it was closed.
Opened == {t \in Executions : stage[t[1]] = t[2]} \cup Accounted

\* What an applied decision has closed, and what an answer says of it.
DecisionSound ==
    \A i \in DOMAIN decisions :
        /\ decisions[i].server = "applied" =>
              /\ decisions[i].closed \in Executions
              /\ decisions[i].closed[1] = decisions[i].shown[1]
              /\ decisions[i].closed[2] >= decisions[i].shown[2]
              /\ IsClosed(decisions[i].closed)
        /\ decisions[i].client \in {"ok", "unread"} => decisions[i].server = "applied"
        /\ decisions[i].client = "unread" => decisions[i].page = "request"
        /\ decisions[i].page = "request" => decisions[i].shown[1] = Viewed
        /\ decisions[i].shown \in Opened

\* Only the last decision of a page may be unanswered.
PendingLast ==
    \A i, j \in DOMAIN decisions :
        i < j /\ decisions[i].page = decisions[j].page => decisions[i].client # "pending"

\* What a page knows to be closed it does not offer again, and what it has seen
\* closed is not closed by a later decision of it.
OwnKnown ==
    \A i, j \in DOMAIN decisions :
        i < j /\ decisions[i].page = decisions[j].page /\ decisions[i].client = "ok" =>
            /\ decisions[i].closed # decisions[j].shown
            /\ decisions[j].server = "applied" => decisions[j].closed # decisions[i].shown

\* The pages show executions that were opened.
SeenOpen ==
    /\ tasks \subseteq Opened
    /\ request \in Stages => <<Viewed, request>> \in Opened
    /\ \A g \in reads : g[2] \in Stages => <<Viewed, g[2]>> \in Opened

\* The tasks page lists one execution of a request: the one that is being
\* decided, and none that it has been told is closed.
TaskKnows ==
    /\ \A t, u \in tasks : t[1] = u[1] => t = u
    /\ selected # NoTask => selected \in tasks
    /\ \A i \in DOMAIN decisions : decisions[i].page = "tasks" =>
          /\ decisions[i].client = "pending" => decisions[i].shown \in tasks
          /\ decisions[i].client = "ok" => decisions[i].closed \notin tasks

\* The page of a request is past what it has been told is closed, or is about
\* to read the request again.
RequestKnows ==
    /\ \A f, g \in reads : f[1] = 0 /\ g[1] = 0 => requestLoading /\ f = g
    /\ requestLoading => request = 0 /\ ~processing
    /\ \A i \in DOMAIN decisions : decisions[i].page = "request" /\ decisions[i].client = "ok" =>
          /\ \A g \in reads : g[2] # 0 => g[2] > decisions[i].closed[2]
          /\ \/ request = 0 \/ request > decisions[i].closed[2]
             \/ \E g \in reads : g[1] = i

DecisionsKnown == DecisionSound /\ PendingLast /\ OwnKnown
Know == DecisionsKnown /\ SeenOpen /\ TaskKnows /\ RequestKnows

\* Facts about the state that follow from its type.
LEMMA StateFacts ==
  ASSUME TypeOK
  PROVE  /\ stage \in [Requests -> 1 .. Finalized] /\ others \subseteq Executions
         /\ \A r \in Requests : stage[r] \in Nat /\ stage[r] >= 1
         /\ decisions \in Seq(Decision) /\ Len(decisions) \in Nat
         /\ DOMAIN decisions = 1 .. Len(decisions)
         /\ \A i \in DOMAIN decisions : decisions[i] \in Decision
         /\ \A i \in DOMAIN decisions : i \in Nat /\ decisions[i].shown \in Executions
                                        /\ decisions[i].page \in {"tasks", "request"}
         /\ tasks \subseteq Executions /\ selected \in Executions \cup {NoTask}
         /\ request \in Nat /\ request <= Finalized
         /\ \A g \in reads : g = <<g[1], g[2]>> /\ g[1] \in Nat /\ g[2] \in Nat
<1>1. /\ ServiceTypeOK /\ TaskTypeOK /\ RequestTypeOK
  BY DEF TypeOK
<1>2. /\ stage \in [Requests -> 1 .. Finalized] /\ others \subseteq Executions
      /\ decisions \in Seq(Decision) /\ Len(decisions) \in Nat
      /\ DOMAIN decisions = 1 .. Len(decisions)
      /\ \A i \in DOMAIN decisions : decisions[i] \in Decision
  BY <1>1 DEF ServiceTypeOK
<1>3. \A r \in Requests : stage[r] \in Nat /\ stage[r] >= 1
  BY <1>2, ServiceFacts
<1>4. \A i \in DOMAIN decisions : i \in Nat /\ decisions[i].shown \in Executions
                                  /\ decisions[i].page \in {"tasks", "request"}
  BY <1>2 DEF Decision, Pages
<1>5. tasks \subseteq Executions /\ selected \in Executions \cup {NoTask}
  BY <1>1 DEF TaskTypeOK
<1>6. request \in Nat /\ request <= Finalized
        /\ \A g \in reads : g = <<g[1], g[2]>> /\ g[1] \in Nat /\ g[2] \in Nat
  BY <1>1, ReadFacts, ServiceFacts DEF RequestTypeOK
<1> QED
  BY <1>2, <1>3, <1>4, <1>5, <1>6

\* The server closes an execution that is open.
LEMMA ServerKnow ==
  ASSUME Inv, Know, ServiceNext, UNCHANGED <<taskVars, requestVars>>
  PROVE  Know'
<1> USE DEF Know, DecisionsKnown
<1>1. TypeOK /\ StageSound
  BY DEF Inv
<1>2. /\ UNCHANGED <<tasks, tasksLoading, selected, details, detailCalls, comment, deciding>>
      /\ UNCHANGED <<request, requestLoading, processing, note, reads>>
  BY DEF taskVars, requestVars
<1>3. /\ stage \in [Requests -> 1 .. Finalized] /\ others \subseteq Executions
      /\ \A r \in Requests : stage[r] \in Nat /\ stage[r] >= 1
      /\ \A i \in DOMAIN decisions : decisions[i] \in Decision
      /\ \A i \in DOMAIN decisions : i \in Nat /\ decisions[i].shown \in Executions
      /\ decisions \in Seq(Decision)
  BY <1>1, StateFacts
<1> DEFINE Fresh(i) == <<decisions[i].shown[1], stage[decisions[i].shown[1]]>>
           Progress ==
             /\ \A r \in Requests : stage'[r] \in Nat /\ stage'[r] >= stage[r]
             /\ DOMAIN decisions' = DOMAIN decisions
             /\ \A i \in DOMAIN decisions :
                   /\ decisions'[i].page = decisions[i].page
                   /\ decisions'[i].shown = decisions[i].shown
                   /\ decisions'[i].client = decisions[i].client
             /\ \A i \in DOMAIN decisions :
                   \/ /\ decisions'[i].server = decisions[i].server
                      /\ decisions'[i].closed = decisions[i].closed
                   \/ decisions[i].server = "waiting" /\ decisions'[i].server = "refused"
                   \/ /\ decisions[i].server = "waiting" /\ decisions'[i].server = "applied"
                      /\ decisions'[i].closed = Fresh(i)
                      /\ Fresh(i) \in Executions
                      /\ stage'[decisions[i].shown[1]] > stage[decisions[i].shown[1]]
             /\ Opened \subseteq Opened'
<1>4. Progress
  <2>1. ASSUME NEW i \in DOMAIN decisions, Refuse(i) PROVE Progress
    <3> DEFINE new == [decisions[i] EXCEPT !.server = "refused"]
    <3>1. /\ decisions' = [decisions EXCEPT ![i] = new] /\ stage' = stage /\ others' = others
          /\ decisions[i].server = "waiting"
      BY <2>1 DEF Refuse
    <3>2. /\ new.page = decisions[i].page /\ new.shown = decisions[i].shown
          /\ new.client = decisions[i].client /\ new.server = "refused"
          /\ new.closed = decisions[i].closed
      BY <1>3 DEF Decision
    <3> HIDE DEF new
    <3>3. DOMAIN decisions' = DOMAIN decisions /\ decisions'[i] = new
            /\ \A j \in DOMAIN decisions : j # i => decisions'[j] = decisions[j]
      BY <1>3, <3>1
    <3>4. Opened \subseteq Opened'
      BY <3>1, <3>2, <3>3 DEF Opened, Accounted
    <3> QED
      BY <1>3, <3>1, <3>2, <3>3, <3>4
  <2>2. ASSUME NEW i \in DOMAIN decisions, NEW n \in After(stage[decisions[i].shown[1]]),
               Apply(i, n)
        PROVE  Progress
    <3> DEFINE r == decisions[i].shown[1]
               new == [decisions[i] EXCEPT !.server = "applied", !.closed = <<r, stage[r]>>]
    <3>1. /\ decisions' = [decisions EXCEPT ![i] = new] /\ others' = others
          /\ stage' = [stage EXCEPT ![r] = n] /\ stage[r] \in Cleared
          /\ decisions[i].server = "waiting"
      BY <2>2 DEF Apply
    <3>2. r \in Requests /\ stage[r] \in Nat /\ stage[r] \in Stages
      BY <1>3, <3>1, ServiceAssumption, ServiceFacts DEF Decision, Stages
    <3>3. <<r, stage[r]>> \in Executions
      BY <3>2 DEF Executions
    <3>4. /\ new.page = decisions[i].page /\ new.shown = decisions[i].shown
          /\ new.client = decisions[i].client /\ new.server = "applied"
          /\ new.closed = <<r, stage[r]>>
      BY <1>3 DEF Decision
    <3>5. n \in Nat /\ n > stage[r]
      BY <2>2, <3>2, ServiceFacts DEF After
    <3> HIDE DEF new
    <3>6. DOMAIN decisions' = DOMAIN decisions /\ decisions'[i] = new
            /\ \A j \in DOMAIN decisions : j # i => decisions'[j] = decisions[j]
      BY <1>3, <3>1
    <3>7. Accounted \subseteq Accounted' /\ <<r, stage[r]>> \in Accounted'
      BY <3>1, <3>4, <3>6 DEF Accounted
    <3>8. Opened \subseteq Opened'
      <4> SUFFICES ASSUME NEW t \in Executions, stage[t[1]] = t[2] PROVE t \in Opened'
        BY <3>7 DEF Opened
      <4>1. CASE t[1] = r
        <5>1. t = <<t[1], t[2]>>
          BY DEF Executions
        <5>2. t = <<r, stage[r]>>
          BY <4>1, <5>1
        <5> QED
          BY <3>7, <5>2 DEF Opened
      <4>2. CASE t[1] # r
        <5>1. stage'[t[1]] = t[2]
          BY <1>3, <3>1, <4>2, ServiceFacts
        <5> QED
          BY <5>1 DEF Opened
      <4> QED
        BY <4>1, <4>2
    <3>9. \A q \in Requests : stage'[q] \in Nat /\ stage'[q] >= stage[q]
      BY <1>3, <3>1, <3>2, <3>5
    <3>10. stage'[r] > stage[r]
      BY <1>3, <3>1, <3>2, <3>5
    <3> QED
      BY <3>1, <3>3, <3>4, <3>6, <3>8, <3>9, <3>10
  <2>3. ASSUME NEW r \in Requests, NEW n \in After(stage[r]), OtherDecides(r, n) PROVE Progress
    <3>1. /\ decisions' = decisions /\ others' = others \cup {<<r, stage[r]>>}
          /\ stage' = [stage EXCEPT ![r] = n]
      BY <2>3 DEF OtherDecides
    <3>2. n \in Nat /\ n > stage[r]
      BY <1>3, <2>3, ServiceFacts DEF After
    <3>3. \A q \in Requests : stage'[q] \in Nat /\ stage'[q] >= stage[q]
      BY <1>3, <3>1, <3>2
    <3>4. Accounted \subseteq Accounted' /\ <<r, stage[r]>> \in Accounted'
      BY <3>1 DEF Accounted
    <3>5. Opened \subseteq Opened'
      <4> SUFFICES ASSUME NEW t \in Executions, stage[t[1]] = t[2] PROVE t \in Opened'
        BY <3>4 DEF Opened
      <4>1. CASE t[1] = r
        <5>1. t = <<t[1], t[2]>>
          BY DEF Executions
        <5>2. t = <<r, stage[r]>>
          BY <4>1, <5>1
        <5> QED
          BY <3>4, <5>2 DEF Opened
      <4>2. CASE t[1] # r
        <5>1. stage'[t[1]] = t[2]
          BY <1>3, <3>1, <4>2, ServiceFacts
        <5> QED
          BY <5>1 DEF Opened
      <4> QED
        BY <4>1, <4>2
    <3> QED
      BY <3>1, <3>3, <3>5
  <2> HIDE DEF Progress
  <2> QED
    BY <2>1, <2>2, <2>3 DEF ServiceNext
<1>5. \A i \in DOMAIN decisions : decisions[i].server = "applied" =>
        decisions'[i].server = "applied" /\ decisions'[i].closed = decisions[i].closed
  BY <1>4
<1>6. \A t \in Executions : IsClosed(t) => IsClosed(t)'
  BY <1>3, <1>4, ServiceFacts DEF IsClosed
<1>7. DecisionSound'
  <2> SUFFICES ASSUME NEW i \in DOMAIN decisions
               PROVE  /\ decisions'[i].server = "applied" =>
                            /\ decisions'[i].closed \in Executions
                            /\ decisions'[i].closed[1] = decisions[i].shown[1]
                            /\ decisions'[i].closed[2] >= decisions[i].shown[2]
                            /\ stage'[decisions'[i].closed[1]] > decisions'[i].closed[2]
                      /\ decisions[i].client \in {"ok", "unread"} => decisions'[i].server = "applied"
                      /\ decisions[i].client = "unread" => decisions[i].page = "request"
                      /\ decisions[i].page = "request" => decisions[i].shown[1] = Viewed
                      /\ decisions[i].shown \in Opened'
    BY <1>4 DEF DecisionSound, IsClosed
  <2>1. CASE decisions'[i].server = "applied" /\ decisions[i].server # "applied"
    <3>1. decisions'[i].closed = Fresh(i) /\ Fresh(i) \in Executions
          /\ stage'[decisions[i].shown[1]] > stage[decisions[i].shown[1]]
      BY <1>4, <2>1
    <3>2. decisions[i].shown[2] <= stage[decisions[i].shown[1]]
      BY <1>1 DEF StageSound
    <3>3. stage[decisions[i].shown[1]] \in Nat /\ decisions[i].shown[2] \in Nat
      BY <1>3, ServiceFacts
    <3> QED
      BY <1>4, <2>1, <3>1, <3>2, <3>3 DEF DecisionSound
  <2>2. CASE ~(decisions'[i].server = "applied" /\ decisions[i].server # "applied")
    BY <1>4, <1>5, <1>6, <2>2 DEF DecisionSound, IsClosed
  <2> QED
    BY <2>1, <2>2
<1>8. PendingLast'
  BY <1>4 DEF PendingLast
<1>9. OwnKnown'
  <2> SUFFICES ASSUME NEW i \in DOMAIN decisions, NEW j \in DOMAIN decisions, i < j,
                      decisions[i].page = decisions[j].page, decisions[i].client = "ok"
               PROVE  /\ decisions'[i].closed # decisions[j].shown
                      /\ decisions'[j].server = "applied" => decisions'[j].closed # decisions[i].shown
    BY <1>4 DEF OwnKnown
  <2>1. decisions[i].server = "applied" /\ decisions'[i].closed = decisions[i].closed
          /\ decisions[i].closed # decisions[j].shown
    BY <1>5 DEF DecisionSound, OwnKnown
  <2>2. CASE decisions'[j].server = "applied" /\ decisions[j].server # "applied"
    <3>1. decisions'[j].closed = Fresh(j)
      BY <1>4, <2>2
    <3>2. stage[decisions[i].shown[1]] > decisions[i].shown[2]
      BY <1>1, <2>1 DEF StageSound, IsClosed
    <3>3. Fresh(j) # decisions[i].shown
      BY <1>3, <3>2, ServiceFacts
    <3> QED
      BY <2>1, <3>1, <3>3
  <2>3. CASE ~(decisions'[j].server = "applied" /\ decisions[j].server # "applied")
    BY <1>5, <2>1, <2>3 DEF OwnKnown
  <2> QED
    BY <2>2, <2>3
<1>10. SeenOpen'
  BY <1>2, <1>4 DEF SeenOpen
<1>11. \A i \in DOMAIN decisions : decisions[i].client = "ok" => decisions'[i].closed = decisions[i].closed
  BY <1>5 DEF DecisionSound
<1>12. TaskKnows'
  BY <1>2, <1>4, <1>11 DEF TaskKnows
<1>13. RequestKnows'
  BY <1>2, <1>4, <1>11 DEF RequestKnows
<1> QED
  BY <1>7, <1>8, <1>9, <1>10, <1>12, <1>13

\* A page sends a decision on an execution that was opened, and that it has not
\* been told is closed.
LEMMA SendKnow ==
  ASSUME Inv, DecisionsKnown, NEW page \in Pages, NEW shown \in Executions,
         NEW text \in 0 .. MaxDecisions, Send(page, shown, text), UNCHANGED <<stage, others>>,
         shown \in Opened, PendingOf(page) = {}, page = "request" => shown[1] = Viewed,
         \A i \in DOMAIN decisions :
            decisions[i].page = page /\ decisions[i].client = "ok" => decisions[i].closed # shown
  PROVE  DecisionsKnown' /\ Opened \subseteq Opened'
<1> USE DEF DecisionsKnown
<1> DEFINE k == Len(decisions) + 1
<1>1. TypeOK /\ StageSound /\ ServiceTypeOK
  BY DEF Inv, TypeOK
<1>2. DOMAIN decisions = 1 .. Len(decisions) /\ Len(decisions) \in Nat
  BY <1>1, StateFacts
<1>3. /\ DOMAIN decisions' = 1 .. Len(decisions) + 1
      /\ \A i \in DOMAIN decisions : decisions'[i] = decisions[i]
      /\ decisions'[k].page = page /\ decisions'[k].shown = shown
      /\ decisions'[k].client = "pending" /\ decisions'[k].server = "waiting"
  BY <1>1, SendFacts
<1>4. /\ \A i \in DOMAIN decisions : i < k /\ i \in DOMAIN decisions'
      /\ k \in DOMAIN decisions' /\ ~(k < k)
      /\ \A i \in DOMAIN decisions' : i \in DOMAIN decisions \/ i = k
      /\ \A i \in DOMAIN decisions : ~(k < i)
  BY <1>2, <1>3
<1> HIDE DEF k
<1>5. Opened \subseteq Opened'
  BY <1>3, <1>4 DEF Opened, Accounted
<1>6. DecisionSound'
  <2> SUFFICES ASSUME NEW i \in DOMAIN decisions'
               PROVE  /\ decisions'[i].server = "applied" =>
                            /\ decisions'[i].closed \in Executions
                            /\ decisions'[i].closed[1] = decisions'[i].shown[1]
                            /\ decisions'[i].closed[2] >= decisions'[i].shown[2]
                            /\ stage[decisions'[i].closed[1]] > decisions'[i].closed[2]
                      /\ decisions'[i].client \in {"ok", "unread"} => decisions'[i].server = "applied"
                      /\ decisions'[i].client = "unread" => decisions'[i].page = "request"
                      /\ decisions'[i].page = "request" => decisions'[i].shown[1] = Viewed
                      /\ decisions'[i].shown \in Opened'
    BY DEF DecisionSound, IsClosed
  <2>1. CASE i \in DOMAIN decisions
    BY <1>3, <1>5, <2>1 DEF DecisionSound, IsClosed
  <2>2. CASE i = k
    BY <1>3, <1>5, <2>2
  <2> QED
    BY <1>4, <2>1, <2>2
<1>7. PendingLast'
  <2> SUFFICES ASSUME NEW i \in DOMAIN decisions', NEW j \in DOMAIN decisions', i < j,
                      decisions'[i].page = decisions'[j].page
               PROVE  decisions'[i].client # "pending"
    BY DEF PendingLast
  <2>1. i \in DOMAIN decisions
    BY <1>4
  <2>2. CASE j \in DOMAIN decisions
    BY <1>3, <2>1, <2>2 DEF PendingLast
  <2>3. CASE j = k
    BY <1>3, <2>1, <2>3 DEF PendingOf
  <2> QED
    BY <1>4, <2>2, <2>3
<1>8. OwnKnown'
  <2> SUFFICES ASSUME NEW i \in DOMAIN decisions', NEW j \in DOMAIN decisions', i < j,
                      decisions'[i].page = decisions'[j].page, decisions'[i].client = "ok"
               PROVE  /\ decisions'[i].closed # decisions'[j].shown
                      /\ decisions'[j].server = "applied" =>
                            decisions'[j].closed # decisions'[i].shown
    BY DEF OwnKnown
  <2>1. i \in DOMAIN decisions
    BY <1>4
  <2>2. CASE j \in DOMAIN decisions
    BY <1>3, <2>1, <2>2 DEF OwnKnown
  <2>3. CASE j = k
    BY <1>3, <2>1, <2>3
  <2> QED
    BY <1>4, <2>2, <2>3
<1> QED
  BY <1>5, <1>6, <1>7, <1>8

\* A page is told of its last decision that it was applied, or gives it up.
LEMMA AnswerKnow ==
  ASSUME Inv, DecisionsKnown, NEW i \in DOMAIN decisions,
         NEW outcome \in {"ok", "failed", "unread"}, Answered(i, outcome),
         UNCHANGED <<stage, others>>,
         IF outcome = "unread" THEN decisions[i].client = "ok" /\ decisions[i].page = "request"
                               ELSE decisions[i].client = "pending",
         outcome = "ok" => decisions[i].server = "applied"
  PROVE  DecisionsKnown' /\ Opened \subseteq Opened'
<1> USE DEF DecisionsKnown
<1>1. TypeOK /\ StageSound /\ ServiceTypeOK
  BY DEF Inv, TypeOK
<1>2. /\ DOMAIN decisions' = DOMAIN decisions
      /\ \A j \in DOMAIN decisions :
            /\ decisions'[j].page = decisions[j].page
            /\ decisions'[j].shown = decisions[j].shown
            /\ decisions'[j].server = decisions[j].server
            /\ decisions'[j].closed = decisions[j].closed
            /\ decisions'[j].client = IF j = i THEN outcome ELSE decisions[j].client
  BY <1>1, AnswerFacts
<1>3. Opened \subseteq Opened'
  BY <1>2 DEF Opened, Accounted
<1>4. DecisionSound'
  BY <1>2, <1>3 DEF DecisionSound, IsClosed
<1>5. PendingLast'
  BY <1>2 DEF PendingLast
<1>6. OwnKnown'
  <2> SUFFICES ASSUME NEW j \in DOMAIN decisions, NEW m \in DOMAIN decisions, j < m,
                      decisions[j].page = decisions[m].page, decisions'[j].client = "ok"
               PROVE  /\ decisions[j].closed # decisions[m].shown
                      /\ decisions[m].server = "applied" => decisions[m].closed # decisions[j].shown
    BY <1>2 DEF OwnKnown
  <2>1. j # i
    BY <1>2 DEF PendingLast
  <2> QED
    BY <1>2, <2>1 DEF OwnKnown
<1> QED
  BY <1>3, <1>4, <1>5, <1>6

\* A step that leaves the server and the decisions alone.
LEMMA KeptKnow ==
  ASSUME DecisionsKnown, UNCHANGED serviceVars
  PROVE  DecisionsKnown' /\ Opened' = Opened
BY DEF serviceVars, DecisionsKnown, DecisionSound, PendingLast, OwnKnown, IsClosed, Opened, Accounted

\* The tasks page loads its list, or selects a task of it.
LEMMA TaskViewKnow ==
  ASSUME Inv, Know,
         \/ FetchTasks \/ CloseModal \/ WriteComment
         \/ \E t \in Executions : Select(t)
         \/ \E r \in Requests : DetailsArrive(r),
         UNCHANGED <<serviceVars, requestVars>>
  PROVE  Know'
<1> USE DEF Know
<1>1. TypeOK /\ StageSound
  BY DEF Inv
<1>2. /\ UNCHANGED <<stage, others, decisions, request, requestLoading, processing, note, reads>>
      /\ DecisionsKnown' /\ Opened' = Opened
  BY KeptKnow DEF serviceVars, requestVars
<1>3. RequestKnows'
  BY <1>2 DEF RequestKnows
<1>4. TaskKnows' /\ tasks' \subseteq Opened
  <2>1. CASE FetchTasks
    <3>1. /\ tasks' \subseteq MyTasks /\ selected' = selected /\ tasks = {}
      BY <1>1, <2>1 DEF FetchTasks, StageSound
    <3>2. \A t \in MyTasks : t \in Executions /\ stage[t[1]] = t[2]
      BY DEF MyTasks
    <3>3. \A i \in DOMAIN decisions : decisions[i].page = "tasks" => decisions[i].client # "pending"
      BY <3>1 DEF TaskKnows
    <3>4. \A t, u \in tasks' : t[1] = u[1] => t = u
      <4>1. \A t \in Executions : t = <<t[1], t[2]>>
        BY DEF Executions
      <4> QED
        BY <3>1, <3>2, <4>1
    <3>5. selected' # NoTask => selected' \in tasks'
      BY <3>1 DEF TaskKnows
    <3>6. \A i \in DOMAIN decisions : decisions[i].client = "ok" => decisions[i].closed \notin tasks'
      <4> SUFFICES ASSUME NEW i \in DOMAIN decisions, decisions[i].client = "ok"
                   PROVE  decisions[i].closed \notin MyTasks
        BY <3>1
      <4>1. decisions[i].closed \in Executions /\ IsClosed(decisions[i].closed)
        BY DEF DecisionsKnown, DecisionSound
      <4>2. stage[decisions[i].closed[1]] # decisions[i].closed[2]
        BY <1>1, <4>1, StateFacts, ServiceFacts DEF IsClosed
      <4> QED
        BY <3>2, <4>2
    <3>7. tasks' \subseteq Opened
      BY <3>1, <3>2 DEF Opened
    <3> QED
      BY <1>2, <3>3, <3>4, <3>5, <3>6, <3>7 DEF TaskKnows
  <2>2. ASSUME NEW t \in Executions, Select(t) PROVE TaskKnows' /\ tasks' \subseteq Opened
    BY <1>2, <2>2 DEF Select, Reviewable, TaskKnows, SeenOpen
  <2>3. ASSUME NEW r \in Requests, DetailsArrive(r) PROVE TaskKnows' /\ tasks' \subseteq Opened
    BY <1>2, <2>3 DEF DetailsArrive, TaskKnows, SeenOpen
  <2>4. CASE CloseModal \/ WriteComment
    BY <1>2, <2>4 DEF CloseModal, WriteComment, TaskKnows, SeenOpen
  <2> QED
    BY <2>1, <2>2, <2>3, <2>4
<1>5. SeenOpen'
  BY <1>2, <1>4 DEF SeenOpen
<1> QED
  BY <1>2, <1>3, <1>4, <1>5

\* The task that is decided is one of the list.
LEMMA DecideKnow ==
  ASSUME Inv, Know, Decide, UNCHANGED requestVars
  PROVE  Know'
<1> USE DEF Know
<1> DEFINE k == Len(decisions) + 1
<1>1. TypeOK /\ ServiceTypeOK /\ OneDecisionAtATime /\ comment \in 0 .. MaxDecisions
        /\ "tasks" \in Pages
  BY DEF Inv, TypeOK, TaskTypeOK, Pages
<1>2. /\ UNCHANGED <<stage, others, request, requestLoading, processing, note, reads>>
      /\ tasks' = tasks /\ selected' = selected
      /\ ~deciding /\ selected # NoTask /\ Send("tasks", selected, comment)
  BY DEF Decide, DecisionEnabled, ModalShown, requestVars
<1>3. selected \in tasks /\ selected \in Opened /\ selected \in Executions
  BY <1>1, <1>2, StateFacts DEF TaskKnows, SeenOpen
<1>4. PendingOf("tasks") = {}
  BY <1>1, <1>2 DEF OneDecisionAtATime
<1>5. \A i \in DOMAIN decisions :
         decisions[i].page = "tasks" /\ decisions[i].client = "ok" => decisions[i].closed # selected
  BY <1>3 DEF TaskKnows
<1>6. DecisionsKnown' /\ Opened \subseteq Opened'
  BY <1>1, <1>2, <1>3, <1>4, <1>5, SendKnow
<1>7. /\ DOMAIN decisions' = 1 .. Len(decisions) + 1
      /\ \A i \in DOMAIN decisions : decisions'[i] = decisions[i]
      /\ decisions'[k].page = "tasks" /\ decisions'[k].shown = selected
      /\ decisions'[k].client = "pending"
  BY <1>1, <1>2, <1>3, SendFacts
<1>8. \A i \in DOMAIN decisions' : i \in DOMAIN decisions \/ i = k
  BY <1>1, <1>7, StateFacts
<1> HIDE DEF k
<1>9. TaskKnows'
  BY <1>2, <1>3, <1>7, <1>8 DEF TaskKnows
<1>10. RequestKnows'
  BY <1>2, <1>7, <1>8 DEF RequestKnows
<1>11. SeenOpen'
  BY <1>2, <1>6 DEF SeenOpen
<1> QED
  BY <1>6, <1>9, <1>10, <1>11

\* After a success neither the task that was shown nor the one that was closed
\* is in the list.
LEMMA DecisionAnsweredKnow ==
  ASSUME Inv, Know, NEW i \in DOMAIN decisions, DecisionOk(i) \/ DecisionFailed(i),
         UNCHANGED requestVars
  PROVE  Know'
<1> USE DEF Know
<1>1. TypeOK /\ ServiceTypeOK
  BY DEF Inv, TypeOK
<1>2. PICK outcome \in {"ok", "failed"} :
        /\ Answered(i, outcome)
        /\ outcome = "ok" => /\ tasks' = tasks \ {decisions[i].shown} /\ selected' = NoTask
                             /\ decisions[i].server = "applied"
        /\ outcome = "failed" => tasks' = tasks /\ selected' = selected
  <2>1. CASE DecisionOk(i)
    BY <2>1 DEF DecisionOk, AnswerOk, Decided
  <2>2. CASE DecisionFailed(i)
    BY <2>2 DEF DecisionFailed, AnswerFailed
  <2> QED
    BY <2>1, <2>2
<1>3. /\ UNCHANGED <<stage, others, request, requestLoading, processing, note, reads>>
      /\ decisions[i].page = "tasks" /\ decisions[i].client = "pending"
  BY DEF DecisionOk, DecisionFailed, AnswerOk, AnswerFailed, requestVars
<1>4. DecisionsKnown' /\ Opened \subseteq Opened'
  BY <1>2, <1>3, AnswerKnow
<1>5. /\ DOMAIN decisions' = DOMAIN decisions
      /\ \A j \in DOMAIN decisions :
            /\ decisions'[j].page = decisions[j].page
            /\ decisions'[j].shown = decisions[j].shown
            /\ decisions'[j].server = decisions[j].server
            /\ decisions'[j].closed = decisions[j].closed
            /\ decisions'[j].client = IF j = i THEN outcome ELSE decisions[j].client
  BY <1>1, <1>2, AnswerFacts
<1>6. tasks' \subseteq tasks
  BY <1>2
<1>7. SeenOpen'
  BY <1>3, <1>4, <1>6 DEF SeenOpen
<1>8. RequestKnows'
  BY <1>3, <1>5 DEF RequestKnows
<1>9. TaskKnows'
  <2>1. \A t, u \in tasks' : t[1] = u[1] => t = u
    BY <1>6 DEF TaskKnows
  <2>2. selected' # NoTask => selected' \in tasks'
    BY <1>2 DEF TaskKnows
  <2>3. \A j \in DOMAIN decisions : decisions[j].page = "tasks" => j = i \/ decisions[j].client # "pending"
    <3>1. i \in PendingOf("tasks") /\ \A j, m \in PendingOf("tasks") : j = m
      BY <1>3 DEF PendingOf, Inv, OneDecisionAtATime
    <3> QED
      BY <3>1 DEF PendingOf
  <2>4. outcome = "ok" => decisions[i].closed \notin tasks'
    <3> SUFFICES ASSUME outcome = "ok", decisions[i].closed \in tasks,
                        decisions[i].closed # decisions[i].shown
                 PROVE  FALSE
      BY <1>2
    <3>1. decisions[i].shown \in tasks
      BY <1>3 DEF TaskKnows
    <3>2. decisions[i].closed[1] = decisions[i].shown[1]
      BY <1>2 DEF DecisionsKnown, DecisionSound
    <3> QED
      BY <3>1, <3>2 DEF TaskKnows
  <2>5. \A j \in DOMAIN decisions : decisions[j].page = "tasks" =>
          /\ decisions'[j].client = "pending" => decisions[j].shown \in tasks'
          /\ decisions'[j].client = "ok" => decisions[j].closed \notin tasks'
    BY <1>5, <1>6, <2>3, <2>4 DEF TaskKnows
  <2> QED
    BY <1>5, <2>1, <2>2, <2>5 DEF TaskKnows
<1> QED
  BY <1>4, <1>7, <1>8, <1>9

\* What the page of a request reads is ahead of what it has been told is closed.
LEMMA RequestViewKnow ==
  ASSUME Inv, Know,
         \/ \E g \in reads : ServeRead(g) \/ FetchOk(g) \/ FetchFailed(g) \/ RefreshOk(g)
         \/ WriteNote,
         UNCHANGED <<serviceVars, taskVars>>
  PROVE  Know'
<1> USE DEF Know
<1>1. TypeOK /\ OneSubmissionAtATime
  BY DEF Inv
<1>2. /\ UNCHANGED <<stage, others, decisions, tasks, tasksLoading, selected, details>>
      /\ DecisionsKnown' /\ Opened' = Opened
  BY KeptKnow DEF serviceVars, taskVars
<1>3. TaskKnows'
  BY <1>2 DEF TaskKnows
<1>4. /\ \A g \in reads : g = <<g[1], g[2]>> /\ g[1] \in Nat /\ g[2] \in Nat
      /\ stage[Viewed] \in Nat /\ stage[Viewed] >= 1 /\ request \in Nat
  BY <1>1, StateFacts, ServiceFacts
<1>5. /\ \A f, g \in reads : f[1] = 0 /\ g[1] = 0 => requestLoading /\ f = g
      /\ requestLoading => request = 0 /\ ~processing
      /\ \A i \in DOMAIN decisions : decisions[i].page = "request" /\ decisions[i].client = "ok" =>
            /\ \A g \in reads : g[2] # 0 => g[2] > decisions[i].closed[2]
            /\ \/ request = 0 \/ request > decisions[i].closed[2]
               \/ \E g \in reads : g[1] = i
  BY DEF RequestKnows
<1>6. RequestKnows' /\ SeenOpen'
  <2>1. ASSUME NEW g \in reads, ServeRead(g) PROVE RequestKnows' /\ SeenOpen'
    <3> DEFINE new == <<g[1], stage[Viewed]>>
    <3>1. /\ reads' = (reads \ {g}) \cup {new}
          /\ UNCHANGED <<request, requestLoading, processing>>
      BY <2>1 DEF ServeRead
    <3>2. new[1] = g[1] /\ new[2] = stage[Viewed]
      OBVIOUS
    <3> HIDE DEF new
    <3>3. \A i \in DOMAIN decisions : decisions[i].page = "request" /\ decisions[i].client = "ok" =>
             new[2] > decisions[i].closed[2]
      BY <3>2 DEF DecisionsKnown, DecisionSound, IsClosed
    <3>4. \A i \in DOMAIN decisions : (\E f \in reads : f[1] = i) => \E f \in reads' : f[1] = i
      BY <3>1, <3>2
    <3>5. \A i \in DOMAIN decisions : decisions[i].page = "request" /\ decisions[i].client = "ok" =>
             \A f \in reads' : f[2] # 0 => f[2] > decisions[i].closed[2]
      BY <1>5, <3>1, <3>3
    <3>6. RequestKnows'
      BY <1>2, <1>5, <3>1, <3>2, <3>4, <3>5 DEF RequestKnows
    <3>7. new[2] \in Stages => <<Viewed, new[2]>> \in Opened
      <4> SUFFICES ASSUME stage[Viewed] \in Stages PROVE <<Viewed, stage[Viewed]>> \in Opened
        BY <3>2
      <4>1. <<Viewed, stage[Viewed]>> \in Executions
        BY ServiceFacts DEF Executions
      <4> QED
        BY <4>1 DEF Opened
    <3>8. SeenOpen'
      BY <1>2, <3>1, <3>7 DEF SeenOpen
    <3> QED
      BY <3>6, <3>8
  <2>2. ASSUME NEW g \in reads, FetchOk(g) \/ FetchFailed(g) PROVE RequestKnows' /\ SeenOpen'
    <3>1. /\ g[1] = 0 /\ reads' = reads \ {g} /\ requestLoading' = FALSE
          /\ request' = request \/ (g[2] # 0 /\ request' = g[2])
      BY <2>2 DEF FetchOk, FetchFailed
    <3>2. requestLoading /\ request = 0 /\ \A f \in reads' : f[1] # 0
      BY <1>5, <3>1
    <3>3. \A i \in DOMAIN decisions : decisions[i].page = "request" /\ decisions[i].client = "ok" =>
             request' = 0 \/ request' > decisions[i].closed[2]
      BY <1>5, <3>1, <3>2
    <3>4. \A i \in DOMAIN decisions : decisions[i].page = "request" /\ decisions[i].client = "ok" =>
             \A f \in reads' : f[2] # 0 => f[2] > decisions[i].closed[2]
      BY <1>5, <3>1
    <3>5. RequestKnows'
      BY <1>2, <3>1, <3>2, <3>3, <3>4 DEF RequestKnows
    <3>6. SeenOpen'
      BY <1>2, <3>1 DEF SeenOpen
    <3> QED
      BY <3>5, <3>6
  <2>3. ASSUME NEW g \in reads, RefreshOk(g) PROVE RequestKnows' /\ SeenOpen'
    <3>1. /\ g[1] # 0 /\ g[2] # 0 /\ reads' = reads \ {g} /\ request' = g[2]
          /\ requestLoading' = requestLoading
      BY <2>3 DEF RefreshOk
    <3>2. g \in Refreshing
      BY <3>1 DEF Refreshing
    <3>3. processing
      BY <1>1, <3>2 DEF OneSubmissionAtATime, Refreshing
    <3>4. ~requestLoading
      BY <1>5, <3>3
    <3>5. \A i \in DOMAIN decisions : decisions[i].page = "request" /\ decisions[i].client = "ok" =>
             request' > decisions[i].closed[2]
      BY <1>5, <3>1
    <3>6. \A i \in DOMAIN decisions : decisions[i].page = "request" /\ decisions[i].client = "ok" =>
             \A f \in reads' : f[2] # 0 => f[2] > decisions[i].closed[2]
      BY <1>5, <3>1
    <3>7. \A e, f \in reads' : e[1] = 0 /\ f[1] = 0 => requestLoading' /\ e = f
      BY <1>5, <3>1
    <3>8. RequestKnows'
      BY <1>2, <3>1, <3>4, <3>5, <3>6, <3>7 DEF RequestKnows
    <3>9. SeenOpen'
      BY <1>2, <3>1 DEF SeenOpen
    <3> QED
      BY <3>8, <3>9
  <2>4. CASE WriteNote
    BY <1>2, <2>4 DEF WriteNote, RequestKnows, SeenOpen
  <2> QED
    BY <2>1, <2>2, <2>3, <2>4
<1> QED
  BY <1>2, <1>3, <1>6

\* The execution that is decided is the one of the snapshot.
LEMMA SubmitKnow ==
  ASSUME Inv, Know, Submit, UNCHANGED taskVars
  PROVE  Know'
<1> USE DEF Know
<1> DEFINE k == Len(decisions) + 1
           shown == <<Viewed, CurrentStep>>
<1>1. TypeOK /\ ServiceTypeOK /\ OneSubmissionAtATime /\ note \in 0 .. MaxDecisions
        /\ "request" \in Pages
  BY DEF Inv, TypeOK, RequestTypeOK, Pages
<1>2. /\ UNCHANGED <<stage, others, tasks, tasksLoading, selected, details>>
      /\ UNCHANGED <<request, requestLoading, reads>>
      /\ ~processing /\ CurrentStep # 0 /\ ~requestLoading
      /\ Send("request", shown, note)
  BY DEF Submit, SubmitEnabled, RequestView, taskVars
<1>3. CurrentStep = request /\ request \in Stages
  BY <1>2 DEF CurrentStep
<1>4. shown \in Executions /\ shown \in Opened /\ shown[1] = Viewed /\ shown[2] = request
  BY <1>3, ServiceFacts DEF Executions, SeenOpen
<1> HIDE DEF shown
<1>5. PendingOf("request") = {} /\ \A g \in reads : g[1] = 0
  BY <1>1, <1>2 DEF OneSubmissionAtATime
<1>6. \A i \in DOMAIN decisions :
         decisions[i].page = "request" /\ decisions[i].client = "ok" => decisions[i].closed # shown
  <2> SUFFICES ASSUME NEW i \in DOMAIN decisions,
                      decisions[i].page = "request", decisions[i].client = "ok"
               PROVE  decisions[i].closed # shown
    OBVIOUS
  <2>1. i # 0 /\ i \in Nat
    BY <1>1, StateFacts
  <2>2. request > decisions[i].closed[2]
    BY <1>3, <1>5, <2>1, ServiceFacts DEF RequestKnows, Stages
  <2>3. decisions[i].closed[2] \in Nat /\ request \in Nat
    BY <1>1, StateFacts, ServiceFacts DEF DecisionsKnown, DecisionSound
  <2> QED
    BY <1>4, <2>2, <2>3
<1>7. DecisionsKnown' /\ Opened \subseteq Opened'
  BY <1>1, <1>2, <1>4, <1>5, <1>6, SendKnow
<1>8. /\ DOMAIN decisions' = 1 .. Len(decisions) + 1
      /\ \A i \in DOMAIN decisions : decisions'[i] = decisions[i]
      /\ decisions'[k].page = "request" /\ decisions'[k].client = "pending"
  BY <1>1, <1>2, <1>4, SendFacts
<1>9. \A i \in DOMAIN decisions' : i \in DOMAIN decisions \/ i = k
  BY <1>1, <1>8, StateFacts
<1> HIDE DEF k
<1>10. TaskKnows'
  BY <1>2, <1>8, <1>9 DEF TaskKnows
<1>11. RequestKnows'
  BY <1>2, <1>8, <1>9 DEF RequestKnows
<1>12. SeenOpen'
  BY <1>2, <1>7 DEF SeenOpen
<1> QED
  BY <1>7, <1>10, <1>11, <1>12

\* An accepted decision is followed by a second read, so the snapshot that shows
\* the execution it closed is not submitted again.
LEMMA SubmissionAnsweredKnow ==
  ASSUME Inv, Know,
         \/ \E i \in DOMAIN decisions : SubmitOk(i) \/ SubmitFailed(i)
         \/ \E g \in reads : RefreshFailed(g),
         UNCHANGED taskVars
  PROVE  Know'
<1> USE DEF Know
<1>1. TypeOK /\ ServiceTypeOK /\ OneSubmissionAtATime /\ ReadsSound
  BY DEF Inv, TypeOK
<1> DEFINE Outcome(i, outcome) ==
        /\ Answered(i, outcome) /\ decisions[i].page = "request"
        /\ UNCHANGED <<stage, others, request, requestLoading>>
        /\ outcome = "ok" => /\ decisions[i].client = "pending" /\ decisions[i].server = "applied"
                             /\ reads' = reads \cup {<<i, 0>>} /\ processing' = processing
        /\ outcome = "failed" => /\ decisions[i].client = "pending"
                                 /\ processing' = FALSE /\ reads' = reads
        /\ outcome = "unread" => /\ decisions[i].client = "ok" /\ processing' = FALSE
                                 /\ \E g \in reads : g[1] = i /\ reads' = reads \ {g}
           Known ==
        \E i \in DOMAIN decisions, outcome \in {"ok", "failed", "unread"} : Outcome(i, outcome)
<1>2. Known
  <2>1. ASSUME NEW i \in DOMAIN decisions, SubmitOk(i) PROVE Known
    <3>1. Outcome(i, "ok")
      BY <2>1 DEF SubmitOk, AnswerOk
    <3> HIDE DEF Outcome
    <3> QED
      BY <3>1
  <2>2. ASSUME NEW i \in DOMAIN decisions, SubmitFailed(i) PROVE Known
    <3>1. Outcome(i, "failed")
      BY <2>2 DEF SubmitFailed, AnswerFailed
    <3> HIDE DEF Outcome
    <3> QED
      BY <3>1
  <2>3. ASSUME NEW g \in reads, RefreshFailed(g) PROVE Known
    <3>1. g[1] \in DOMAIN decisions /\ decisions[g[1]].page = "request"
          /\ decisions[g[1]].client = "ok"
      BY <1>1, <2>3 DEF RefreshFailed, ReadsSound
    <3>2. Outcome(g[1], "unread")
      BY <2>3, <3>1 DEF RefreshFailed
    <3> HIDE DEF Outcome
    <3> QED
      BY <3>1, <3>2
  <2> HIDE DEF Known
  <2> QED
    BY <2>1, <2>2, <2>3
<1>3. PICK i \in DOMAIN decisions, outcome \in {"ok", "failed", "unread"} : Outcome(i, outcome)
  BY <1>2
<1>4. /\ UNCHANGED <<stage, others, request, requestLoading>>
      /\ UNCHANGED <<tasks, tasksLoading, selected, details, detailCalls, comment, deciding>>
      /\ decisions[i].page = "request"
  BY <1>3 DEF taskVars
<1>5. DecisionsKnown' /\ Opened \subseteq Opened'
  BY <1>3, AnswerKnow
<1>6. /\ DOMAIN decisions' = DOMAIN decisions
      /\ \A j \in DOMAIN decisions :
            /\ decisions'[j].page = decisions[j].page
            /\ decisions'[j].shown = decisions[j].shown
            /\ decisions'[j].server = decisions[j].server
            /\ decisions'[j].closed = decisions[j].closed
            /\ decisions'[j].client = IF j = i THEN outcome ELSE decisions[j].client
  BY <1>1, <1>3, AnswerFacts
<1>7. TaskKnows'
  BY <1>4, <1>6 DEF TaskKnows
<1>8. <<i, 0>>[1] = i /\ <<i, 0>>[2] = 0 /\ i # 0 /\ 0 \notin Stages
  BY <1>1, StateFacts DEF Stages
<1>9. reads' \subseteq reads \cup {<<i, 0>>}
  BY <1>3
<1>10. SeenOpen'
  BY <1>4, <1>5, <1>8, <1>9 DEF SeenOpen
<1>11. /\ \A f, g \in reads' : f[1] = 0 /\ g[1] = 0 => requestLoading' /\ f = g
       /\ requestLoading' => request' = 0 /\ ~processing'
  BY <1>3, <1>4, <1>8, <1>9 DEF RequestKnows
<1>12. outcome = "ok" => reads = {}
  <2> SUFFICES ASSUME outcome = "ok" PROVE reads = {}
    OBVIOUS
  <2>1. i \in PendingOf("request")
    BY <1>3 DEF PendingOf
  <2>2. processing /\ \A g \in reads : g[1] = 0
    BY <1>1, <2>1 DEF OneSubmissionAtATime
  <2> QED
    BY <2>2 DEF RequestKnows
<1>13. \A j \in DOMAIN decisions : decisions[j].page = "request" /\ decisions'[j].client = "ok" =>
          /\ \A g \in reads' : g[2] # 0 => g[2] > decisions[j].closed[2]
          /\ \/ request = 0 \/ request > decisions[j].closed[2]
             \/ \E g \in reads' : g[1] = j
  <2> SUFFICES ASSUME NEW j \in DOMAIN decisions,
                      decisions[j].page = "request", decisions'[j].client = "ok"
               PROVE  /\ \A g \in reads' : g[2] # 0 => g[2] > decisions[j].closed[2]
                      /\ \/ request = 0 \/ request > decisions[j].closed[2]
                         \/ \E g \in reads' : g[1] = j
    OBVIOUS
  <2>1. CASE j = i
    <3>1. reads' = {<<i, 0>>}
      BY <1>3, <1>6, <1>12, <2>1
    <3> QED
      BY <1>8, <2>1, <3>1
  <2>2. CASE j # i
    <3>1. /\ \A g \in reads : g[2] # 0 => g[2] > decisions[j].closed[2]
          /\ \/ request = 0 \/ request > decisions[j].closed[2]
             \/ \E g \in reads : g[1] = j
      BY <1>6, <2>2 DEF RequestKnows
    <3>2. \A g \in reads : g[1] = j => g \in reads'
      BY <1>3, <2>2
    <3> QED
      BY <1>8, <1>9, <3>1, <3>2
  <2> QED
    BY <2>1, <2>2
<1>14. RequestKnows'
  BY <1>4, <1>6, <1>11, <1>13 DEF RequestKnows
<1> QED
  BY <1>5, <1>7, <1>10, <1>14

\* A page that is left takes its decision for failed, and knows nothing any more.
LEMMA NavigateKnow ==
  ASSUME Inv, Know, Navigate
  PROVE  Know'
<1> USE DEF Know, DecisionsKnown
<1> DEFINE left(i) == IF decisions[i].client = "pending"
                      THEN [decisions[i] EXCEPT !.client = "failed"] ELSE decisions[i]
<1>1. TypeOK /\ \A i \in DOMAIN decisions : decisions[i] \in Decision
  BY StateFacts DEF Inv
<1>2. decisions' = [i \in DOMAIN decisions |-> left(i)]
  BY DEF Navigate
<1>3. \A i \in DOMAIN decisions :
        /\ left(i).page = decisions[i].page /\ left(i).shown = decisions[i].shown
        /\ left(i).server = decisions[i].server /\ left(i).closed = decisions[i].closed
        /\ left(i).client = IF decisions[i].client = "pending" THEN "failed"
                            ELSE decisions[i].client
  BY <1>1 DEF Decision
<1> HIDE DEF left
<1>4. /\ DOMAIN decisions' = DOMAIN decisions
      /\ \A i \in DOMAIN decisions :
            /\ decisions'[i].page = decisions[i].page
            /\ decisions'[i].shown = decisions[i].shown
            /\ decisions'[i].server = decisions[i].server
            /\ decisions'[i].closed = decisions[i].closed
            /\ decisions'[i].client # "pending"
            /\ decisions'[i].client \in {"ok", "unread"} => decisions'[i].client = decisions[i].client
  BY <1>2, <1>3
<1>5. /\ stage' = stage /\ others' = others /\ tasks' = {} /\ selected' = NoTask
      /\ request' = 0 /\ requestLoading' = TRUE /\ processing' = FALSE /\ reads' = {<<0, 0>>}
  BY DEF Navigate
<1>6. Opened' = Opened
  BY <1>4, <1>5 DEF Opened, Accounted
<1>7. DecisionSound'
  BY <1>4, <1>5, <1>6 DEF DecisionSound, IsClosed
<1>8. PendingLast' /\ OwnKnown'
  BY <1>4 DEF PendingLast, OwnKnown
<1>9. 0 \notin Stages
  BY ServiceFacts DEF Stages
<1>10. SeenOpen' /\ TaskKnows'
  BY <1>4, <1>5, <1>9 DEF SeenOpen, TaskKnows
<1>11. RequestKnows'
  BY <1>5 DEF RequestKnows
<1> QED
  BY <1>7, <1>8, <1>10, <1>11

\* The pages know what they are told from the start, and forget nothing of it
\* while they are mounted.
LEMMA Knowledge == Spec => []Know
<1>1. Init => Know
  <2> SUFFICES ASSUME Init PROVE Know
    OBVIOUS
  <2> USE DEF Init, ServiceInit, TaskInit, RequestInit
  <2>1. DOMAIN decisions = {} /\ 0 \notin Stages
    BY DEF Stages
  <2>2. DecisionsKnown
    BY <2>1 DEF DecisionsKnown, DecisionSound, PendingLast, OwnKnown
  <2>3. SeenOpen /\ TaskKnows /\ RequestKnows
    BY <2>1 DEF SeenOpen, TaskKnows, RequestKnows
  <2> QED
    BY <2>2, <2>3 DEF Know
<1>2. Know /\ UNCHANGED <<serviceVars, taskVars, requestVars>> => Know'
  <2> SUFFICES ASSUME Know, UNCHANGED <<serviceVars, taskVars, requestVars>> PROVE Know'
    OBVIOUS
  <2>1. DecisionsKnown' /\ Opened' = Opened
    BY KeptKnow DEF Know
  <2> QED
    BY <2>1 DEF Know, SeenOpen, TaskKnows, RequestKnows, serviceVars, taskVars, requestVars
<1>3. Inv /\ Know /\ [Next]_vars => Know'
  <2> SUFFICES ASSUME Inv, Know, [Next]_vars PROVE Know'
    OBVIOUS
  <2>1. CASE ServiceNext /\ UNCHANGED <<taskVars, requestVars, ledgerVars, mounted, visits>>
    BY <2>1, ServerKnow
  <2>2. CASE TaskPageSteps
    <3>1. TaskNext /\ UNCHANGED requestVars
      BY <2>2 DEF TaskPageSteps
    <3>2. CASE Decide
      BY <3>1, <3>2, DecideKnow
    <3>3. CASE \E i \in DOMAIN decisions : DecisionOk(i) \/ DecisionFailed(i)
      BY <3>1, <3>3, DecisionAnsweredKnow
    <3>4. CASE /\ \/ FetchTasks
                  \/ \E t \in Executions : Select(t)
                  \/ \E r \in Requests : DetailsArrive(r)
                  \/ CloseModal
                  \/ WriteComment
               /\ UNCHANGED serviceVars
      BY <3>1, <3>4, TaskViewKnow
    <3> QED
      BY <3>1, <3>2, <3>3, <3>4 DEF TaskNext
  <2>3. CASE RequestPageSteps
    <3>1. RequestNext /\ UNCHANGED taskVars
      BY <2>3 DEF RequestPageSteps
    <3>2. CASE Submit
      BY <3>1, <3>2, SubmitKnow
    <3>3. CASE \/ \E i \in DOMAIN decisions : SubmitOk(i) \/ SubmitFailed(i)
               \/ \E g \in reads : RefreshFailed(g)
      BY <3>1, <3>3, SubmissionAnsweredKnow
    <3>4. CASE /\ \/ \E g \in reads : ServeRead(g) \/ FetchOk(g) \/ FetchFailed(g) \/ RefreshOk(g)
                  \/ WriteNote
               /\ UNCHANGED serviceVars
      BY <3>1, <3>4, RequestViewKnow
    <3> QED
      BY <3>1, <3>2, <3>3, <3>4 DEF RequestNext
  <2>4. CASE LedgerSteps \/ UNCHANGED vars
    BY <1>2, <2>4 DEF LedgerSteps, vars
  <2>5. CASE Navigate
    BY <2>5, NavigateKnow
  <2> QED
    BY <2>1, <2>2, <2>3, <2>4, <2>5 DEF Next
<1> QED
  BY <1>1, <1>3, Invariance, PTL DEF Spec

\* Two decisions of one page, of which one has closed what the other was meant
\* for: one of them was not answered.
LEMMA OwnSurprise ==
  ASSUME Inv, Know, NEW i \in DOMAIN decisions, NEW j \in DOMAIN decisions, i # j,
         decisions[i].page = decisions[j].page, decisions[i].server = "applied",
         decisions[i].closed # decisions[i].shown,
         decisions[j].server = "applied", decisions[j].closed = decisions[i].shown
  PROVE  {"failed", "unread"} \cap {decisions[i].client, decisions[j].client} # {}
<1> USE DEF Know, DecisionsKnown
<1>1. /\ i \in Nat /\ j \in Nat /\ decisions[i] \in Decision /\ decisions[j] \in Decision
  BY StateFacts DEF Inv
<1>2. /\ decisions[i].client \in {"pending", "ok", "failed", "unread"}
      /\ decisions[j].client \in {"pending", "ok", "failed", "unread"}
  BY <1>1 DEF Decision
<1> SUFFICES ASSUME decisions[i].client \in {"pending", "ok"}, decisions[j].client \in {"pending", "ok"}
             PROVE  FALSE
  BY <1>2
<1>3. CASE j < i
  BY <1>3 DEF PendingLast, OwnKnown
<1>4. CASE i < j
  BY <1>4 DEF PendingLast, OwnKnown
<1> QED
  BY <1>1, <1>3, <1>4

\* A decision that closed another execution than the one it was meant for: it
\* closed a later one, and it is known by whom the one meant was closed.
LEMMA Surprise ==
  ASSUME Inv, Know, NEW i \in DOMAIN decisions, decisions[i].server = "applied",
         decisions[i].closed # decisions[i].shown
  PROVE  /\ decisions[i].closed[1] = decisions[i].shown[1]
         /\ decisions[i].closed[2] > decisions[i].shown[2]
         /\ \/ decisions[i].shown \in others
            \/ \E j \in DOMAIN decisions \ {i} :
                  /\ decisions[j].server = "applied"
                  /\ decisions[j].closed = decisions[i].shown
                  /\ decisions[j].page = decisions[i].page =>
                        {"failed", "unread"} \cap {decisions[i].client, decisions[j].client} # {}
<1> USE DEF Know, DecisionsKnown
<1> DEFINE d == decisions[i]
<1>1. TypeOK /\ StageSound
  BY DEF Inv
<1>2. /\ d.closed \in Executions /\ d.shown \in Executions
      /\ d.closed[1] = d.shown[1] /\ d.closed[2] >= d.shown[2] /\ d.shown \in Opened
  BY <1>1, StateFacts DEF DecisionSound
<1>3. d.closed = <<d.closed[1], d.closed[2]>> /\ d.shown = <<d.shown[1], d.shown[2]>>
        /\ d.closed[2] \in Nat /\ d.shown[2] \in Nat
  <2>1. \A t \in Executions : t = <<t[1], t[2]>>
    BY DEF Executions
  <2> QED
    BY <1>2, <2>1, ServiceFacts
<1>4. d.closed[2] > d.shown[2]
  BY <1>2, <1>3
<1>5. d.shown \in Accounted
  <2>1. stage[d.shown[1]] > d.shown[2]
    BY <1>1 DEF StageSound, IsClosed
  <2>2. stage[d.shown[1]] # d.shown[2]
    BY <1>1, <1>2, <1>3, <2>1, StateFacts, ServiceFacts
  <2> QED
    BY <1>2, <2>2 DEF Opened
<1>6. CASE d.shown \in others
  BY <1>2, <1>4, <1>6
<1>7. CASE d.shown \notin others
  <2>1. \E j \in DOMAIN decisions : decisions[j].server = "applied" /\ decisions[j].closed = d.shown
    BY <1>5, <1>7 DEF Accounted
  <2>2. PICK j \in DOMAIN decisions : decisions[j].server = "applied" /\ decisions[j].closed = d.shown
    BY <2>1
  <2>3. j # i
    BY <2>2
  <2>4. decisions[j].page = d.page =>
           {"failed", "unread"} \cap {decisions[i].client, decisions[j].client} # {}
    BY <2>2, <2>3, OwnSurprise
  <2> QED
    BY <1>2, <1>4, <2>2, <2>3, <2>4
<1> QED
  BY <1>6, <1>7

-----------------------------------------------------------------------------
\* What holds of every behaviour.

\* The tables and the pages have their types, for any number of requests,
\* stages and decisions.
THEOREM PagesTyped == Spec => []TypeOK
<1>1. Inv => TypeOK
  BY DEF Inv
<1> QED
  BY <1>1, Invariance, PTL

\* handleDecision is never under way twice on one mounted tasks page.
THEOREM DecisionsOneByOne == Spec => []OneDecisionAtATime
<1>1. Inv => OneDecisionAtATime
  BY DEF Inv
<1> QED
  BY <1>1, Invariance, PTL

\* handleProcess is never under way twice, its second read included.
THEOREM SubmissionsOneByOne == Spec => []OneSubmissionAtATime
<1>1. Inv => OneSubmissionAtATime
  BY DEF Inv
<1> QED
  BY <1>1, Invariance, PTL

\* A comment acknowledged with one decision is not sent with another.
THEOREM CommentsSentOnce == Spec => []CommentSentOnce
<1>1. Inv => CommentSentOnce
  BY DEF Inv
<1> QED
  BY <1>1, Invariance, PTL

\* The rows of the ledger are those of the filter shown, unless disturbed.
THEOREM LedgerFollowsFilter == Spec => []RowsMatchFilter
<1>1. Inv => RowsMatchFilter
  BY DEF Inv, LedgerInv
<1> QED
  BY <1>1, Invariance, PTL

\* A task leaves the list only when its execution is closed, whichever task is
\* open when the answer comes (handleDecision filters by the captured task).
THEOREM ClosedTasksLeave == Spec => OnlyClosedTasksLeave
<1> DEFINE Kept == tasksLoading' \/ \A t \in tasks \ tasks' : IsClosed(t)
<1>1. Inv /\ [Next]_vars => [Kept]_<<tasks>>
  <2> SUFFICES ASSUME Inv, Next PROVE Kept \/ UNCHANGED tasks
    BY DEF vars, taskVars
  <2>1. CASE ServiceNext /\ UNCHANGED <<taskVars, requestVars, ledgerVars, mounted, visits>>
    BY <2>1 DEF taskVars
  <2>2. CASE TaskPageSteps
    <3>1. TaskNext
      BY <2>2 DEF TaskPageSteps
    <3>2. CASE FetchTasks
      BY <3>2 DEF FetchTasks, Inv, StageSound
    <3>3. ASSUME NEW i \in DOMAIN decisions, DecisionOk(i) PROVE Kept
      <4>1. tasks' = tasks \ {decisions[i].shown} /\ decisions[i].server = "applied"
        BY <3>3 DEF DecisionOk, AnswerOk, Decided
      <4>2. IsClosed(decisions[i].shown)
        BY <4>1 DEF Inv, StageSound
      <4> QED
        BY <4>1, <4>2
    <3>4. CASE \/ CloseModal \/ WriteComment \/ Decide
               \/ \E t \in Executions : Select(t)
               \/ \E r \in Requests : DetailsArrive(r)
               \/ \E i \in DOMAIN decisions : DecisionFailed(i)
      BY <3>4 DEF CloseModal, WriteComment, Decide, Select, DetailsArrive, DecisionFailed
    <3> QED
      BY <3>1, <3>2, <3>3, <3>4 DEF TaskNext
  <2>3. CASE RequestPageSteps \/ LedgerSteps
    BY <2>3 DEF RequestPageSteps, LedgerSteps, taskVars
  <2>4. CASE Navigate
    BY <2>4 DEF Navigate
  <2> QED
    BY <2>1, <2>2, <2>3, <2>4 DEF Next
<1> QED
  BY <1>1, Invariance, PTL DEF Spec, OnlyClosedTasksLeave

\* A decision of the tasks page that closes another execution than the one the
\* user saw: another user, the other page, or a try that was taken for failed
\* came first, for any number of users, pages left and answers lost.
THEOREM SurprisesExplained == Spec => []SurpriseExplained
<1>1. Inv /\ Know => SurpriseExplained
  <2> SUFFICES ASSUME Inv, Know, NEW i \in DOMAIN decisions, decisions[i].page = "tasks",
                      decisions[i].server = "applied", decisions[i].closed # decisions[i].shown
               PROVE  /\ decisions[i].closed[1] = decisions[i].shown[1]
                      /\ decisions[i].closed[2] > decisions[i].shown[2]
                      /\ \/ decisions[i].shown \in others
                         \/ \E j \in DOMAIN decisions \ {i} :
                               /\ decisions[j].server = "applied"
                               /\ decisions[j].closed = decisions[i].shown
                               /\ decisions[j].page = "tasks" =>
                                     "failed" \in {decisions[i].client, decisions[j].client}
    BY DEF SurpriseExplained
  <2>1. \A j \in DOMAIN decisions : decisions[j].page = "tasks" => decisions[j].client # "unread"
    BY DEF Know, DecisionsKnown, DecisionSound
  <2>2. \A j \in DOMAIN decisions :
          decisions[j].page = "tasks"
            /\ {"failed", "unread"} \cap {decisions[i].client, decisions[j].client} # {}
          => "failed" \in {decisions[i].client, decisions[j].client}
    BY <2>1
  <2> QED
    BY <2>2, Surprise
<1> QED
  BY <1>1, Invariance, Knowledge, PTL

\* The same of the page of a request, where the second read may fail as well.
THEOREM StaleSubmissionsExplained == Spec => []StaleSubmissionExplained
<1>1. Inv /\ Know => StaleSubmissionExplained
  <2> SUFFICES ASSUME Inv, Know, NEW i \in DOMAIN decisions, decisions[i].page = "request",
                      decisions[i].server = "applied", decisions[i].closed # decisions[i].shown
               PROVE  /\ decisions[i].closed[2] > decisions[i].shown[2]
                      /\ \/ decisions[i].shown \in others
                         \/ \E j \in DOMAIN decisions \ {i} :
                               /\ decisions[j].server = "applied"
                               /\ decisions[j].closed = decisions[i].shown
                               /\ decisions[j].page = "request" =>
                                     {"failed", "unread"}
                                       \cap {decisions[i].client, decisions[j].client} # {}
    BY DEF StaleSubmissionExplained
  <2> QED
    BY Surprise
<1> QED
  BY <1>1, Invariance, Knowledge, PTL

=============================================================================
