---------------------------- MODULE DecisionPages ----------------------------
(***************************************************************************)
(* A user who goes back and forth between the tasks page, the list of      *)
(* requests and the page of a request, over a server where other users     *)
(* decide as well.  A page that is left is unmounted: its calls go on at   *)
(* the server, their answers change nothing any more.                      *)
(***************************************************************************)
EXTENDS TaskPage, RequestPage, Ledger

CONSTANT MaxVisits   \* bound: changes of the page

ASSUME VisitsAssumption == MaxVisits \in Nat

VARIABLES
    mounted,   \* the page the tab shows
    visits     \* changes of the page so far

vars == <<serviceVars, taskVars, requestVars, ledgerVars, mounted, visits>>

Init ==
    /\ ServiceInit /\ TaskInit /\ RequestInit /\ LedgerInit
    /\ mounted \in Pages \cup {"ledger"}
    /\ visits = 0

\* The user follows a link to the other page, which is mounted anew.
Navigate ==
    /\ visits < MaxVisits
    /\ visits' = visits + 1
    /\ mounted' \in (Pages \cup {"ledger"}) \ {mounted}
    /\ decisions' = [i \in DOMAIN decisions |->
          IF decisions[i].client = "pending"
          THEN [decisions[i] EXCEPT !.client = "failed"] ELSE decisions[i]]
    /\ tasks' = {} /\ tasksLoading' = TRUE /\ selected' = NoTask
    /\ details' = NoDetails /\ detailCalls' = [r \in Requests |-> 0]
    /\ comment' = 0 /\ deciding' = FALSE
    /\ request' = 0 /\ requestLoading' = TRUE /\ processing' = FALSE
    /\ note' = 0 /\ reads' = {<<0, 0>>}
    /\ statusFilter' = AllNodes /\ rows' = NoRows /\ ledgerLoading' = TRUE
    /\ ledgerCalls' = {<<0, AllNodes>>} /\ changes' = 0 /\ disturbed' = FALSE
    /\ UNCHANGED <<stage, others>>

TaskPageSteps ==
    /\ mounted = "tasks"
    /\ TaskNext
    /\ UNCHANGED <<requestVars, ledgerVars, mounted, visits>>

RequestPageSteps ==
    /\ mounted = "request"
    /\ RequestNext
    /\ UNCHANGED <<taskVars, ledgerVars, mounted, visits>>

LedgerSteps ==
    /\ mounted = "ledger"
    /\ LedgerNext
    /\ UNCHANGED <<serviceVars, taskVars, requestVars, mounted, visits>>

Next ==
    \/ ServiceNext /\ UNCHANGED <<taskVars, requestVars, ledgerVars, mounted, visits>>
    \/ TaskPageSteps
    \/ RequestPageSteps
    \/ LedgerSteps
    \/ Navigate

Spec == Init /\ [][Next]_vars

\* Every call ends, with an answer or with an error of the network; nothing is
\* assumed of the users or of the outcome.
TaskAnswers ==
    /\ mounted = "tasks"
    /\ \E i \in DOMAIN decisions : DecisionOk(i) \/ DecisionFailed(i)
    /\ UNCHANGED <<requestVars, ledgerVars, mounted, visits>>

RequestAnswers ==
    /\ mounted = "request"
    /\ \/ \E i \in DOMAIN decisions : SubmitOk(i) \/ SubmitFailed(i)
       \/ \E g \in reads : RefreshFailed(g)
       \/ /\ \E g \in reads : FetchOk(g) \/ FetchFailed(g) \/ RefreshOk(g)
          /\ UNCHANGED serviceVars
    /\ UNCHANGED <<taskVars, ledgerVars, mounted, visits>>

FairSpec == Spec /\ WF_vars(TaskAnswers) /\ WF_vars(RequestAnswers)

-----------------------------------------------------------------------------

\* The tables and both pages have their types.
TypeOK ==
    /\ ServiceTypeOK /\ TaskTypeOK /\ RequestTypeOK
    /\ LedgerTypeOK
    /\ mounted \in Pages \cup {"ledger"}
    /\ visits \in 0 .. MaxVisits

\* Neither page stays blocked: the buttons that a decision has disabled are
\* enabled again, also when the call, its answer or the second read fails.
ButtonsComeBack == (deciding ~> ~deciding) /\ (processing ~> ~processing)

=============================================================================
