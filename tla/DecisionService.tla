--------------------------- MODULE DecisionService ---------------------------
(***************************************************************************)
(* The decision endpoints as the pages of the web client see them: a       *)
(* request is at a stage, a decision names the request and not the         *)
(* execution the user saw, and closes whatever execution is open when the  *)
(* server gets to it.  What goes on inside process_step is the subject of  *)
(* WorkflowEngine; here a decision is applied in one step, or refused.     *)
(*                                                                         *)
(* A call and its answer are separate steps.  Either may be lost: the      *)
(* client then gives up, and the server may have applied the decision, or  *)
(* may still apply it later.                                               *)
(***************************************************************************)
EXTENDS Naturals, Sequences, FiniteSets

CONSTANTS
    Requests,
    LastStage,     \* a request runs through the stages 1 .. LastStage
    Cleared,       \* stages the user of the pages may close
    Storable,      \* pages whose outcomes the column request_steps.status holds
    MaxDecisions,  \* bound: decisions the pages send
    MaxOthers,     \* bound: decisions of other users
    NoTask

Stages == 1 .. LastStage
Finalized == LastStage + 1
Executions == Requests \X Stages
Pages == {"tasks", "request"}

ASSUME ServiceAssumption ==
    /\ LastStage \in Nat \ {0}
    /\ MaxDecisions \in Nat /\ MaxOthers \in Nat
    /\ Cleared \subseteq Stages
    /\ Storable \subseteq Pages
    /\ NoTask \notin Executions

VARIABLES
    stage,      \* request |-> stage of its open execution, or Finalized
    others,     \* executions other users have closed
    decisions   \* the decisions sent by the pages, in the order of the clicks

serviceVars == <<stage, others, decisions>>

\* shown: the execution the user saw; note: the comment sent along, 0 for none;
\* server and client: how far the call has come on either side (unread: answered,
\* but the page failed to read the request again); closed: the execution it
\* closed.
Decision ==
    [page : Pages, shown : Executions, note : 0 .. MaxDecisions,
     server : {"waiting", "applied", "refused"},
     client : {"pending", "ok", "failed", "unread"},
     closed : Executions \cup {NoTask}]

ServiceInit ==
    /\ stage = [r \in Requests |-> 1]
    /\ others = {}
    /\ decisions = <<>>

IsClosed(t) == stage[t[1]] > t[2]

\* Faulty form: one stage too many.
AfterEnd(s) == s + 1 .. Finalized + 1

\* Where a decision may take a request: the transitions of the workflow and the
\* outcome the user chose select a later stage, or the end.
After(s) == s + 1 .. Finalized

Send(page, shown, note) ==
    /\ Len(decisions) < MaxDecisions
    /\ decisions' = Append(decisions,
          [page |-> page, shown |-> shown, note |-> note,
           server |-> "waiting", client |-> "pending", closed |-> NoTask])

\* process_step on behalf of decision i, which takes the request to stage n.
Apply(i, n) ==
    LET d == decisions[i]
        r == d.shown[1]
    IN  /\ d.server = "waiting"
        /\ d.page \in Storable
        /\ stage[r] \in Cleared
        /\ stage' = [stage EXCEPT ![r] = n]
        /\ decisions' = [decisions EXCEPT ![i] =
              [@ EXCEPT !.server = "applied", !.closed = <<r, stage[r]>>]]
        /\ UNCHANGED others

\* The request is finalized, the user is not cleared for its stage, the outcome
\* cannot be stored, or the transaction fails.
Refuse(i) ==
    /\ decisions[i].server = "waiting"
    /\ decisions' = [decisions EXCEPT ![i] = [@ EXCEPT !.server = "refused"]]
    /\ UNCHANGED <<stage, others>>

\* Another user decides.
OtherDecides(r, n) ==
    /\ Cardinality(others) < MaxOthers
    /\ stage' = [stage EXCEPT ![r] = n]
    /\ others' = others \cup {<<r, stage[r]>>}
    /\ UNCHANGED decisions

ServiceNext ==
    \/ \E i \in DOMAIN decisions : Refuse(i) \/ \E n \in After(stage[decisions[i].shown[1]]) : Apply(i, n)
    \/ \E r \in Requests : \E n \in After(stage[r]) : OtherDecides(r, n)

-----------------------------------------------------------------------------
\* How an answer reaches a page.

Answered(i, outcome) ==
    decisions' = [decisions EXCEPT ![i] = [@ EXCEPT !.client = outcome]]

AnswerOk(i, page) ==
    /\ decisions[i].page = page
    /\ decisions[i].client = "pending"
    /\ decisions[i].server = "applied"
    /\ Answered(i, "ok")
    /\ UNCHANGED <<stage, others>>

\* Faulty form: a call that is lost is waited for.
AnswerRefused(i, page) ==
    /\ decisions[i].page = page
    /\ decisions[i].client = "pending"
    /\ decisions[i].server = "refused"
    /\ Answered(i, "failed")
    /\ UNCHANGED <<stage, others>>

\* An error answer, or the call or its answer was lost: the page cannot tell.
AnswerFailed(i, page) ==
    /\ decisions[i].page = page
    /\ decisions[i].client = "pending"
    /\ Answered(i, "failed")
    /\ UNCHANGED <<stage, others>>

PendingOf(page) ==
    {i \in DOMAIN decisions : decisions[i].page = page /\ decisions[i].client = "pending"}

ServiceTypeOK ==
    /\ stage \in [Requests -> 1 .. Finalized]
    /\ others \subseteq Executions
    /\ decisions \in Seq(Decision)
    /\ Len(decisions) <= MaxDecisions

=============================================================================
