------------------------------- MODULE Ledger -------------------------------
(***************************************************************************)
(* The list of requests (frontend/src/app/requests/page.tsx).  Every       *)
(* change of the status filter sends a call, and no call is cancelled.     *)
(* The rows are abstracted to the filter they were selected with.          *)
(***************************************************************************)
EXTENDS Naturals

CONSTANTS
    Filters,     \* entries of the select, one of them for all requests
    AllNodes,
    NoRows,
    MaxChanges   \* bound: changes of the filter

ASSUME LedgerAssumption ==
    AllNodes \in Filters /\ NoRows \notin Filters /\ MaxChanges \in Nat

VARIABLES
    statusFilter,
    rows,          \* filter of the rows shown, NoRows if none were loaded
    ledgerLoading,
    ledgerCalls,   \* GET requests/ in flight: <<number of the call, filter>>
    changes,       \* calls sent after the first
    disturbed      \* a call failed or was overtaken since the last change

ledgerVars == <<statusFilter, rows, ledgerLoading, ledgerCalls, changes, disturbed>>

LedgerInit ==
    /\ statusFilter = AllNodes
    /\ rows = NoRows
    /\ ledgerLoading = TRUE
    /\ ledgerCalls = {<<0, AllNodes>>}
    /\ changes = 0
    /\ disturbed = FALSE

LedgerView == IF ledgerLoading THEN "spinner"
              ELSE IF rows = NoRows THEN "empty" ELSE "list"

\* Faulty form: the effect runs at the mount only.
ChangeFilterOnly(f) ==
    /\ LedgerView # "spinner"
    /\ f # statusFilter
    /\ changes < MaxChanges
    /\ statusFilter' = f
    /\ changes' = changes + 1
    /\ disturbed' = FALSE
    /\ UNCHANGED <<rows, ledgerLoading, ledgerCalls>>

\* The select, and the effect on statusFilter.
ChangeFilter(f) ==
    /\ LedgerView # "spinner"
    /\ f # statusFilter
    /\ changes < MaxChanges
    /\ statusFilter' = f
    /\ changes' = changes + 1
    /\ ledgerCalls' = ledgerCalls \cup {<<changes + 1, f>>}
    /\ disturbed' = FALSE
    /\ UNCHANGED <<rows, ledgerLoading>>

\* fetchRequests: the answer replaces the rows, whatever the filter is by now.
RowsArrive(c) ==
    /\ c \in ledgerCalls
    /\ ledgerCalls' = ledgerCalls \ {c}
    /\ rows' = c[2]
    /\ ledgerLoading' = FALSE
    /\ disturbed' = (disturbed \/ (c[1] < changes /\ \A d \in ledgerCalls : d[1] # changes))
    /\ UNCHANGED <<statusFilter, changes>>

\* A failure is only logged.
RowsFail(c) ==
    /\ c \in ledgerCalls
    /\ ledgerCalls' = ledgerCalls \ {c}
    /\ ledgerLoading' = FALSE
    /\ disturbed' = (disturbed \/ c[1] = changes)
    /\ UNCHANGED <<statusFilter, rows, changes>>

LedgerNext ==
    \/ \E f \in Filters : ChangeFilter(f)
    \/ \E c \in ledgerCalls : RowsArrive(c) \/ RowsFail(c)

LedgerTypeOK ==
    /\ statusFilter \in Filters
    /\ rows \in Filters \cup {NoRows}
    /\ ledgerLoading \in BOOLEAN /\ disturbed \in BOOLEAN
    /\ ledgerCalls \subseteq (0 .. MaxChanges) \X Filters
    /\ changes \in 0 .. MaxChanges

-----------------------------------------------------------------------------

\* Once the call of the last change is answered, the rows shown are those of
\* the filter shown, however many earlier calls were still under way or had
\* failed; only an earlier call that is answered after it, or its own failure,
\* leaves rows of another filter.
RowsMatchFilter ==
    (\A c \in ledgerCalls : c[1] # changes) /\ ~disturbed => rows = statusFilter

=============================================================================
