-------------------------- MODULE SLAMonitorProofs --------------------------
(***************************************************************************)
(* Safety of the SLA monitor for any number of workers and executions.     *)
(***************************************************************************)
EXTENDS SLAMonitor, FiniteSetTheorems, TLAPS

\* An execution was open after its deadline.
Late(e) == Deadline[e] < now /\ (step[e].completed => Deadline[e] < step[e].ended)

\* The executions a scan has read or changed.
Known(k) == {scanner[k].overdue[i] : i \in 1 .. Len(scanner[k].overdue)} \cup scanner[k].staged

\* All of them are late, although handlers close executions in the meantime.
ScansAreLate == \A k \in Scanners : \A e \in Known(k) : Late(e)

\* A closed execution has no status the filter of the scan accepts.
ClosedIsDecided ==
    \A e \in Executions : step[e].completed => step[e].status \notin {"PENDING", "IN_PROGRESS"}

\* A worker that does not scan holds nothing of an earlier scan.
IdleScans == \A k \in Scanners : ~scanner[k].scanning => scanner[k] = Resting

Inv == TypeOK /\ IdleScans /\ LocksAreStaged /\ FlagMeansEscalated

-----------------------------------------------------------------------------

\* The initial state: nothing is overdue, nobody scans.
LEMMA InitInv == Init => Inv
<1> SUFFICES ASSUME Init PROVE Inv
  OBVIOUS
<1>1. TypeOK
  BY SLAAssumption DEF Init, TypeOK, StepRow, ScannerState, Resting, StepStatus
<1>2. FlagMeansEscalated
  BY DEF Init, FlagMeansEscalated
<1>3. LocksAreStaged
  BY SLAAssumption DEF Init, LocksAreStaged, Resting
<1>4. IdleScans
  BY DEF Init, IdleScans
<1> QED
  BY <1>1, <1>2, <1>3, <1>4 DEF Inv

\* A scan that is not at its end visits an execution, and goes on to the rest.
LEMMA VisitingFacts ==
  ASSUME NEW k \in Scanners, NEW e \in Executions, TypeOK, Visiting(k, e)
  PROVE  /\ scanner[k] \in ScannerState
         /\ scanner[k].overdue \in Seq(Executions) /\ scanner[k].overdue # <<>>
         /\ e = scanner[k].overdue[1]
         /\ Tail(scanner[k].overdue) \in Seq(Executions)
         /\ Len(Tail(scanner[k].overdue)) = Len(scanner[k].overdue) - 1
         /\ \A i \in 1 .. Len(scanner[k].overdue) - 1 :
               Tail(scanner[k].overdue)[i] = scanner[k].overdue[i + 1]
<1>1. scanner[k] \in ScannerState
  BY DEF TypeOK
<1>2. scanner[k].overdue \in Seq(Executions) /\ scanner[k].overdue # <<>>
  BY <1>1 DEF ScannerState, Visiting
<1>3. e = scanner[k].overdue[1]
  BY <1>2 DEF Visiting
<1> QED
  BY <1>1, <1>2, <1>3

\* The steps of a scan keep everything well typed.
LEMMA ScanType ==
  ASSUME NEW k \in Scanners, TypeOK, ScanStep(k) \/ ScanFailure(k)
  PROVE  TypeOK'
<1>1. Resting \in ScannerState
  BY DEF Resting, ScannerState
<1>2. ASSUME Release(k) PROVE lock' \in [Executions -> Scanners \cup {NoOne}]
  BY <1>2 DEF TypeOK, Release
<1>3. ASSUME StartScan(k) PROVE TypeOK'
  <2>1. PICK q \in Orders(Overdue) :
           scanner' = [scanner EXCEPT ![k] = Scanning(q, {}, 0)]
    BY <1>3 DEF StartScan
  <2>2. Cardinality(Overdue) \in Nat
    BY SLAAssumption, FS_Subset, FS_CardinalityType DEF Overdue
  <2>3. q \in Seq(Executions)
    BY <2>2 DEF Orders, Overdue
  <2>4. Scanning(q, {}, 0) \in ScannerState
    BY <2>3 DEF ScannerState, Scanning
  <2> QED
    BY <1>3, <2>1, <2>4 DEF StartScan, TypeOK
<1>4. ASSUME NEW e \in Executions, Escalate(k, e) PROVE TypeOK'
  <2> DEFINE X == Scanning(Tail(scanner[k].overdue), scanner[k].staged \cup {e},
                         scanner[k].breach_count + 1)
  <2>1. X \in ScannerState
    BY <1>4, VisitingFacts DEF Escalate, ScannerState, Scanning
  <2>2. scanner' = [scanner EXCEPT ![k] = X]
    BY <1>4 DEF Escalate
  <2> HIDE DEF X
  <2> QED
    BY <1>4, <2>1, <2>2 DEF Escalate, TypeOK
<1>5. ASSUME NEW e \in Executions, BrokerFails(k, e) PROVE TypeOK'
  <2> DEFINE X == Scanning(Tail(scanner[k].overdue), scanner[k].staged \cup {e},
                         scanner[k].breach_count)
  <2>1. X \in ScannerState
    BY <1>5, VisitingFacts DEF BrokerFails, ScannerState, Scanning
  <2>2. scanner' = [scanner EXCEPT ![k] = X]
    BY <1>5 DEF BrokerFails
  <2> HIDE DEF X
  <2> QED
    BY <1>5, <2>1, <2>2 DEF BrokerFails, TypeOK
<1>6. ASSUME NEW e \in Executions, Visiting(k, e), RollBackAndGoOn(k)
      PROVE  scanner' \in [Scanners -> ScannerState]
  <2> DEFINE X == Scanning(Tail(scanner[k].overdue), {}, scanner[k].breach_count)
  <2>1. X \in ScannerState
    BY <1>6, VisitingFacts DEF ScannerState, Scanning
  <2>2. scanner' = [scanner EXCEPT ![k] = X]
    BY <1>6 DEF RollBackAndGoOn
  <2> HIDE DEF X
  <2> QED
    BY <2>1, <2>2 DEF TypeOK
<1>7. ASSUME NEW e \in Executions, FlushFails(k, e) PROVE TypeOK'
  BY <1>2, <1>6, <1>7 DEF FlushFails, RollBackAndGoOn, TypeOK
<1>8. ASSUME NEW e \in Executions, DeadlockDetected(k, e) PROVE TypeOK'
  <2>1. lock' \in [Executions -> Scanners \cup {NoOne}]
    BY <1>8 DEF DeadlockDetected, TypeOK
  <2> QED
    BY <1>6, <1>8, <2>1 DEF DeadlockDetected, RollBackAndGoOn, TypeOK
<1>9. ASSUME EndScan(k) PROVE TypeOK'
  <2>1. CASE Commit(k)
    <3>1. \A e \in Executions : step[e] \in StepRow
             /\ [step[e] EXCEPT !.is_sla_breached = TRUE] \in StepRow
      BY DEF TypeOK, StepRow
    <3>2. step' \in [Executions -> StepRow]
      BY <2>1, <3>1 DEF Commit
    <3>3. escalations' \in [Executions -> Nat]
      BY <2>1 DEF Commit, TypeOK
    <3> QED
      BY <1>1, <1>2, <1>9, <3>2, <3>3 DEF EndScan, TypeOK
  <2>2. CASE UNCHANGED <<step, escalations>>
    BY <1>1, <1>2, <1>9, <2>2 DEF EndScan, TypeOK
  <2> QED
    BY <1>9, <2>1, <2>2 DEF EndScan
<1>10. ASSUME ScanAborts(k) PROVE TypeOK'
  BY <1>1, <1>2, <1>10 DEF ScanAborts, TypeOK
<1> QED
  BY <1>3, <1>4, <1>5, <1>7, <1>8, <1>9, <1>10 DEF ScanStep, ScanFailure

\* Time, closing an execution and stuttering keep everything well typed.
LEMMA EnvironmentType ==
  ASSUME TypeOK,
         Tick \/ UNCHANGED vars \/ \E e \in Executions, o \in Outcomes : Close(e, o)
  PROVE  TypeOK'
<1>1. CASE Tick
  BY <1>1 DEF Tick, TypeOK
<1>2. CASE UNCHANGED vars
  BY <1>2 DEF vars, TypeOK
<1>3. ASSUME NEW e \in Executions, NEW o \in Outcomes, Close(e, o) PROVE TypeOK'
  <2>1. [step[e] EXCEPT !.status = o, !.completed = TRUE, !.ended = now] \in StepRow
    BY SLAAssumption DEF TypeOK, StepRow
  <2> QED
    BY <1>3, <2>1 DEF Close, TypeOK
<1> QED
  BY <1>1, <1>2, <1>3

LEMMA TypeNext == TypeOK /\ [Next]_vars => TypeOK'
BY ScanType, EnvironmentType DEF Next

-----------------------------------------------------------------------------

\* A scan's flush and rollback leave the other scans' locks and states alone,
\* so that what is staged stays locked.
LEMMA LocksNext ==
  ASSUME TypeOK, IdleScans, LocksAreStaged, [Next]_vars
  PROVE  LocksAreStaged'
<1>1. CASE UNCHANGED <<scanner, lock>>
  BY <1>1 DEF LocksAreStaged, Visiting
<1>2. ASSUME NEW k \in Scanners, ScanStep(k) \/ ScanFailure(k)
      PROVE  LocksAreStaged'
  <2> DEFINE Others == \A j \in Scanners \ {k} : scanner'[j] = scanner[j]
  <2>1. ASSUME NEW e \in Executions, Visiting(k, e), lock[e] \in {NoOne, k},
               lock' = [lock EXCEPT ![e] = k], Others,
               scanner'[k].staged = scanner[k].staged \cup {e}
        PROVE  LocksAreStaged'
    <3>1. \A x \in Executions : lock[x] = k => x \in scanner'[k].staged
      BY <2>1 DEF LocksAreStaged, Visiting
    <3>2. \A x \in Executions : lock'[x] = IF x = e THEN k ELSE lock[x]
      BY <2>1 DEF TypeOK
    <3> QED
      BY <2>1, <3>1, <3>2, SLAAssumption DEF LocksAreStaged, Visiting
  <2>2. ASSUME Release(k), Others, scanner'[k].staged = {} PROVE LocksAreStaged'
    BY <2>2, SLAAssumption DEF Release, LocksAreStaged, Visiting, TypeOK
  <2>3. CASE StartScan(k)
    <3>1. PICK q : scanner' = [scanner EXCEPT ![k] = Scanning(q, {}, 0)]
      BY <2>3 DEF StartScan
    <3>2. scanner[k].staged = {} /\ \A x \in Executions : lock[x] # k
      BY <2>3 DEF StartScan, IdleScans, Resting, LocksAreStaged, Visiting
    <3> QED
      BY <2>3, <3>1, <3>2 DEF StartScan, Scanning, LocksAreStaged, Visiting, TypeOK
  <2>4. ASSUME NEW e \in Executions, Escalate(k, e) \/ BrokerFails(k, e)
        PROVE  LocksAreStaged'
    <3>1. /\ Visiting(k, e) /\ lock[e] \in {NoOne, k} /\ lock' = [lock EXCEPT ![e] = k]
          /\ \E n : scanner' = [scanner EXCEPT ![k] =
                Scanning(Tail(scanner[k].overdue), scanner[k].staged \cup {e}, n)]
      BY <2>4 DEF Escalate, BrokerFails
    <3>2. Others /\ scanner'[k].staged = scanner[k].staged \cup {e}
      BY <3>1 DEF Scanning, TypeOK
    <3> QED
      BY <2>1, <3>1, <3>2
  <2>5. ASSUME NEW e \in Executions, FlushFails(k, e) PROVE LocksAreStaged'
    BY <2>2, <2>5 DEF FlushFails, RollBackAndGoOn, Scanning, TypeOK
  <2>6. ASSUME NEW e \in Executions, DeadlockDetected(k, e) PROVE LocksAreStaged'
    <3>1. PICK j \in Scanners \ {k}, f \in LocksOf(k) :
             /\ Visiting(j, f)
             /\ lock' = [x \in Executions |-> IF x = f THEN j
                                              ELSE IF lock[x] = k THEN NoOne ELSE lock[x]]
      BY <2>6 DEF DeadlockDetected
    <3>2. Others /\ scanner'[k].staged = {}
      BY <2>6 DEF DeadlockDetected, RollBackAndGoOn, Scanning, TypeOK
    <3>3. f \in Executions /\ lock[f] = k
      BY DEF LocksOf
    <3>4. \A i \in Scanners \ {k}, x \in Executions :
             /\ x \in scanner'[i].staged => lock'[x] = i
             /\ lock'[x] = i => x \in scanner'[i].staged \/ Visiting(i, x)
      BY <3>1, <3>2, <3>3, SLAAssumption DEF LocksAreStaged
    <3>5. \A x \in Executions : lock'[x] # k
      BY <3>1, SLAAssumption
    <3>6. \A i \in Scanners \ {k}, x \in Executions : Visiting(i, x) => Visiting(i, x)'
      BY <3>2 DEF Visiting
    <3> QED
      BY <3>2, <3>4, <3>5, <3>6 DEF LocksAreStaged
  <2>7. CASE EndScan(k) \/ ScanAborts(k)
    BY <2>2, <2>7 DEF EndScan, ScanAborts, Resting, TypeOK
  <2> QED
    BY <1>2, <2>3, <2>4, <2>5, <2>6, <2>7 DEF ScanStep, ScanFailure
<1> QED
  BY <1>1, <1>2 DEF Next, Tick, Close, vars

\* Every step keeps idle workers idle.
LEMMA IdleNext ==
  ASSUME TypeOK, IdleScans, [Next]_vars
  PROVE  IdleScans'
<1>1. CASE UNCHANGED scanner
  BY <1>1 DEF IdleScans
<1>2. ASSUME NEW k \in Scanners, NEW X, scanner' = [scanner EXCEPT ![k] = X],
             X.scanning \/ X = Resting
      PROVE  IdleScans'
  BY <1>2 DEF IdleScans, TypeOK
<1>3. ASSUME NEW k \in Scanners, ScanStep(k) \/ ScanFailure(k) PROVE IdleScans'
  <2>1. \A q, S, n : Scanning(q, S, n).scanning
    BY DEF Scanning
  <2>2. \/ \E q, S, n : scanner' = [scanner EXCEPT ![k] = Scanning(q, S, n)]
        \/ scanner' = [scanner EXCEPT ![k] = Resting]
    <3>1. CASE StartScan(k)
      BY <3>1 DEF StartScan
    <3>2. ASSUME NEW e \in Executions, Escalate(k, e) \/ BrokerFails(k, e)
          PROVE  \E q, S, n : scanner' = [scanner EXCEPT ![k] = Scanning(q, S, n)]
      BY <3>2 DEF Escalate, BrokerFails
    <3>3. ASSUME NEW e \in Executions, FlushFails(k, e) \/ DeadlockDetected(k, e)
          PROVE  \E q, S, n : scanner' = [scanner EXCEPT ![k] = Scanning(q, S, n)]
      BY <3>3 DEF FlushFails, DeadlockDetected, RollBackAndGoOn
    <3>4. CASE EndScan(k) \/ ScanAborts(k)
      BY <3>4 DEF EndScan, ScanAborts
    <3> QED
      BY <1>3, <3>1, <3>2, <3>3, <3>4 DEF ScanStep, ScanFailure
  <2> QED
    BY <1>2, <2>1, <2>2
<1> QED
  BY <1>1, <1>3 DEF Next, Tick, Close, vars

\* The flag is set together with an escalation record.
LEMMA FlagNext ==
  ASSUME TypeOK, FlagMeansEscalated, [Next]_vars
  PROVE  FlagMeansEscalated'
<1>1. CASE UNCHANGED <<step, escalations>>
  BY <1>1 DEF FlagMeansEscalated
<1>2. ASSUME NEW e \in Executions, NEW o \in Outcomes, Close(e, o)
      PROVE  FlagMeansEscalated'
  <2>1. \A x \in Executions : step'[x].is_sla_breached = step[x].is_sla_breached
    BY <1>2 DEF Close, TypeOK, StepRow
  <2> QED
    BY <1>2, <2>1 DEF Close, FlagMeansEscalated
<1>3. ASSUME NEW k \in Scanners, Commit(k) PROVE FlagMeansEscalated'
  <2>1. \A x \in Executions :
           /\ step'[x].is_sla_breached <=>
                 x \in scanner[k].staged \/ step[x].is_sla_breached
           /\ escalations'[x] =
                 IF x \in scanner[k].staged THEN escalations[x] + 1 ELSE escalations[x]
    BY <1>3 DEF Commit, TypeOK, StepRow
  <2>2. \A x \in Executions : escalations[x] \in Nat
    BY DEF TypeOK
  <2> QED
    BY <2>1, <2>2 DEF FlagMeansEscalated
<1>4. ASSUME NEW k \in Scanners, ScanStep(k) \/ ScanFailure(k)
      PROVE  UNCHANGED <<step, escalations>> \/ Commit(k)
  BY <1>4 DEF ScanStep, ScanFailure, StartScan, Escalate, BrokerFails, FlushFails,
              DeadlockDetected, RollBackAndGoOn, EndScan, ScanAborts
<1> QED
  BY <1>1, <1>2, <1>3, <1>4 DEF Next, Tick, vars

LEMMA InvHolds == Spec => []Inv
<1>1. Inv /\ [Next]_vars => Inv'
  BY TypeNext, IdleNext, LocksNext, FlagNext DEF Inv
<1> QED
  BY InitInv, <1>1, PTL DEF Spec

\* Every row, scan and lock stays well typed, for any number of workers.
THEOREM MonitorWellTyped == Spec => []TypeOK
BY InvHolds, PTL DEF Inv

\* Whatever fails, is rolled back or is done by several workers at once: an
\* execution is flagged exactly if an escalation was committed for it
\* (_escalate_step changes both in one transaction).
THEOREM FlagsAndEscalationsAgree == Spec => []FlagMeansEscalated
BY InvHolds, PTL DEF Inv

\* What a scan has flushed stays locked by it until it ends, also when a
\* deadlock gives the rows of another scan away, and a scan holds no lock
\* beyond what it has changed or is about to change.
THEOREM StagedRowsAreLocked == Spec => []LocksAreStaged
BY InvHolds, PTL DEF Inv

-----------------------------------------------------------------------------
\* Nobody is blamed for a step done in time.

LateInv == ScansAreLate /\ ClosedIsDecided /\ BreachWasLate

\* A late execution stays late: time goes on, and a handler that closes it
\* stamps it with the current time.
LEMMA LateStays ==
  ASSUME TypeOK, [Next]_vars, NEW e \in Executions, Late(e)
  PROVE  Late(e)'
<1>1. Deadline[e] \in Nat /\ now \in Nat /\ step \in [Executions -> StepRow]
  BY SLAAssumption DEF TypeOK
<1>2. CASE UNCHANGED <<now, step>>
  BY <1>2 DEF Late
<1>3. CASE Tick
  BY <1>1, <1>3 DEF Tick, Late
<1>4. ASSUME NEW x \in Executions, NEW o \in Outcomes, Close(x, o) PROVE Late(e)'
  BY <1>1, <1>4 DEF Close, Late, StepRow
<1>5. ASSUME NEW k \in Scanners, ScanStep(k) \/ ScanFailure(k)
      PROVE  UNCHANGED <<now, step>> \/ (UNCHANGED now /\ Commit(k))
  BY <1>5 DEF ScanStep, ScanFailure, StartScan, Escalate, BrokerFails, FlushFails,
              DeadlockDetected, RollBackAndGoOn, EndScan, ScanAborts
<1>6. ASSUME NEW k \in Scanners, UNCHANGED now, Commit(k) PROVE Late(e)'
  BY <1>1, <1>6 DEF Commit, Late, StepRow
<1> QED
  BY <1>2, <1>3, <1>4, <1>5, <1>6 DEF Next, vars

\* A scan knows executions of the table.
LEMMA KnownType ==
  ASSUME TypeOK, NEW k \in Scanners
  PROVE  Known(k) \subseteq Executions
<1>1. scanner[k].overdue \in Seq(Executions) /\ scanner[k].staged \subseteq Executions
  BY DEF TypeOK, ScannerState
<1> QED
  BY <1>1 DEF Known

\* A step adds nothing to what a scan knows but overdue executions.
LEMMA KnownNext ==
  ASSUME TypeOK, [Next]_vars, NEW j \in Scanners
  PROVE  Known(j)' \subseteq Known(j) \cup Overdue
<1>1. CASE UNCHANGED scanner
  BY <1>1 DEF Known
<1>2. ASSUME NEW k \in Scanners, ScanStep(k) \/ ScanFailure(k)
      PROVE  Known(j)' \subseteq Known(j) \cup Overdue
  <2>1. ASSUME NEW X, scanner' = [scanner EXCEPT ![k] = X],
               {X.overdue[i] : i \in 1 .. Len(X.overdue)} \cup X.staged
                  \subseteq Known(k) \cup Overdue
        PROVE  Known(j)' \subseteq Known(j) \cup Overdue
    BY <2>1 DEF Known, TypeOK
  <2>2. CASE StartScan(k)
    <3>1. PICK q \in Orders(Overdue) : scanner' = [scanner EXCEPT ![k] = Scanning(q, {}, 0)]
      BY <2>2 DEF StartScan
    <3>2. Cardinality(Overdue) \in Nat
      BY SLAAssumption, FS_Subset, FS_CardinalityType DEF Overdue
    <3>3. \A i \in 1 .. Len(q) : q[i] \in Overdue
      BY <3>2 DEF Orders
    <3> QED
      BY <2>1, <3>1, <3>3 DEF Scanning
  <2>3. ASSUME NEW e \in Executions, NEW S, NEW n, Visiting(k, e),
               S \subseteq scanner[k].staged \cup {e},
               scanner' = [scanner EXCEPT ![k] = Scanning(Tail(scanner[k].overdue), S, n)]
        PROVE  Known(j)' \subseteq Known(j) \cup Overdue
    <3> DEFINE q == scanner[k].overdue
               X == Scanning(Tail(q), S, n)
    <3>1. /\ q \in Seq(Executions) /\ q # <<>> /\ e = q[1]
          /\ Tail(q) \in Seq(Executions) /\ Len(Tail(q)) = Len(q) - 1
          /\ \A i \in 1 .. Len(q) - 1 : Tail(q)[i] = q[i + 1]
      BY <2>3, VisitingFacts
    <3>2. \A i \in 1 .. Len(Tail(q)) : Tail(q)[i] \in Known(k)
      BY <3>1 DEF Known
    <3>3. e \in Known(k)
      BY <3>1 DEF Known
    <3>4. S \subseteq Known(k)
      BY <2>3, <3>3 DEF Known
    <3>5. X.overdue = Tail(q) /\ X.staged = S
      BY DEF Scanning
    <3> HIDE DEF X
    <3> QED
      BY <2>1, <2>3, <3>2, <3>4, <3>5 DEF X
  <2>4. ASSUME NEW e \in Executions, Escalate(k, e) \/ BrokerFails(k, e)
        PROVE  Known(j)' \subseteq Known(j) \cup Overdue
    <3>1. CASE Escalate(k, e)
      BY <2>3, <3>1 DEF Escalate
    <3>2. CASE BrokerFails(k, e)
      BY <2>3, <3>2 DEF BrokerFails
    <3> QED
      BY <2>4, <3>1, <3>2
  <2>5. ASSUME NEW e \in Executions, FlushFails(k, e) \/ DeadlockDetected(k, e)
        PROVE  Known(j)' \subseteq Known(j) \cup Overdue
    <3>1. Visiting(k, e) /\ RollBackAndGoOn(k)
      BY <2>5 DEF FlushFails, DeadlockDetected
    <3>2. PICK S, n : /\ S \subseteq scanner[k].staged \cup {e}
                      /\ scanner' = [scanner EXCEPT ![k] =
                                        Scanning(Tail(scanner[k].overdue), S, n)]
      <4> WITNESS {}, scanner[k].breach_count
      <4> QED
        BY <3>1 DEF RollBackAndGoOn
    <3> QED
      BY <2>3, <3>1, <3>2
  <2>6. CASE EndScan(k) \/ ScanAborts(k)
    <3>1. scanner' = [scanner EXCEPT ![k] = Resting]
      BY <2>6 DEF EndScan, ScanAborts
    <3>2. Resting.overdue = <<>> /\ Resting.staged = {}
      BY DEF Resting
    <3>3. 1 .. Len(<<>>) = {}
      OBVIOUS
    <3>4. {Resting.overdue[i] : i \in 1 .. Len(Resting.overdue)} \cup Resting.staged
             \subseteq Known(k) \cup Overdue
      BY <3>2, <3>3
    <3> QED
      BY ONLY <2>1, <3>1, <3>4
  <2> QED
    BY <1>2, <2>2, <2>4, <2>5, <2>6 DEF ScanStep, ScanFailure
<1> QED
  BY <1>1, <1>2 DEF Next, Tick, Close, vars

\* If no execution is closed with a status the filter of the scan takes for an
\* open one, an execution is only flagged if it was open after its deadline.
THEOREM FlaggedStepsWereLate ==
  ASSUME Outcomes \cap {"PENDING", "IN_PROGRESS"} = {}
  PROVE  Spec => []BreachWasLate
<1>1. Init => TypeOK /\ LateInv
  <2> SUFFICES ASSUME Init PROVE TypeOK /\ LateInv
    OBVIOUS
  <2>1. TypeOK
    BY InitInv DEF Inv
  <2>2. ScansAreLate
    BY DEF Init, ScansAreLate, Known, Resting
  <2>3. ClosedIsDecided /\ BreachWasLate
    BY DEF Init, ClosedIsDecided, BreachWasLate
  <2> QED
    BY <2>1, <2>2, <2>3 DEF LateInv
<1>2. TypeOK /\ LateInv /\ [Next]_vars => TypeOK' /\ LateInv'
  <2> SUFFICES ASSUME TypeOK, LateInv, [Next]_vars PROVE LateInv'
    BY TypeNext
  <2>1. ScansAreLate'
    <3> SUFFICES ASSUME NEW k \in Scanners, NEW e \in Known(k)' PROVE Late(e)'
      BY DEF ScansAreLate
    <3>1. e \in Executions
      BY KnownType, KnownNext DEF Overdue
    <3>2. Late(e)
      BY <3>1, KnownNext DEF LateInv, ScansAreLate, ClosedIsDecided, Overdue, Late
    <3> QED
      BY <3>1, <3>2, LateStays
  <2>2. ClosedIsDecided'
    <3>1. CASE UNCHANGED step
      BY <3>1 DEF LateInv, ClosedIsDecided
    <3>2. ASSUME NEW x \in Executions, NEW o \in Outcomes, Close(x, o) PROVE ClosedIsDecided'
      BY <3>2 DEF Close, TypeOK, StepRow, LateInv, ClosedIsDecided
    <3>3. ASSUME NEW k \in Scanners, Commit(k) PROVE ClosedIsDecided'
      BY <3>3 DEF Commit, TypeOK, StepRow, LateInv, ClosedIsDecided
    <3> QED
      BY <3>1, <3>2, <3>3 DEF Next, Tick, vars, ScanStep, ScanFailure, StartScan, Escalate,
           BrokerFails, FlushFails, DeadlockDetected, RollBackAndGoOn, EndScan, ScanAborts
  <2>3. \A e \in Executions : step'[e].is_sla_breached =>
           step[e].is_sla_breached \/ \E k \in Scanners : e \in scanner[k].staged
    <3>1. CASE UNCHANGED step
      BY <3>1
    <3>2. ASSUME NEW x \in Executions, NEW o \in Outcomes, Close(x, o), NEW e \in Executions
          PROVE  step'[e].is_sla_breached => step[e].is_sla_breached
      BY <3>2 DEF Close, TypeOK, StepRow
    <3>3. ASSUME NEW k \in Scanners, Commit(k), NEW e \in Executions
          PROVE  step'[e].is_sla_breached => step[e].is_sla_breached \/ e \in scanner[k].staged
      BY <3>3 DEF Commit, TypeOK, StepRow
    <3> QED
      BY <3>1, <3>2, <3>3 DEF Next, Tick, vars, ScanStep, ScanFailure, StartScan, Escalate,
           BrokerFails, FlushFails, DeadlockDetected, RollBackAndGoOn, EndScan, ScanAborts
  <2>4. BreachWasLate'
    <3> SUFFICES ASSUME NEW e \in Executions, step'[e].is_sla_breached PROVE Late(e)'
      BY DEF BreachWasLate, Late
    <3>1. Late(e)
      BY <2>3 DEF LateInv, BreachWasLate, ScansAreLate, Known, Late
    <3> QED
      BY <3>1, LateStays
  <2> QED
    BY <2>1, <2>2, <2>4 DEF LateInv
<1>3. LateInv => BreachWasLate
  BY DEF LateInv
<1> QED
  BY <1>1, <1>2, <1>3, PTL DEF Spec

-----------------------------------------------------------------------------
\* How often one breach can be escalated.

\* The workers whose scan has read or changed an execution.
Readers(e) == {k \in Scanners : e \in Known(k)}

\* One escalation for each worker at most.
EscalatedPerWorker == \A e \in Executions : escalations[e] <= Cardinality(Scanners)

\* A scan that has read an execution may still escalate it, whoever has
\* escalated it meanwhile; but nobody reads it again once it is flagged.
TurnsLeft ==
    \A e \in Executions : escalations[e] + Cardinality(Readers(e)) <= Cardinality(Scanners)

LEMMA ReadersFinite ==
  ASSUME IsFiniteSet(Scanners), NEW S \in SUBSET Scanners
  PROVE  IsFiniteSet(S) /\ Cardinality(S) \in Nat /\ Cardinality(S) <= Cardinality(Scanners)
BY FS_Subset, FS_CardinalityType

\* A commit takes its scan out of the readers of what it escalates; a new scan
\* reads only what was never escalated.
LEMMA TurnsNext ==
  ASSUME IsFiniteSet(Scanners), Inv, TurnsLeft, [Next]_vars
  PROVE  TurnsLeft'
<1> SUFFICES ASSUME NEW e \in Executions
             PROVE  escalations'[e] + Cardinality(Readers(e)') <= Cardinality(Scanners)
  BY DEF TurnsLeft
<1>1. /\ Readers(e) \in SUBSET Scanners /\ Readers(e)' \in SUBSET Scanners
      /\ TypeOK /\ FlagMeansEscalated
  BY DEF Readers, Inv
<1>2. /\ IsFiniteSet(Readers(e)) /\ Cardinality(Readers(e)) \in Nat
      /\ Cardinality(Readers(e)') \in Nat
      /\ Cardinality(Readers(e)') <= Cardinality(Scanners)
      /\ Cardinality(Scanners) \in Nat
  BY <1>1, ReadersFinite
<1>3. escalations[e] \in Nat /\ escalations[e] + Cardinality(Readers(e)) <= Cardinality(Scanners)
  BY <1>1 DEF TypeOK, TurnsLeft
<1>4. ASSUME Readers(e)' \subseteq Readers(e) PROVE Cardinality(Readers(e)') <= Cardinality(Readers(e))
  BY <1>2, <1>4, FS_Subset
<1>5. CASE UNCHANGED escalations
  <2>1. CASE e \in Overdue
    <3>1. escalations[e] = 0
      BY <1>1, <1>3, <2>1 DEF Overdue, FlagMeansEscalated
    <3> QED
      BY <1>2, <1>5, <3>1
  <2>2. CASE e \notin Overdue
    <3>1. Readers(e)' \subseteq Readers(e)
      BY <1>1, <2>2, KnownNext DEF Readers
    <3> QED
      BY <1>2, <1>3, <1>4, <1>5, <3>1
  <2> QED
    BY <2>1, <2>2
<1>6. ASSUME NEW k \in Scanners, EndScan(k), Commit(k)
      PROVE  escalations'[e] + Cardinality(Readers(e)') <= Cardinality(Scanners)
  <2>1. scanner'[k] = Resting /\ \A j \in Scanners \ {k} : scanner'[j] = scanner[j]
    BY <1>1, <1>6 DEF EndScan, TypeOK
  <2>2. Known(k)' = {}
    <3>1. Resting.overdue = <<>> /\ Resting.staged = {} /\ 1 .. Len(<<>>) = {}
      BY DEF Resting
    <3> QED
      BY <2>1, <3>1 DEF Known
  <2>3. \A j \in Scanners \ {k} : Known(j)' = Known(j)
    BY <2>1 DEF Known
  <2>4. Readers(e)' = Readers(e) \ {k}
    BY <2>2, <2>3 DEF Readers
  <2>5. escalations'[e] = IF e \in scanner[k].staged THEN escalations[e] + 1 ELSE escalations[e]
    BY <1>6 DEF Commit
  <2>6. CASE e \in scanner[k].staged
    <3>1. k \in Readers(e)
      BY <2>6 DEF Readers, Known
    <3>2. Cardinality(Readers(e) \ {k}) = Cardinality(Readers(e)) - 1
      BY <1>2, <3>1, FS_RemoveElement
    <3> QED
      BY <1>2, <1>3, <2>4, <2>5, <2>6, <3>2
  <2>7. CASE e \notin scanner[k].staged
    BY <1>2, <1>3, <1>4, <2>4, <2>5, <2>7
  <2> QED
    BY <2>6, <2>7
<1>7. UNCHANGED escalations \/ \E k \in Scanners : EndScan(k) /\ Commit(k)
  BY DEF Next, Tick, Close, vars, ScanStep, ScanFailure, StartScan, Escalate, BrokerFails,
         FlushFails, DeadlockDetected, RollBackAndGoOn, EndScan, ScanAborts
<1> QED
  BY <1>5, <1>6, <1>7

\* However many scans overlap, fail and are repeated, an execution is escalated
\* at most once by each worker process: scan_for_breaches leaves out what is
\* flagged, and only scans that began before the flag was committed can
\* escalate it again.
THEOREM EscalationsPerWorker ==
  ASSUME IsFiniteSet(Scanners)
  PROVE  Spec => []EscalatedPerWorker
<1>1. Init => Inv /\ TurnsLeft
  <2> SUFFICES ASSUME Init, NEW e \in Executions
               PROVE  escalations[e] + Cardinality(Readers(e)) <= Cardinality(Scanners)
    BY InitInv DEF TurnsLeft
  <2>1. Readers(e) \in SUBSET Scanners /\ escalations[e] = 0
    BY DEF Init, Readers
  <2> QED
    BY <2>1, ReadersFinite
<1>2. Inv /\ TurnsLeft /\ [Next]_vars => Inv' /\ TurnsLeft'
  BY TypeNext, IdleNext, LocksNext, FlagNext, TurnsNext DEF Inv
<1>3. Inv /\ TurnsLeft => EscalatedPerWorker
  <2> SUFFICES ASSUME Inv, TurnsLeft, NEW e \in Executions
               PROVE  escalations[e] <= Cardinality(Scanners)
    BY DEF EscalatedPerWorker
  <2>1. escalations[e] \in Nat /\ Readers(e) \in SUBSET Scanners
    BY DEF Inv, TypeOK, Readers
  <2>2. Cardinality(Readers(e)) \in Nat /\ Cardinality(Scanners) \in Nat
    BY <2>1, ReadersFinite, FS_CardinalityType
  <2> QED
    BY <2>1, <2>2 DEF TurnsLeft
<1> QED
  BY <1>1, <1>2, <1>3, PTL DEF Spec

\* A single worker process escalates a breach once, whatever fails meanwhile.
THEOREM OneWorkerEscalatesOnce ==
  ASSUME \A j, k \in Scanners : j = k
  PROVE  Spec => []EscalatedOnce
<1>1. IsFiniteSet(Scanners) /\ Cardinality(Scanners) \in {0, 1}
  <2>1. CASE Scanners = {}
    BY <2>1, FS_EmptySet
  <2>2. ASSUME NEW k \in Scanners PROVE IsFiniteSet(Scanners) /\ Cardinality(Scanners) = 1
    <3>1. Scanners = {k}
      OBVIOUS
    <3> QED
      BY <3>1, FS_Singleton
  <2> QED
    BY <2>1, <2>2
<1>2. Inv /\ EscalatedPerWorker => EscalatedOnce
  BY <1>1 DEF Inv, TypeOK, EscalatedPerWorker, EscalatedOnce
<1>3. Spec => []EscalatedPerWorker
  BY <1>1, EscalationsPerWorker
<1> QED
  BY InvHolds, <1>2, <1>3, PTL

=============================================================================
