----------------------- MODULE WorkflowDesignerProofs -----------------------
(***************************************************************************)
(* What the designer of workflows guarantees for any number of steps, any  *)
(* roles and any JSON source: the wizard's draft stays well formed, its    *)
(* transitions are current when they can be submitted, and the server      *)
(* stores the chain that was drawn, or written.                            *)
(***************************************************************************)
EXTENDS WorkflowDesigner, TLAPS

\* Steps of a wizard that has given out ids 1 .. n.
WellFormed(steps, n) ==
    /\ steps \in Seq(WizardStep)
    /\ \A i \in DOMAIN steps : steps[i].tempId <= n
    /\ \A i, j \in DOMAIN steps : steps[i].tempId = steps[j].tempId => i = j
    /\ \A i \in DOMAIN steps : steps[i].step_order = i

\* Nodes the administrator writes or pastes, and those handleAddStep appends.
JsonNode ==
    (UNION {{n[i] : i \in DOMAIN n} : n \in JsonSources}) \cup [order : Nat, role : RoleNames]

\* A draft that was submitted: current when it was, and it does not change.
DraftSound(w) ==
    /\ w.mode = "wizard" =>
          /\ WellFormed(w.source, MaxAdded)
          /\ w.source # <<>>
          /\ w.payload = WizardPayload(w.source, DefaultTransitions(w.source))
    /\ w.mode = "json" =>
          /\ w.source \in Seq(JsonNode)
          /\ w.payload = JsonPayload(w.source, w.known)

Inv ==
    /\ step \in 1 .. 3
    /\ added \in 0 .. MaxAdded
    /\ WellFormed(workflowSteps, added)
    /\ nodes \in Seq(JsonNode)
    /\ ChainIsCurrent
    /\ OneSubmission
    /\ \A c \in calls : DraftSound(c.draft)
    /\ \A w \in stored : DraftSound(w)

-----------------------------------------------------------------------------
\* The operations on the wizard's steps.

\* addStep gives out a new id and the next number.
LEMMA AddedWellFormed ==
  ASSUME NEW steps, NEW n \in Nat, n < MaxAdded, WellFormed(steps, n)
  PROVE  WellFormed(Append(steps, [tempId |-> n + 1, step_order |-> Len(steps) + 1,
                                   role |-> NoRole]), n + 1)
<1> DEFINE new == [tempId |-> n + 1, step_order |-> Len(steps) + 1, role |-> NoRole]
           longer == Append(steps, new)
<1>1. steps \in Seq(WizardStep) /\ Len(steps) \in Nat
  BY DEF WellFormed
<1>2. new \in WizardStep
  BY <1>1, DesignerAssumption DEF WizardStep
<1> HIDE DEF new
<1>3. /\ longer \in Seq(WizardStep)
      /\ Len(longer) = Len(steps) + 1
      /\ longer[Len(steps) + 1] = new
      /\ \A i \in 1 .. Len(steps) : longer[i] = steps[i]
  BY <1>1, <1>2
<1>4. new.tempId = n + 1 /\ new.step_order = Len(steps) + 1
  BY DEF new
<1>5. DOMAIN longer = 1 .. Len(steps) + 1 /\ DOMAIN steps = 1 .. Len(steps)
  BY <1>1, <1>3
<1>6. \A i \in 1 .. Len(steps) : steps[i] \in WizardStep
  BY <1>1
<1> HIDE DEF longer
<1>7. \A i \in DOMAIN longer : i \in 1 .. Len(steps) \/ i = Len(steps) + 1
  BY <1>1, <1>5
<1>8. \A i \in 1 .. Len(steps) : steps[i].tempId \in Nat /\ steps[i].tempId <= n
  BY <1>5, <1>6 DEF WellFormed, WizardStep
<1>9. WellFormed(longer, n + 1)
  <2>1. \A i \in DOMAIN longer : longer[i].tempId <= n + 1
    BY <1>3, <1>4, <1>7, <1>8
  <2>2. \A i, j \in DOMAIN longer : longer[i].tempId = longer[j].tempId => i = j
    BY <1>3, <1>4, <1>5, <1>7, <1>8 DEF WellFormed
  <2>3. \A i \in DOMAIN longer : longer[i].step_order = i
    BY <1>3, <1>4, <1>5, <1>7 DEF WellFormed
  <2> QED
    BY <1>3, <2>1, <2>2, <2>3 DEF WellFormed
<1> QED
  BY <1>9 DEF longer, new

\* removeStep closes the gap and numbers what is left from 1 on.
LEMMA RemovedWellFormed ==
  ASSUME NEW steps, NEW n \in Nat, WellFormed(steps, n), NEW k \in DOMAIN steps
  PROVE  WellFormed(Renumbered(Without(steps, k)), n)
<1> DEFINE left == Without(steps, k)
           at(i) == IF i < k THEN i ELSE i + 1
<1>1. /\ steps \in Seq(WizardStep) /\ Len(steps) \in Nat
      /\ DOMAIN steps = 1 .. Len(steps) /\ k \in 1 .. Len(steps)
  BY DEF WellFormed
<1>2. /\ DOMAIN left = 1 .. Len(steps) - 1
      /\ \A i \in DOMAIN left : at(i) \in DOMAIN steps /\ left[i] = steps[at(i)]
  BY <1>1 DEF Without
<1>3. \A i \in DOMAIN steps : steps[i] \in WizardStep
  BY <1>1
<1>4. \A i, j \in DOMAIN left : at(i) = at(j) => i = j
  BY <1>1, <1>2
<1> HIDE DEF left, at
<1> DEFINE new == Renumbered(left)
<1>5. /\ DOMAIN new = 1 .. Len(steps) - 1
      /\ new = [i \in DOMAIN new |-> new[i]]
      /\ \A i \in DOMAIN new : new[i] = [steps[at(i)] EXCEPT !.step_order = i]
  BY <1>2 DEF Renumbered
<1>6. \A i \in DOMAIN new :
        /\ new[i] \in WizardStep
        /\ new[i].tempId = steps[at(i)].tempId
        /\ new[i].step_order = i
  <2> SUFFICES ASSUME NEW i \in DOMAIN new
               PROVE  /\ new[i] \in WizardStep
                      /\ new[i].tempId = steps[at(i)].tempId
                      /\ new[i].step_order = i
    OBVIOUS
  <2>1. i \in Nat /\ at(i) \in DOMAIN steps
    BY <1>1, <1>2, <1>5
  <2>2. steps[at(i)] \in WizardStep
    BY <2>1, <1>3
  <2>3. new[i] = [steps[at(i)] EXCEPT !.step_order = i]
    BY <1>5
  <2> QED
    BY <2>1, <2>2, <2>3 DEF WizardStep
<1> HIDE DEF new
<1>7. new \in Seq(WizardStep)
  <2>1. Len(steps) - 1 \in Nat
    BY <1>1
  <2>2. new \in [1 .. Len(steps) - 1 -> WizardStep]
    BY <1>5, <1>6
  <2> QED
    BY <2>1, <2>2
<1>8. \A i \in DOMAIN new : new[i].tempId <= n
  BY <1>2, <1>5, <1>6 DEF WellFormed
<1>9. \A i, j \in DOMAIN new : new[i].tempId = new[j].tempId => i = j
  BY <1>2, <1>4, <1>5, <1>6 DEF WellFormed
<1> QED
  BY <1>6, <1>7, <1>8, <1>9 DEF WellFormed, new, left

\* updateStep changes neither ids nor numbers.
LEMMA UpdatedWellFormed ==
  ASSUME NEW steps, NEW n \in Nat, WellFormed(steps, n), NEW k \in DOMAIN steps,
         NEW r \in RoleNames \cup {NoRole}
  PROVE  WellFormed([steps EXCEPT ![k] = [@ EXCEPT !.role = r]], n)
<1> DEFINE new == [steps EXCEPT ![k] = [@ EXCEPT !.role = r]]
<1>1. /\ steps \in Seq(WizardStep) /\ Len(steps) \in Nat
      /\ DOMAIN steps = 1 .. Len(steps)
      /\ \A i \in DOMAIN steps : steps[i] \in WizardStep
  BY DEF WellFormed
<1>2. [steps[k] EXCEPT !.role = r] \in WizardStep
  BY <1>1 DEF WizardStep
<1>3. /\ DOMAIN new = DOMAIN steps
      /\ new = [i \in DOMAIN new |-> new[i]]
      /\ \A i \in DOMAIN steps :
            new[i] = IF i = k THEN [steps[k] EXCEPT !.role = r] ELSE steps[i]
  BY <1>1
<1> HIDE DEF new
<1>4. \A i \in DOMAIN new :
        /\ new[i] \in WizardStep
        /\ new[i].tempId = steps[i].tempId
        /\ new[i].step_order = steps[i].step_order
  BY <1>1, <1>2, <1>3 DEF WizardStep
<1>5. new \in Seq(WizardStep)
  <2>1. new \in [1 .. Len(steps) -> WizardStep]
    BY <1>1, <1>3, <1>4
  <2> QED
    BY <1>1, <2>1
<1> QED
  BY <1>3, <1>4, <1>5 DEF WellFormed, new

-----------------------------------------------------------------------------
\* The steps of the editor preserve the invariant.

\* A source the administrator writes is a list of nodes.
LEMMA SourceNodes ==
  ASSUME NEW n \in JsonSources
  PROVE  n \in Seq(JsonNode)
<1>1. n \in Seq({n[i] : i \in DOMAIN n})
  BY DesignerAssumption
<1>2. {n[i] : i \in DOMAIN n} \subseteq JsonNode
  BY DEF JsonNode
<1> QED
  BY <1>1, <1>2

\* What a click submits is sound: the button is there only in JSON mode or at
\* the last step of the wizard.
LEMMA SubmittedSound ==
  ASSUME Inv, SubmitEnabled
  PROVE  DraftSound(Submitted)
<1>1. CASE mode = "wizard"
  <2>1. step = 3
    BY <1>1 DEF SubmitEnabled
  <2>2. workflowSteps # <<>> /\ transitions = DefaultTransitions(workflowSteps)
    BY <2>1 DEF Inv, ChainIsCurrent
  <2>3. /\ Submitted.mode = "wizard"
        /\ Submitted.source = workflowSteps
        /\ Submitted.payload = WizardPayload(workflowSteps, transitions)
    BY <1>1 DEF Submitted
  <2>4. WellFormed(workflowSteps, MaxAdded)
    <3>1. workflowSteps \in Seq(WizardStep) /\ WellFormed(workflowSteps, added)
      BY DEF Inv, WellFormed
    <3>2. \A i \in DOMAIN workflowSteps : workflowSteps[i] \in WizardStep
      BY <3>1
    <3>3. \A i \in DOMAIN workflowSteps : workflowSteps[i].tempId <= MaxAdded
      BY <3>2, DesignerAssumption DEF WizardStep
    <3> QED
      BY <3>1, <3>3 DEF WellFormed
  <2> QED
    BY <2>2, <2>3, <2>4 DEF DraftSound
<1>2. CASE mode # "wizard"
  <2>1. /\ Submitted.mode = mode /\ Submitted.source = nodes /\ Submitted.known = roles
        /\ Submitted.payload = JsonPayload(nodes, roles)
    BY <1>2 DEF Submitted
  <2>2. nodes \in Seq(JsonNode)
    BY DEF Inv
  <2> QED
    BY <1>2, <2>1, <2>2 DEF DraftSound
<1> QED
  BY <1>1, <1>2

\* Editing touches neither calls nor the server.
LEMMA EditStep ==
  ASSUME Inv, Edit, UNCHANGED <<place, roles, isSubmitting, calls, stored>>
  PROVE  Inv'
<1> USE DEF Inv
<1>1. OneSubmission' /\ (\A c \in calls' : DraftSound(c.draft)) /\ (\A w \in stored' : DraftSound(w))
  BY DEF OneSubmission
<1>2. ASSUME SetName PROVE Inv'
  BY <1>1, <1>2 DEF SetName, Wizard, ChainIsCurrent
<1>3. ASSUME AddStep PROVE Inv'
  <2>1. WellFormed(workflowSteps, added)' /\ added' \in 0 .. MaxAdded
    BY <1>3, AddedWellFormed, DesignerAssumption DEF AddStep
  <2>2. step' = 2 /\ nodes' = nodes
    BY <1>3 DEF AddStep, Wizard
  <2> QED
    BY <1>1, <2>1, <2>2 DEF ChainIsCurrent
<1>4. ASSUME NEW k \in DOMAIN workflowSteps, RemoveStep(k) PROVE Inv'
  <2>1. WellFormed(workflowSteps, added)' /\ added' = added
    BY <1>4, RemovedWellFormed DEF RemoveStep
  <2>2. step' = 2 /\ nodes' = nodes
    BY <1>4 DEF RemoveStep, Wizard
  <2> QED
    BY <1>1, <2>1, <2>2 DEF ChainIsCurrent
<1>5. ASSUME NEW k \in DOMAIN workflowSteps, NEW r \in RoleNames \cup {NoRole},
             UpdateStep(k, r)
      PROVE  Inv'
  <2> DEFINE new == [workflowSteps EXCEPT ![k] = [@ EXCEPT !.role = r]]
  <2>3. WellFormed(new, added)
    BY UpdatedWellFormed, DesignerAssumption
  <2>4. workflowSteps' = new /\ added' = added
    BY <1>5 DEF UpdateStep
  <2> HIDE DEF new
  <2>1. WellFormed(workflowSteps, added)' /\ added' = added
    BY <2>3, <2>4
  <2>2. step' = 2 /\ nodes' = nodes
    BY <1>5 DEF UpdateStep, Wizard
  <2> QED
    BY <1>1, <2>1, <2>2 DEF ChainIsCurrent
<1>6. ASSUME NextStep PROVE Inv'
  BY <1>1, <1>6 DEF NextStep, ChainIsCurrent
<1>7. ASSUME Back PROVE Inv'
  BY <1>1, <1>7 DEF Back, ChainIsCurrent
<1>8. ASSUME SwitchMode PROVE Inv'
  BY <1>1, <1>8 DEF SwitchMode, ChainIsCurrent
<1>9. ASSUME NEW n \in JsonSources, EditJson(n) PROVE Inv'
  <2>1. nodes' \in Seq(JsonNode)
    BY <1>9, SourceNodes DEF EditJson
  <2> QED
    BY <1>1, <1>9, <2>1 DEF EditJson, ChainIsCurrent
<1>10. ASSUME NEW r \in RoleNames, AddNode(r) PROVE Inv'
  <2>1. nodes' \in Seq(JsonNode)
    <3>1. nodes' = Append(nodes, [order |-> Len(nodes) + 1, role |-> r])
      BY <1>10 DEF AddNode, WithNode
    <3>2. [order |-> Len(nodes) + 1, role |-> r] \in JsonNode
      BY DEF JsonNode
    <3> QED
      BY <3>1, <3>2
  <2> QED
    BY <1>1, <1>10, <2>1 DEF AddNode, ChainIsCurrent
<1> QED
  BY <1>2, <1>3, <1>4, <1>5, <1>6, <1>7, <1>8, <1>9, <1>10 DEF Edit

\* A submission is the only one, and what it carries is sound.
LEMMA SubmitStep ==
  ASSUME Inv, Submit
  PROVE  Inv'
<1>1. DraftSound(Submitted)
  BY SubmittedSound DEF Submit
<1>2. calls = {}
  BY DEF Inv, OneSubmission, Submit, SubmitEnabled
<1>3. calls' = {[draft |-> Submitted, done |-> FALSE]} /\ isSubmitting' = TRUE
  BY <1>2 DEF Submit
<1>4. OneSubmission'
  BY <1>3 DEF OneSubmission
<1>5. \A c \in calls' : DraftSound(c.draft)
  BY <1>1, <1>3
<1> QED
  BY <1>4, <1>5 DEF Inv, Submit, draftVars, ChainIsCurrent

\* The server and the answers leave the draft alone.
LEMMA CallStep ==
  ASSUME Inv, NEW c \in calls, Store(c) \/ SubmitOk(c) \/ SubmitFailed(c)
  PROVE  Inv'
<1>1. calls = {c} /\ isSubmitting
  BY DEF Inv, OneSubmission
<1>2. DraftSound(c.draft)
  BY DEF Inv
<1>3. CASE Store(c)
  <2>1. calls' = {[c EXCEPT !.done = TRUE]} /\ isSubmitting' = isSubmitting
    BY <1>1, <1>3 DEF Store
  <2>2. stored' = {c.draft}
    BY <1>3 DEF Store
  <2>3. [c EXCEPT !.done = TRUE].draft = c.draft
    OBVIOUS
  <2>4. OneSubmission'
    BY <1>1, <2>1 DEF OneSubmission
  <2>5. \A d \in calls' : DraftSound(d.draft)
    BY <1>2, <2>1, <2>3
  <2>6. \A w \in stored' : DraftSound(w)
    BY <1>2, <2>2
  <2>7. UNCHANGED <<step, added, workflowSteps, transitions, nodes>>
    BY <1>3 DEF Store, draftVars
  <2> QED
    BY <2>4, <2>5, <2>6, <2>7 DEF Inv, ChainIsCurrent
<1>4. CASE SubmitOk(c) \/ SubmitFailed(c)
  <2>1. calls' = {} /\ isSubmitting' = FALSE
    BY <1>1, <1>4 DEF SubmitOk, SubmitFailed
  <2> QED
    BY <1>4, <2>1 DEF Inv, SubmitOk, SubmitFailed, OneSubmission, draftVars, ChainIsCurrent
<1> QED
  BY <1>3, <1>4

\* Init establishes the invariant and every step preserves it.
LEMMA Invariance == Spec => []Inv
<1>1. Init => Inv
  <2> SUFFICES ASSUME Init PROVE Inv
    OBVIOUS
  <2>1. WellFormed(<<>>, 0) /\ <<>> \in Seq(JsonNode)
    BY DEF WellFormed
  <2> QED
    BY <2>1, DesignerAssumption DEF Init, Inv, ChainIsCurrent, OneSubmission
<1>2. Inv /\ [Next]_vars => Inv'
  <2> SUFFICES ASSUME Inv, [Next]_vars PROVE Inv'
    OBVIOUS
  <2>1. CASE FetchMetadata
    BY <2>1 DEF FetchMetadata, Inv, draftVars, ChainIsCurrent, OneSubmission
  <2>2. CASE Edit /\ UNCHANGED <<place, roles, isSubmitting, calls, stored>>
    BY <2>2, EditStep
  <2>3. CASE Submit
    BY <2>3, SubmitStep
  <2>4. CASE \E c \in calls : Store(c) \/ SubmitOk(c) \/ SubmitFailed(c)
    BY <2>4, CallStep
  <2>5. CASE UNCHANGED vars
    BY <2>5 DEF vars, draftVars, Inv, ChainIsCurrent, OneSubmission
  <2> QED
    BY <2>1, <2>2, <2>3, <2>4, <2>5 DEF Next
<1> QED
  BY <1>1, <1>2, PTL DEF Spec

\* TypeOK: however steps are added, removed and edited, the wizard's steps have
\* distinct ids and are numbered without a gap (addStep, removeStep), and there
\* is never a second submission under way (handleSubmit).
THEOREM DraftConsistent == Spec => []TypeOK
<1>1. Inv => TypeOK
  BY DEF Inv, TypeOK, DraftWellFormed, WellFormed
<1> QED
  BY <1>1, Invariance, PTL

\* The transitions that can be submitted are those of the steps as they are
\* (nextStep regenerates them on every entry of the last step).
THEOREM TransitionsCurrent == Spec => []ChainIsCurrent
<1>1. Inv => ChainIsCurrent
  BY DEF Inv
<1> QED
  BY <1>1, Invariance, PTL

-----------------------------------------------------------------------------
\* What the server makes of a well formed draft.

\* The links of a chain of n steps whose rejections end it.
Approvals(n) ==
    {[from |-> i, to |-> IF i < n THEN i + 1 ELSE 0, outcome |-> "APPROVED"] : i \in 1 .. n}
Rejections(n) ==
    {[from |-> i, to |-> 0, outcome |-> "REJECTED"] : i \in 1 .. n}

\* The second half of handleSubmit finds the number of every id, and none for null.
LEMMA OrderFound ==
  ASSUME NEW steps, WellFormed(steps, MaxAdded)
  PROVE  /\ \A i \in DOMAIN steps : OrderOf(steps, steps[i].tempId) = i
         /\ OrderOf(steps, Terminal) = Terminal
<1>1. \A i \in DOMAIN steps : steps[i] \in WizardStep
  BY DEF WellFormed
<1>2. \A i \in DOMAIN steps : OrderOf(steps, steps[i].tempId) = i
  <2> SUFFICES ASSUME NEW i \in DOMAIN steps
               PROVE  OrderOf(steps, steps[i].tempId) = i
    OBVIOUS
  <2> DEFINE at == CHOOSE j \in DOMAIN steps : steps[j].tempId = steps[i].tempId
  <2>1. at \in DOMAIN steps /\ steps[at].tempId = steps[i].tempId
    OBVIOUS
  <2>2. OrderOf(steps, steps[i].tempId) = steps[at].step_order
    BY DEF OrderOf
  <2> HIDE DEF at
  <2>3. at = i /\ steps[i].step_order = i
    BY <2>1 DEF WellFormed
  <2> QED
    BY <2>2, <2>3
<1>3. \A i \in DOMAIN steps : steps[i].tempId # Terminal
  BY <1>1, DesignerAssumption DEF WizardStep, Terminal
<1>4. OrderOf(steps, Terminal) = Terminal
  BY <1>3 DEF OrderOf
<1> QED
  BY <1>2, <1>4

\* The payload of the wizard names the steps by their places.
LEMMA PayloadLinks ==
  ASSUME NEW steps, WellFormed(steps, MaxAdded)
  PROVE  WizardPayload(steps, DefaultTransitions(steps)).transitions
            = Approvals(Len(steps)) \cup Rejections(Len(steps))
<1> DEFINE n == Len(steps)
           next(i) == IF i < n THEN steps[i + 1].tempId ELSE Terminal
           order(t) == [from |-> OrderOf(steps, t.from), to |-> OrderOf(steps, t.to),
                        outcome |-> t.outcome]
           approve(i) == [from |-> steps[i].tempId, to |-> next(i), outcome |-> "APPROVED"]
           reject(i) == [from |-> steps[i].tempId, to |-> Terminal, outcome |-> "REJECTED"]
           approved(i) == [from |-> i, to |-> IF i < n THEN i + 1 ELSE 0,
                           outcome |-> "APPROVED"]
           rejected(i) == [from |-> i, to |-> 0, outcome |-> "REJECTED"]
<1>1. n \in Nat /\ DOMAIN steps = 1 .. n
  BY DEF WellFormed
<1>2. \A i \in 1 .. n : order(approve(i)) = approved(i)
  <2> SUFFICES ASSUME NEW i \in 1 .. n PROVE order(approve(i)) = approved(i)
    OBVIOUS
  <2>1. OrderOf(steps, steps[i].tempId) = i
    BY <1>1, OrderFound
  <2>2. OrderOf(steps, next(i)) = IF i < n THEN i + 1 ELSE 0
    <3>1. CASE i < n
      <4>1. i + 1 \in DOMAIN steps
        BY <1>1, <3>1
      <4>2. OrderOf(steps, steps[i + 1].tempId) = i + 1
        BY <4>1, OrderFound
      <4> QED
        BY <3>1, <4>2
    <3>2. CASE ~(i < n)
      BY <3>2, OrderFound DEF Terminal
    <3> QED
      BY <3>1, <3>2
  <2> QED
    BY <2>1, <2>2
<1>3. \A i \in 1 .. n : order(reject(i)) = rejected(i)
  BY <1>1, OrderFound DEF Terminal
<1>4. DefaultTransitions(steps) = {approve(i) : i \in 1 .. n} \cup {reject(i) : i \in 1 .. n}
  BY <1>1 DEF DefaultTransitions
<1>5. WizardPayload(steps, DefaultTransitions(steps)).transitions
        = {order(t) : t \in DefaultTransitions(steps)}
  BY DEF WizardPayload
<1> HIDE DEF order, approve, reject
<1>6. {order(t) : t \in DefaultTransitions(steps)}
        = {order(approve(i)) : i \in 1 .. n} \cup {order(reject(i)) : i \in 1 .. n}
  BY <1>4
<1>7. {order(approve(i)) : i \in 1 .. n} = Approvals(n)
  BY <1>2 DEF Approvals
<1>8. {order(reject(i)) : i \in 1 .. n} = Rejections(n)
  BY <1>3 DEF Rejections
<1> QED
  BY <1>5, <1>6, <1>7, <1>8

\* A payload whose steps are numbered by their places is stored link by link.
LEMMA NumberedStored ==
  ASSUME NEW n \in Nat, n >= 1, NEW payload,
         DOMAIN payload.steps = 1 .. n, \A i \in 1 .. n : payload.steps[i].order = i,
         payload.transitions \subseteq Approvals(n) \cup Rejections(n)
  PROVE  /\ Stored(payload).first = {1}
         /\ Stored(payload).links = payload.transitions
         /\ Stored(payload).roles = [i \in 1 .. n |-> payload.steps[i].role]
<1> DEFINE posted == payload.steps
           T == payload.transitions
           s == Stored(payload)
<1>1. \A i \in 1 .. n : Mapped(posted, i) = i
  <2> SUFFICES ASSUME NEW i \in 1 .. n PROVE Mapped(posted, i) = i
    OBVIOUS
  <2> DEFINE at == {k \in DOMAIN posted : posted[k].order = i}
  <2>1. at = {i}
    OBVIOUS
  <2>2. Mapped(posted, i) = IF at = {} THEN 0
                            ELSE CHOOSE k \in at : \A j \in at : j <= k
    BY DEF Mapped
  <2> HIDE DEF at
  <2>3. (CHOOSE k \in at : \A j \in at : j <= k) = i
    BY <2>1
  <2> QED
    BY <2>1, <2>2, <2>3
<1>2. \A t \in T : /\ t = [from |-> t.from, to |-> t.to, outcome |-> t.outcome]
                   /\ t.from \in 1 .. n
                   /\ t.to = 0 \/ t.to \in 1 .. n
  BY DEF Approvals, Rejections
<1> DEFINE kept == {u \in T : Mapped(posted, u.from) # 0}
           link(t) == [from |-> Mapped(posted, t.from),
                       to |-> IF t.to = Terminal THEN 0 ELSE Mapped(posted, t.to),
                       outcome |-> t.outcome]
<1>3. /\ s.links = {link(t) : t \in kept}
      /\ s.first = {i \in DOMAIN posted : posted[i].order = 1}
      /\ s.roles = [i \in DOMAIN posted |-> posted[i].role]
  BY DEF Stored
<1>4. kept = T
  <2>1. \A t \in T : Mapped(posted, t.from) = t.from /\ t.from # 0
    BY <1>1, <1>2
  <2> QED
    BY <2>1
<1>5. \A t \in T : link(t) = t
  <2> SUFFICES ASSUME NEW t \in T PROVE link(t) = t
    OBVIOUS
  <2>1. Mapped(posted, t.from) = t.from
    BY <1>1, <1>2
  <2>2. (IF t.to = Terminal THEN 0 ELSE Mapped(posted, t.to)) = t.to
    BY <1>1, <1>2 DEF Terminal
  <2>3. link(t) = [from |-> t.from, to |-> t.to, outcome |-> t.outcome]
    BY <2>1, <2>2
  <2> QED
    BY <1>2, <2>3
<1> HIDE DEF s, kept, link
<1>6. s.links = T
  BY <1>3, <1>4, <1>5
<1>7. s.first = {1} /\ s.roles = [i \in 1 .. n |-> posted[i].role]
  BY <1>3
<1> QED
  BY <1>6, <1>7 DEF s

\* A well formed draft with current transitions is stored as a chain.
LEMMA DraftStored ==
  ASSUME NEW steps, WellFormed(steps, MaxAdded), steps # <<>>,
         NEW payload, payload = WizardPayload(steps, DefaultTransitions(steps))
  PROVE  /\ IsChain(Stored(payload), Len(steps))
         /\ {l \in Stored(payload).links : l.outcome = "REJECTED"} = Rejections(Len(steps))
         /\ Stored(payload).roles = [i \in 1 .. Len(steps) |-> steps[i].role]
<1> DEFINE n == Len(steps)
<1>1. n \in Nat /\ n >= 1 /\ DOMAIN steps = 1 .. n
  BY DEF WellFormed
<1>2. payload.transitions = Approvals(n) \cup Rejections(n)
  BY PayloadLinks
<1>3. /\ DOMAIN payload.steps = 1 .. n
      /\ \A i \in 1 .. n : payload.steps[i].order = i /\ payload.steps[i].role = steps[i].role
  BY <1>1 DEF WizardPayload, WellFormed
<1>4. /\ Stored(payload).first = {1}
      /\ Stored(payload).links = Approvals(n) \cup Rejections(n)
      /\ Stored(payload).roles = [i \in 1 .. n |-> payload.steps[i].role]
  BY <1>1, <1>2, <1>3, NumberedStored
<1> DEFINE drawn == Approvals(n) \cup Rejections(n)
<1>5. {l \in drawn : l.outcome = "APPROVED"} = Approvals(n)
  BY DEF Approvals, Rejections
<1>6. {l \in drawn : l.outcome = "REJECTED"} = Rejections(n)
  BY DEF Approvals, Rejections
<1>7. IsChain(Stored(payload), n)
  BY <1>4, <1>5 DEF IsChain, Approvals
<1>8. Stored(payload).roles = [i \in 1 .. n |-> steps[i].role]
  BY <1>3, <1>4
<1> QED
  BY <1>4, <1>6, <1>7, <1>8

\* A source whose orders are sequential is stored as a chain, with the roles
\* that were found.
LEMMA SourceStored ==
  ASSUME NEW source \in Seq(JsonNode), Sequential(source), NEW known,
         NEW payload, payload = JsonPayload(source, known)
  PROVE  /\ IsChain(Stored(payload), Len(source))
         /\ \A i \in DOMAIN source :
               source[i].role \in known => Stored(payload).roles[i] = source[i].role
<1> DEFINE n == Len(source)
           formatted == FormattedSteps(source, known)
<1>1. n \in Nat /\ n >= 1 /\ DOMAIN source = 1 .. n
  BY DEF Sequential
<1>2. /\ DOMAIN formatted = 1 .. n
      /\ \A i \in 1 .. n :
            /\ formatted[i].order = i
            /\ source[i].role \in known => formatted[i].role = source[i].role
  BY <1>1 DEF FormattedSteps, Sequential
<1>3. Len(formatted) = n
  BY <1>1 DEF FormattedSteps
<1>4. payload.steps = formatted /\ payload.transitions = LinearTransitions(formatted)
  BY DEF JsonPayload
<1> HIDE DEF formatted
<1>5. LinearTransitions(formatted) = Approvals(n)
  <2> DEFINE one(i) == [from |-> formatted[i].order,
                        to |-> IF i < n THEN formatted[i + 1].order ELSE Terminal,
                        outcome |-> "APPROVED"]
             two(i) == [from |-> i, to |-> IF i < n THEN i + 1 ELSE 0, outcome |-> "APPROVED"]
  <2>1. \A i \in 1 .. n : one(i) = two(i)
    BY <1>1, <1>2 DEF Terminal
  <2>2. LinearTransitions(formatted) = {one(i) : i \in 1 .. n}
    BY <1>2, <1>3 DEF LinearTransitions
  <2>3. Approvals(n) = {two(i) : i \in 1 .. n}
    BY DEF Approvals
  <2> HIDE DEF one, two
  <2> QED
    BY <2>1, <2>2, <2>3
<1>6. /\ Stored(payload).first = {1}
      /\ Stored(payload).links = Approvals(n)
      /\ Stored(payload).roles = [i \in 1 .. n |-> formatted[i].role]
  BY <1>1, <1>2, <1>4, <1>5, NumberedStored
<1>7. {l \in Approvals(n) : l.outcome = "APPROVED"} = Approvals(n)
  BY DEF Approvals
<1>8. IsChain(Stored(payload), n)
  BY <1>6, <1>7 DEF IsChain, Approvals
<1> QED
  BY <1>1, <1>2, <1>6, <1>8

\* What the wizard has drawn is what create_workflow stores: a chain through all
\* steps in their order with the roles chosen, every rejection ending it,
\* whatever was added, removed, edited or switched on the way to the submission.
THEOREM DrawnIsStored == Spec => []StoredAsDrawn
<1>1. Inv => StoredAsDrawn
  <2> SUFFICES ASSUME Inv, NEW w \in stored, w.mode = "wizard"
               PROVE  LET s == Stored(w.payload)
                          n == Len(w.source)
                      IN  /\ IsChain(s, n)
                          /\ {l \in s.links : l.outcome = "REJECTED"} =
                                {[from |-> i, to |-> 0, outcome |-> "REJECTED"] : i \in 1 .. n}
                          /\ s.roles = [i \in 1 .. n |-> w.source[i].role]
    BY DEF StoredAsDrawn
  <2>1. /\ WellFormed(w.source, MaxAdded)
        /\ w.source # <<>>
        /\ w.payload = WizardPayload(w.source, DefaultTransitions(w.source))
    BY DEF Inv, DraftSound
  <2> QED
    BY <2>1, DraftStored DEF Rejections
<1> QED
  BY <1>1, Invariance, PTL

\* What is written or pasted with sequential orders is stored as a chain through
\* all its nodes, with the roles the page had loaded (handleSubmit in JSON mode,
\* the dialog's handleAddStep), for any source.
THEOREM WrittenIsStored == Spec => []StoredAsWritten
<1>1. Inv => StoredAsWritten
  <2> SUFFICES ASSUME Inv, NEW w \in stored, w.mode = "json", Sequential(w.source)
               PROVE  LET s == Stored(w.payload)
                      IN  /\ IsChain(s, Len(w.source))
                          /\ \A i \in DOMAIN w.source :
                                w.source[i].role \in w.known => s.roles[i] = w.source[i].role
    BY DEF StoredAsWritten
  <2>1. w.source \in Seq(JsonNode) /\ w.payload = JsonPayload(w.source, w.known)
    BY DEF Inv, DraftSound
  <2> QED
    BY <2>1, SourceStored
<1> QED
  BY <1>1, Invariance, PTL

=============================================================================
