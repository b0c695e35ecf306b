------------------------- MODULE MCWorkflowDesigner -------------------------
(***************************************************************************)
(* Small instances of WorkflowDesigner.  The JSON sources: sequential,     *)
(* swapped, doubled and zero orders, a role nobody has, no role.           *)
(***************************************************************************)
EXTENDS WorkflowDesigner

CONSTANTS manager, ghost

Node(o, r) == [order |-> o, role |-> r]

MCJsonSources ==
    {<<Node(1, manager), Node(2, NoRole), Node(3, manager)>>,
     <<Node(2, manager), Node(1, NoRole)>>, <<Node(1, manager), Node(1, NoRole)>>,
     <<Node(1, ghost), Node(2, manager)>>, <<Node(0, manager)>>}

=============================================================================
