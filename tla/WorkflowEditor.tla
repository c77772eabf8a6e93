--------------------------- MODULE WorkflowEditor ---------------------------
(***************************************************************************)
(* A Workflow and its patches: what validate accepts, what load makes of   *)
(* it, the thirteen actions of apply_patch, and the inverse analyze_patch  *)
(* proposes.  A root keeps of the JSON document its entry, the default     *)
(* timeout and retry and the nodes; a node keeps its edges, its parallel   *)
(* fields and the fields validation looks at together or load fills in: a  *)
(* timeout is absent, good or bad, a retry absent, many or bad.  Whether a *)
(* member is in the document is kept where the code asks for it.           *)
(***************************************************************************)
EXTENDS Integers, Sequences, FiniteSets, SequencesExt, TLC

CONSTANTS
    Ids, NoId,
    IdOrder,      \* the ids in the order of a std::map
    Bases,        \* documents that are loaded first
    NodeValues,   \* nodes that add_node and replace_node bring in
    EdgeValues,   \* edges that set_next, insert_next and set_on_error bring in
    MaxChanges,   \* bound on the changes of all patches
    NoRoot

VARIABLES
    root,      \* the Workflow of the host
    draft,     \* the copy apply_patch works on
    changes,   \* number of changes made
    prior      \* the Workflow before the last patch

vars == <<root, draft, changes, prior>>

Has(r, id) == id \in DOMAIN r.nodes
Edges(n) == ToSet(n.next.edges) \cup ToSet(n.error.edges)

\* The cycle search of validate: along every path of next and on_error edges,
\* an edge back into the path must be bounded.
RECURSIVE Undeclared(_, _, _)
Undeclared(r, id, path) ==
    \E e \in Edges(r.nodes[id]) :
        IF e.to \in path \cup {id} THEN ~e.bounded
        ELSE Has(r, e.to) /\ Undeclared(r, e.to, path \cup {id})

EdgesValid(r, f) ==
    \A i \in DOMAIN f.edges :
        /\ Has(r, f.edges[i].to)
        /\ i < Len(f.edges) => f.edges[i].when       \* SHADOWED_BRANCH

UnsafeRetry(n) == n.effects = "at_most_once" /\ n.retry = "many"

NodeValid(r, n) ==
    /\ EdgesValid(r, n.next) /\ EdgesValid(r, n.error)
    /\ n.type = "end" => ~n.next.member /\ ~n.error.member
    /\ n.type = "parallel" =>
         /\ n.branches.field = "array" /\ n.branches.ids # <<>> /\ n.join # NoId
         /\ \A id \in ToSet(n.branches.ids) \cup {n.join} : Has(r, id)
    /\ n.timeout # "bad" /\ n.retry # "bad" /\ ~UnsafeRetry(n)

\* In a mutant only the edges back to the entry are looked at.
CyclesValidShallow(r) == \A e \in Edges(r.nodes[r.entry]) : e.to = r.entry => e.bounded
CyclesValid(r) == ~Undeclared(r, r.entry, {})

Valid(r) ==
    /\ DOMAIN r.nodes # {}
    /\ Has(r, r.entry) /\ r.nodes[r.entry].enabled
    /\ \A id \in DOMAIN r.nodes : NodeValid(r, r.nodes[id])
    /\ CyclesValid(r)

\* load: defaults go into the nodes after the document was validated, which
\* does not look at them.  In a mutant asking a node for its next edges leaves
\* the member behind.
OrDefault(value, default) == IF value = "absent" THEN default ELSE value
Normalized(r) ==
    [r EXCEPT !.nodes = [id \in DOMAIN @ |->
        [@[id] EXCEPT !.timeout = OrDefault(@, r.timeout), !.retry = OrDefault(@, r.retry)]]]

\* rename_node: the entry, the edges, joins and branches follow; templates do
\* not.  Asking each node for its branches leaves a null member behind.
Renamed(id, from, to) == IF id = from THEN to ELSE id
RenamedEdges(f, from, to) ==
    [f EXCEPT !.edges = [i \in DOMAIN @ |-> [@[i] EXCEPT !.to = Renamed(@, from, to)]]]
RenamedNode(n, from, to) ==
    [n EXCEPT !.next = RenamedEdges(@, from, to), !.error = RenamedEdges(@, from, to),
              !.join = Renamed(@, from, to),
              !.branches = [field |-> IF @.field = "absent" THEN "null" ELSE @.field,
                            ids |-> [i \in DOMAIN @.ids |-> Renamed(@.ids[i], from, to)]]]
RenameNode(r, from, to) ==
    [r EXCEPT !.entry = Renamed(@, from, to),
              !.nodes = [id \in (DOMAIN @ \ {from}) \cup {to} |->
                           RenamedNode(@[IF id = to THEN from ELSE id], from, to)]]

SetNode(r, id, n) == [r EXCEPT !.nodes = (id :> n) @@ @]
RemoveNode(r, id) == [r EXCEPT !.nodes = [i \in DOMAIN @ \ {id} |-> @[i]]]
SetMember(edges) == [member |-> TRUE, edges |-> edges]

\* The guard of a change, and the root it leaves.
Applicable(r, c) ==
    CASE c.action = "set_entry" -> Has(r, c.id)
      [] c.action = "add_node" -> ~Has(r, c.id)
      [] c.action = "rename_node" -> Has(r, c.id) /\ ~Has(r, c.to)
      [] c.action = "remove_field" -> Has(r, c.id) /\ r.nodes[c.id].retry # "absent"
      [] c.action = "remove_next" -> Has(r, c.id) /\ c.index \in DOMAIN r.nodes[c.id].next.edges
      [] OTHER -> Has(r, c.id)

Changed(r, c) ==
    LET n == r.nodes[c.id]
    IN CASE c.action = "set_entry" -> [r EXCEPT !.entry = c.id]
         [] c.action \in {"add_node", "replace_node"} -> SetNode(r, c.id, c.node)
         [] c.action = "remove_node" -> RemoveNode(r, c.id)
         [] c.action = "rename_node" -> RenameNode(r, c.id, c.to)
         [] c.action = "set_field" -> SetNode(r, c.id, [n EXCEPT !.retry = "many"])
         [] c.action = "remove_field" -> SetNode(r, c.id, [n EXCEPT !.retry = "absent"])
         [] c.action = "set_next" -> SetNode(r, c.id, [n EXCEPT !.next = SetMember(<<c.edge>>)])
         [] c.action = "set_on_error" -> SetNode(r, c.id, [n EXCEPT !.error = SetMember(<<c.edge>>)])
         [] c.action = "enable_node" -> SetNode(r, c.id, [n EXCEPT !.enabled = TRUE])
         [] c.action = "disable_node" -> SetNode(r, c.id, [n EXCEPT !.enabled = FALSE])
         [] c.action = "insert_next" ->
              SetNode(r, c.id, [n EXCEPT !.next = SetMember(InsertAt(@.edges, c.index, c.edge))])
         [] c.action = "remove_next" ->
              SetNode(r, c.id, [n EXCEPT !.next = SetMember(RemoveAt(@.edges, c.index))])

\* The changes tried on a draft; an index past the end is cut back by the code.
Changes ==
    [action : {"set_entry", "remove_node", "set_field", "remove_field", "enable_node",
               "disable_node"}, id : Ids]
    \cup [action : {"add_node", "replace_node"}, id : Ids, node : NodeValues]
    \cup [action : {"rename_node"}, id : Ids, to : Ids]
    \cup [action : {"set_next", "set_on_error"}, id : Ids, edge : EdgeValues]
    \cup [action : {"insert_next"}, id : Ids, edge : EdgeValues, index : {1}]
    \cup [action : {"remove_next"}, id : Ids, index : {1}]

\* analyze_patch: the inverse names the old entry first, then node by node.
\* In a mutant a changed node is not put back.
InverseNodesPartly(before, after) ==
    {[action |-> "remove_node", id |-> id] : id \in DOMAIN after.nodes \ DOMAIN before.nodes}
    \cup {[action |-> "add_node", id |-> id, node |-> before.nodes[id]] :
            id \in DOMAIN before.nodes \ DOMAIN after.nodes}
InverseNodes(before, after) ==
    {[action |-> "remove_node", id |-> id] : id \in DOMAIN after.nodes \ DOMAIN before.nodes}
    \cup {[action |-> "add_node", id |-> id, node |-> before.nodes[id]] :
            id \in DOMAIN before.nodes \ DOMAIN after.nodes}
    \cup {[action |-> "replace_node", id |-> id, node |-> before.nodes[id]] :
            id \in {i \in DOMAIN before.nodes \cap DOMAIN after.nodes :
                      before.nodes[i] # after.nodes[i]}}
InversePatch(before, after) ==
    (IF before.entry = after.entry THEN <<>>
     ELSE <<[action |-> "set_entry", id |-> before.entry]>>)
    \o SetToSeq(InverseNodes(before, after))

\* The loop of apply_patch over a whole patch; a change that does not apply
\* gives the patch up, and so does a patch without changes.
Apply(r, cs) ==
    FoldLeft(LAMBDA s, c : IF s # NoRoot /\ Applicable(s, c) THEN Changed(s, c) ELSE NoRoot,
             IF cs = <<>> THEN NoRoot ELSE r, cs)

\* apply_patch with the inverse as its patch.
Undo(before, after) ==
    LET r == Apply(after, InversePatch(before, after))
    IN IF r # NoRoot /\ Valid(r) THEN Normalized(r) ELSE NoRoot

\* The nodes a change touches, and the loop that adds what depends on them:
\* passes over the nodes in their order, until a pass adds nothing.  In a
\* mutant one pass has to do.
Direct(before, after) ==
    {id \in DOMAIN before.nodes \cup DOMAIN after.nodes :
        ~(Has(before, id) /\ Has(after, id) /\ before.nodes[id] = after.nodes[id])}
Targets(n) ==
    {e.to : e \in Edges(n)} \cup ToSet(n.branches.ids) \cup ({n.join} \ {NoId})
Pass(r, affected) ==
    FoldLeft(LAMBDA S, id :
        LET T == IF id \in S THEN S \cup Targets(r.nodes[id]) ELSE S
        IN IF r.nodes[id].reads \cap T # {} THEN T \cup {id} ELSE T,
        affected, SelectSeq(IdOrder, LAMBDA id : Has(r, id)))
ExpandOnce(r, affected) == Pass(r, affected)
RECURSIVE Expand(_, _)
Expand(r, affected) ==
    IF Pass(r, affected) = affected THEN affected ELSE Expand(r, Pass(r, affected))
AnalyzeAffected(before, after) == Expand(after, Direct(before, after))
DiffAffected(before, after) == Expand(after, Expand(before, Direct(before, after)))
-----------------------------------------------------------------------------
Init ==
    /\ \E r \in Bases : Valid(r) /\ root = Normalized(r)
    /\ draft = NoRoot /\ changes = 0 /\ prior = NoRoot

\* The next change of a patch; the first one starts from a copy of the
\* Workflow whose digest and revision the patch names.
Change ==
    LET r == IF draft = NoRoot THEN root ELSE draft
    IN /\ changes < MaxChanges
       /\ \E c \in Changes : Applicable(r, c) /\ draft' = Changed(r, c)
       /\ changes' = changes + 1
       /\ UNCHANGED <<root, prior>>

\* A change does not apply, or load refuses the candidate: apply_patch throws,
\* which dry_run_patch turns into a diagnostic, and the Workflow stays.
Reject ==
    /\ draft # NoRoot /\ draft' = NoRoot
    /\ (\E c \in Changes : ~Applicable(draft, c)) \/ ~Valid(draft)
    /\ UNCHANGED <<root, changes, prior>>

LoadCandidate ==
    /\ draft # NoRoot /\ Valid(draft)
    /\ root' = Normalized(draft) /\ prior' = root /\ draft' = NoRoot
    /\ UNCHANGED changes

ApplyInverse ==
    /\ draft = NoRoot /\ prior # NoRoot /\ Undo(prior, root) # NoRoot
    /\ root' = Undo(prior, root) /\ prior' = NoRoot
    /\ UNCHANGED <<draft, changes>>

Next == Change \/ Reject \/ LoadCandidate \/ ApplyInverse

Spec == Init /\ [][Next]_vars
-----------------------------------------------------------------------------
\* The inverse of every patch applies to the candidate and restores the old
\* Workflow exactly, except in three cases the code does not foresee: the
\* patch changed nothing, so that its inverse is the empty patch that
\* apply_patch refuses; the old entry is no node of the candidate, whose
\* set_entry comes first; or the old Workflow would not be accepted if it were
\* loaded again.
InverseRestores ==
    prior # NoRoot =>
        Undo(prior, root) =
            IF prior # root /\ Has(root, prior.entry) /\ Valid(prior) THEN prior ELSE NoRoot


\* The edges a Run follows from node to node.
Sequential(r, bounded) ==
    {<<i, j>> \in (DOMAIN r.nodes) \X (DOMAIN r.nodes) :
        \E e \in Edges(r.nodes[i]) : e.to = j /\ (bounded \/ ~e.bounded)}
Reached(E, S) ==
    LET step(T) == T \cup {j \in Ids : \E i \in T : <<i, j>> \in E}
        after[k \in 0..Cardinality(Ids)] == IF k = 0 THEN S ELSE step(after[k - 1])
    IN after[Cardinality(Ids)]

Depends(r) ==
    {<<i, j>> \in Ids \X (DOMAIN r.nodes) :
        (Has(r, i) /\ j \in Targets(r.nodes[i])) \/ i \in r.nodes[j].reads}

\* The affected nodes that analyze_patch and diff_workflows report are exactly
\* those that depend on a changed node over any number of edges, branches,
\* joins and templates, whatever the order in which the passes meet them; the
\* diff follows the old Workflow first and then the new one.
AffectedExact ==
    prior # NoRoot =>
        /\ AnalyzeAffected(prior, root) = Reached(Depends(root), Direct(prior, root))
        /\ DiffAffected(prior, root) =
             Reached(Depends(root), Reached(Depends(prior), Direct(prior, root)))

\* In every Workflow that is loaded or that a series of patches leads to, a
\* cycle that a Run can enter along next and on_error edges has a bounded
\* edge: the search of validate misses none, whatever the order of paths.
CyclesBounded ==
    \A i \in Reached(Sequential(root, TRUE), {root.entry}) :
        i \notin Reached(Sequential(root, FALSE),
                         {j \in Ids : <<i, j>> \in Sequential(root, FALSE)})
=============================================================================
