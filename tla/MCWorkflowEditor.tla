-------------------------- MODULE MCWorkflowEditor --------------------------
(* A small instance of WorkflowEditor: up to three nodes. *)
EXTENDS WorkflowEditor

CONSTANTS x, y, z

Edge(to, when, bounded) == [to |-> to, when |-> when, bounded |-> bounded]
NoEdges == [member |-> FALSE, edges |-> <<>>]
Node(type, next) ==
    [type |-> type, next |-> next, error |-> NoEdges, enabled |-> TRUE, effects |-> "pure",
     timeout |-> "absent", retry |-> "absent",
     branches |-> [field |-> "absent", ids |-> <<>>], join |-> NoId, reads |-> {}]
To(id) == SetMember(<<Edge(id, FALSE, FALSE)>>)
End == Node("end", NoEdges)
Parallel == [Node("parallel", NoEdges) EXCEPT
    !.branches = [field |-> "array", ids |-> <<y>>], !.join = z]
Careful == [Node("tool", To(y)) EXCEPT !.effects = "at_most_once"]
Root(entry, timeout, retry, nodes) ==
    [entry |-> entry, timeout |-> timeout, retry |-> retry, nodes |-> nodes]

\* A chain, a parallel node with its join, a node that must not be retried
\* under a default retry, and nodes under defaults that are bad.
SomeBases ==
    {Root(x, "good", "absent", x :> [Node("tool", To(y)) EXCEPT !.reads = {z}]
                               @@ y :> Node("tool", To(z)) @@ z :> End),
     Root(x, "absent", "absent", x :> Parallel @@ y :> Node("tool", NoEdges) @@ z :> End),
     Root(x, "absent", "many", x :> Careful @@ y :> Node("tool", NoEdges)),
     Root(x, "bad", "absent", x :> Node("tool", NoEdges)),
     Root(x, "absent", "bad", x :> Node("tool", NoEdges))}
Order == <<x, y, z>>
SomeNodes == {End, Node("tool", To(x)), Careful}
SomeEdges == {Edge(x, FALSE, FALSE), Edge(x, TRUE, TRUE), Edge(y, TRUE, FALSE)}
=============================================================================
