--------------------------------- MODULE Trace ---------------------------------
(***************************************************************************)
(* `logyctl trace': the events of a task as a tree, by the parent that the *)
(* interceptor gave each call (TraceCommand, buildTree and printTraceTree  *)
(* of cmd/logyctl/commands/trace.go).  A response has no parent: it is a   *)
(* root of its own.                                                        *)
(***************************************************************************)
EXTENDS Interceptor

CONSTANTS
  MaxEventRows,   \* maxEventRows of the store, which is also maxEvents of buildTree
  MaxRoots,       \* maxRoots
  MaxChildren,    \* maxChildren
  MaxTraceNodes   \* maxTraceNodes

\* events.go:14 and trace.go:86, 128 and 129.
ASSUME TraceAssumption ==
  /\ IsFiniteSet(Request)
  /\ MaxEventRows \in Nat /\ MaxRoots \in Nat /\ MaxChildren \in Nat
  /\ MaxTraceNodes \in Nat /\ MaxEventRows <= MaxTraceNodes

\* The rows of a task in the order of the ledger, as many as are read.
GetEventsByTaskID(t) ==
  LET rows == {i \in DOMAIN ledger : ledger[i].task = t}
  IN  {ledger[i] : i \in {i \in rows : Cardinality({h \in rows : h < i}) < MaxEventRows}}

\* Events with a parent are listed under its identifier, in the ledger or not.
Roots(events) == {e \in events : e.parent = NoEvent}
Children(events, e) == {c \in events : <<"request", c.parent>> = e.id}

\* As many of the children as there is room for go onto the stack.
Push(stack, children) ==
  IF Cardinality(stack \cup children) <= MaxTraceNodes THEN stack \cup children
  ELSE CHOOSE s \in SUBSET (stack \cup children) :
         stack \subseteq s /\ Cardinality(s) = MaxTraceNodes

\* printTraceTree before its loop.  Too many roots are a panic.
StartWalk(events) ==
  LET many == Cardinality(Roots(events)) > MaxRoots \/ Cardinality(Roots(events)) > MaxTraceNodes
  IN  [stack |-> IF many THEN {} ELSE Roots(events), shown |-> {}, panics |-> many]

\* One turn of its loop: an event of the stack is shown and its children are
\* pushed.  Too many children are a panic.  In which order siblings are shown
\* is left open.
Visit(events, w) ==
  LET e        == CHOOSE e \in w.stack : TRUE
      children == Children(events, e)
      many     == Cardinality(children) > MaxChildren
  IN  IF w.stack = {} THEN w
      ELSE [stack  |-> IF many THEN {} ELSE Push(w.stack \ {e}, children),
            shown  |-> w.shown \cup {e},
            panics |-> many]

Trace(t) ==
  LET events == GetEventsByTaskID(t)
      walk[n \in 0 .. MaxTraceNodes] ==
        IF n = 0 THEN StartWalk(events) ELSE Visit(events, walk[n - 1])
  IN  walk[MaxTraceNodes]

-----------------------------------------------------------------------------

\* The calls from which r descends, by the parents they were given.
Ancestors(r) ==
  LET up[n \in 0 .. Cardinality(Request)] ==
        IF n = 0 THEN {r}
        ELSE up[n - 1] \cup {parent[q] : q \in up[n - 1] \cap Request}
  IN  up[Cardinality(Request)] \ {NoEvent}

Fetched(t, r) == \E e \in GetEventsByTaskID(t) : e.id = <<"request", r>>

(* A trace that does not end in a panic shows every event that was read    *)
(* for the task and whose ancestors were read, in whatever order           *)
(* concurrent requests loaded and stored the last event of the task and    *)
(* were recorded: parents never form a cycle, and the limit on the stack   *)
(* and on the nodes (trace.go:144, 197) cuts nothing off.  What hides      *)
(* events is an ancestor that was lost, is still under way or is beyond    *)
(* the rows that are read (events.go:291), which no message tells; what    *)
(* ends the command in a panic is a number of roots, every response being  *)
(* one, or of children over the limits (trace.go:86-89, 187).              *)
TraceShowsDescendants ==
  \A t \in Task : ~Trace(t).panics =>
    \A e \in GetEventsByTaskID(t) :
      (e.id[1] = "request" => \A a \in Ancestors(e.id[2]) : Fetched(t, a)) => e \in Trace(t).shown
=============================================================================
