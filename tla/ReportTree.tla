----------------------------- MODULE ReportTree -----------------------------
(***************************************************************************)
(* How a client gets its tree of driver clients: the session enumerates    *)
(* the exporter's driver tree into a list of reports, which name the       *)
(* parent of each driver; the client collects the list into a graph and    *)
(* builds a client for every driver, children first.                       *)
(***************************************************************************)
EXTENDS Naturals, Sequences, FiniteSets, Functions

CONSTANTS Node,      \* the drivers of the exporter, by uuid
          Root,      \* the root device
          Name,      \* names a driver gives its children
          Nobody     \* the parent_uuid of the root

ASSUME NodeAssumption == /\ Root \in Node
                         /\ Nobody \notin Node
                         /\ IsFiniteSet(Node)

VARIABLES parent,    \* the driver tree: each driver's parent
          name,      \* and its name there
          stack,     \* drivers still to enumerate
          reports,   \* the list of reports, then what is left of it
          topo,      \* the client's graph: the children of each driver
          clients,   \* the clients built: the children of each, by name
          last       \* the last one built, which is returned

tree == <<parent, name>>
vars == <<tree, stack, reports, topo, clients, last>>

Children(n) == {c \in Node \ {Root} : parent[c] = n}

(* Every branch comes to the root: a set without it has a member whose      *)
(* parent is outside.  Names are the keys of a driver's children.           *)
IsTree == /\ \A S \in SUBSET (Node \ {Root}) : S # {} => \E n \in S : parent[n] \notin S
          /\ \A c, d \in Node \ {Root} : c # d /\ parent[c] = parent[d] => name[c] # name[d]

Init == /\ parent \in [Node \ {Root} -> Node]
        /\ name \in [Node \ {Root} -> Name]
        /\ IsTree
        /\ stack = <<Root>>
        /\ reports = <<>>
        /\ topo = [n \in Node |-> {}]
        /\ clients = [n \in {} |-> {}]
        /\ last = Nobody

-----------------------------------------------------------------------------
(* The orders in which a dict may hold a set of children. *)
Orders(S) == Bijection(1..Cardinality(S), S)

(* Mutant of Enumerate: the driver comes after its children.                *)
EnumerateLate == /\ stack # <<>>
                 /\ \E order \in Orders(Children(Head(stack))) : stack' = order \o Tail(stack)
                 /\ reports' = <<Head(stack)>> \o reports
                 /\ UNCHANGED <<tree, topo, clients, last>>

(* enumerate: the driver, then the enumeration of each of its children. *)
Enumerate == /\ stack # <<>>
             /\ \E order \in Orders(Children(Head(stack))) : stack' = order \o Tail(stack)
             /\ reports' = Append(reports, Head(stack))
             /\ UNCHANGED <<tree, topo, clients, last>>

(* The root's report has no parent_uuid. *)
ParentUuid(n) == IF n = Root THEN Nobody ELSE parent[n]

(* The driver is listed under its parent. *)
Entered(graph, r) == IF ParentUuid(r) = Nobody THEN graph
                     ELSE [graph EXCEPT ![ParentUuid(r)] = @ \cup {r}]

(* A report starts its driver's list of children anew. *)
Collect == /\ stack = <<>>
           /\ reports # <<>>
           /\ topo' = Entered([topo EXCEPT ![Head(reports)] = {}], Head(reports))
           /\ reports' = Tail(reports)
           /\ UNCHANGED <<tree, stack, clients, last>>

Built == DOMAIN clients

(* The members of a set of drivers, by the names they have in the tree. *)
ByName(S) == [label \in {name[c] : c \in S} |-> CHOOSE c \in S : name[c] = label]

(* The client of a driver whose children have their clients. *)
Build(n) == /\ stack = <<>> /\ reports = <<>>
            /\ n \in Node \ Built
            /\ topo[n] \subseteq Built
            /\ clients' = [m \in Built \cup {n} |-> IF m \in Built THEN clients[m] ELSE ByName(topo[n])]
            /\ last' = n
            /\ UNCHANGED <<tree, stack, reports, topo>>

Next == Enumerate \/ Collect \/ \E n \in Node : Build(n)

Spec == Init /\ [][Next]_vars
-----------------------------------------------------------------------------
TypeOK == /\ parent \in [Node \ {Root} -> Node]
          /\ name \in [Node \ {Root} -> Name]
          /\ stack \in Seq(Node) /\ reports \in Seq(Node)
          /\ topo \in [Node -> SUBSET Node]
          /\ Built \subseteq Node /\ last \in Built \cup {Nobody}
          /\ \A n \in Built : clients[n] \in [{name[c] : c \in topo[n]} -> Node]

(* Every client has exactly the children its driver has, under their names. *)
(* The client keeps this only because enumerate lists parents before their  *)
(* children: a report resets the list of its driver (client.py:25).         *)
SameTree == \A n \in Built : clients[n] = ByName(Children(n))
=============================================================================
