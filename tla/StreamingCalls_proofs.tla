------------------------ MODULE StreamingCalls_proofs ------------------------
(***************************************************************************)
(* The client's tree is the exporter's, for any finite tree of drivers and *)
(* any order of their children; and a streaming call through it reaches    *)
(* its driver and is whole, for any number of calls and results.           *)
(***************************************************************************)
EXTENDS StreamingCalls, SequenceTheorems, FiniteSetTheorems, TLAPS

TreeType == /\ parent \in [Node \ {Root} -> Node]
            /\ name \in [Node \ {Root} -> Name]
            /\ stack \in Seq(Node) /\ reports \in Seq(Node)
            /\ topo \in [Node -> SUBSET Node]
            /\ Built \subseteq Node /\ last \in Built \cup {Nobody}

(* No driver is listed twice, and none after its child. *)
Listed == /\ IsInjective(stack) /\ IsInjective(reports)
          /\ \A i, j \in DOMAIN reports :
               reports[j] # Root /\ reports[i] = parent[reports[j]] => i < j

Seen == Range(stack) \cup Range(reports)

(* The stack holds the children of listed drivers that are not listed       *)
(* themselves, and at first the root.                                       *)
Enumerating == /\ Range(stack) \cap Range(reports) = {}
               /\ Root \in Seen
               /\ \A n \in Range(reports) : Children(n) \subseteq Seen
               /\ \A n \in Seen \ {Root} : parent[n] \in Range(reports)
               /\ topo = [n \in Node |-> {}]

(* What is left of the reports contains the children of what it contains,   *)
(* and the graph has the other drivers' children as far as they were read.  *)
Collecting ==
  /\ \A n \in Node \ {Root} : parent[n] \in Range(reports) => n \in Range(reports)
  /\ topo = [n \in Node |-> IF n \in Range(reports) THEN {} ELSE Children(n) \ Range(reports)]

(* Clients have clients for their children: the root's is built when every  *)
(* driver has one.                                                          *)
Building == /\ Built # {} => stack = <<>> /\ reports = <<>>
            /\ clients = [n \in Built |-> ByName(Children(n))]
            /\ \A n \in Built : Children(n) \subseteq Built
            /\ Root \in Built => Built = Node /\ last = Root

TreeInv == /\ TreeType /\ IsTree /\ Listed /\ Building
           /\ stack # <<>> => Enumerating
           /\ stack = <<>> => Collecting

(* The user goes the same way down both trees, then makes the calls. *)
WalkInv ==
  /\ held = NoDriver => place = NoDriver /\ \A c \in Call : user[c] = "idle"
  /\ held # NoDriver => Built = Node /\ held \in Node /\ place = held
  /\ \A c \in Call : serving[c] \in {NoDriver, held}

(* What a generator gave is what its loop got and what is under way, until  *)
(* the call fails or the loop is left; a call is OK behind the last result. *)
CallInv ==
  /\ serving \in [Call -> Node \cup {NoDriver}]
  /\ gen \in [Call -> Generators]
  /\ yielded \in [Call -> Nat] /\ pipe \in [Call -> Nat] /\ got \in [Call -> Nat]
  /\ lost \in [Call -> BOOLEAN]
  /\ rpc \in [Call -> Calls] /\ user \in [Call -> Loops]
  /\ \A c \in Call :
       /\ yielded[c] <= MaxResults /\ got[c] + pipe[c] <= yielded[c]
       /\ pipe[c] <= Window /\ (gen[c] = "busy" => pipe[c] < Window)
       /\ user[c] = "idle" <=> rpc[c] = "none"
       /\ lost[c] => user[c] = "left"
       /\ rpc[c] = "none" => /\ gen[c] = "none" /\ serving[c] = NoDriver
                             /\ yielded[c] = 0 /\ pipe[c] = 0 /\ got[c] = 0
       /\ rpc[c] = "OK" => gen[c] = "done"
       /\ user[c] \in {"asking", "holding"} /\ rpc[c] \in {"open", "OK"} => got[c] + pipe[c] = yielded[c]
       /\ user[c] = "ended" => gen[c] = "done" /\ got[c] = yielded[c]

SessionInv == TreeInv /\ WalkInv /\ CallInv

-----------------------------------------------------------------------------
(* Lists without repetition: joined, continued, and without their first.    *)
LEMMA JoinedLists ==
  ASSUME NEW S, NEW s \in Seq(S), NEW t \in Seq(S),
         IsInjective(s), IsInjective(t), Range(s) \cap Range(t) = {}
  PROVE  /\ s \o t \in Seq(S) /\ IsInjective(s \o t)
         /\ Range(s \o t) = Range(s) \cup Range(t)
<1>1. /\ s \o t \in Seq(S) /\ Range(s \o t) = Range(s) \cup Range(t)
      /\ Len(s \o t) = Len(s) + Len(t) /\ DOMAIN (s \o t) = 1..Len(s \o t)
      /\ \A i \in 1..Len(s) + Len(t) : (s \o t)[i] = IF i <= Len(s) THEN s[i] ELSE t[i - Len(s)]
      BY ConcatProperties, RangeConcatenation, LenProperties
<1>2. /\ Len(s) \in Nat /\ DOMAIN s = 1..Len(s)
      /\ Len(t) \in Nat /\ DOMAIN t = 1..Len(t)
      BY LenProperties
<1>3. ASSUME NEW i \in 1..Len(s) + Len(t), NEW j \in 1..Len(s) + Len(t), (s \o t)[i] = (s \o t)[j]
      PROVE  i = j
  <2>1. CASE i <= Len(s) /\ j <= Len(s)
        BY <1>1, <1>2, <1>3, <2>1 DEF IsInjective
  <2>2. CASE i > Len(s) /\ j > Len(s)
    <3>1. i - Len(s) \in DOMAIN t /\ j - Len(s) \in DOMAIN t /\ t[i - Len(s)] = t[j - Len(s)]
          BY <1>1, <1>2, <1>3, <2>2
    <3>2. i - Len(s) = j - Len(s)
          BY <3>1 DEF IsInjective
    <3> QED BY <1>2, <3>2
  <2>3. CASE i <= Len(s) /\ j > Len(s)
    <3>1. s[i] \in Range(s) /\ t[j - Len(s)] \in Range(t) /\ s[i] = t[j - Len(s)]
          BY <1>1, <1>2, <1>3, <2>3 DEF Range
    <3> QED BY <3>1
  <2>4. CASE i > Len(s) /\ j <= Len(s)
    <3>1. s[j] \in Range(s) /\ t[i - Len(s)] \in Range(t) /\ s[j] = t[i - Len(s)]
          BY <1>1, <1>2, <1>3, <2>4 DEF Range
    <3> QED BY <3>1
  <2> QED BY <1>2, <2>1, <2>2, <2>3, <2>4
<1> QED BY <1>1, <1>3 DEF IsInjective

LEMMA ContinuedList ==
  ASSUME NEW S, NEW s \in Seq(S), NEW e \in S, IsInjective(s), e \notin Range(s)
  PROVE  /\ Append(s, e) \in Seq(S) /\ IsInjective(Append(s, e))
         /\ Range(Append(s, e)) = Range(s) \cup {e}
<1>1. <<e>> \in Seq(S) /\ IsInjective(<<e>>) /\ Range(<<e>>) = {e}
      BY DEF IsInjective, Range
<1>2. Append(s, e) = s \o <<e>>
      BY AppendIsConcat
<1>3. Range(s) \cap Range(<<e>>) = {}
      BY <1>1
<1>4. /\ s \o <<e>> \in Seq(S) /\ IsInjective(s \o <<e>>)
      /\ Range(s \o <<e>>) = Range(s) \cup Range(<<e>>)
      BY <1>1, <1>3, JoinedLists
<1> QED BY <1>1, <1>2, <1>4

LEMMA ShortenedList ==
  ASSUME NEW S, NEW s \in Seq(S), s # <<>>, IsInjective(s)
  PROVE  /\ Tail(s) \in Seq(S) /\ IsInjective(Tail(s))
         /\ Head(s) \in Range(s) /\ Range(Tail(s)) = Range(s) \ {Head(s)}
<1>1. /\ Tail(s) \in Seq(S) /\ Len(Tail(s)) = Len(s) - 1 /\ Len(s) \in Nat \ {0}
      /\ \A i \in 1..Len(Tail(s)) : Tail(s)[i] = s[i + 1]
      /\ DOMAIN s = 1..Len(s) /\ DOMAIN Tail(s) = 1..Len(s) - 1 /\ Head(s) = s[1]
      BY HeadTailProperties, LenProperties, EmptySeq
<1>2. IsInjective(Tail(s))
  <2> SUFFICES ASSUME NEW i \in DOMAIN Tail(s), NEW j \in DOMAIN Tail(s), Tail(s)[i] = Tail(s)[j]
               PROVE  i = j
      BY DEF IsInjective
  <2>1. i + 1 \in DOMAIN s /\ j + 1 \in DOMAIN s /\ s[i + 1] = s[j + 1]
        BY <1>1
  <2>2. i + 1 = j + 1
        BY <2>1 DEF IsInjective
  <2> QED BY <1>1, <2>2
<1>3. ASSUME NEW e PROVE e \in Range(Tail(s)) <=> e \in Range(s) \ {Head(s)}
  <2>1. ASSUME NEW i \in DOMAIN Tail(s), e = Tail(s)[i] PROVE e \in Range(s) /\ e # Head(s)
        BY <1>1, <2>1 DEF IsInjective, Range
  <2>2. ASSUME NEW i \in DOMAIN s, e = s[i], e # Head(s) PROVE e \in Range(Tail(s))
    <3>1. i - 1 \in DOMAIN Tail(s) /\ Tail(s)[i - 1] = e
          BY <1>1, <2>2
    <3> QED BY <3>1 DEF Range
  <2> QED BY <2>1, <2>2 DEF Range
<1>4. Head(s) \in Range(s) /\ Range(Tail(s)) = Range(s) \ {Head(s)}
  <2>1. Head(s) = s[1] /\ 1 \in DOMAIN s
        BY <1>1
  <2>2. Head(s) \in Range(s)
        BY <2>1 DEF Range
  <2> QED BY <1>3, <2>2
<1> QED BY <1>1, <1>2, <1>4

(* An order lists each child once. *)
LEMMA OrdersList ==
  ASSUME NEW S, IsFiniteSet(S), NEW order \in Orders(S)
  PROVE  order \in Seq(S) /\ IsInjective(order) /\ Range(order) = S
<1>1. Cardinality(S) \in Nat
      BY FS_CardinalityType
<1>2. order \in [1..Cardinality(S) -> S] /\ IsInjective(order)
      /\ \A e \in S : \E i \in 1..Cardinality(S) : order[i] = e
      BY DEF Orders, Bijection, Injection, Surjection
<1>3. order \in Seq(S)
      BY <1>1, <1>2
<1> QED BY <1>2, <1>3 DEF Range

(* A tree whose links stay is one still. *)
LEMMA SameIsTree == IsTree /\ parent' = parent /\ name' = name => IsTree'
<1> SUFFICES ASSUME IsTree, parent' = parent, name' = name PROVE IsTree'
    OBVIOUS
<1>1. ASSUME NEW S \in SUBSET (Node \ {Root}), S # {} PROVE \E n \in S : parent'[n] \notin S
      BY <1>1 DEF IsTree
<1>2. ASSUME NEW c \in Node \ {Root}, NEW d \in Node \ {Root}, c # d, parent'[c] = parent'[d]
      PROVE  name'[c] # name'[d]
      BY <1>2 DEF IsTree
<1> QED BY <1>1, <1>2 DEF IsTree

(* Whatever has the root and the children of what it has is the whole tree. *)
LEMMA WholeTree ==
  ASSUME IsTree, NEW S, S \subseteq Node, Root \in S, \A n \in S : Children(n) \subseteq S,
         parent \in [Node \ {Root} -> Node]
  PROVE  S = Node
<1>1. ASSUME Node \ S # {} PROVE FALSE
  <2>1. PICK n \in Node \ S : parent[n] \notin Node \ S
        BY <1>1 DEF IsTree
  <2>2. n \in Node \ {Root} /\ parent[n] \in S
        BY <2>1
  <2> QED BY <2>1, <2>2 DEF Children
<1> QED BY <1>1

-----------------------------------------------------------------------------
(* A listed driver comes before its children and after what was listed.     *)
LEMMA EnumerateStep == TreeInv /\ Enumerate => TreeInv'
<1> SUFFICES ASSUME TreeInv, Enumerate PROVE TreeInv'
    OBVIOUS
<1> DEFINE h == Head(stack)
           E == Range(reports)
           S == Range(stack)
           rest == Tail(stack)
<1> USE NodeAssumption DEF TreeInv, TreeType
<1>1. /\ stack # <<>> /\ Enumerating /\ Listed /\ Building
      /\ reports' = Append(reports, h)
      /\ UNCHANGED <<parent, name, topo, clients, last>>
      BY DEF Enumerate, tree
<1>2. PICK order \in Orders(Children(h)) : stack' = order \o rest
      BY DEF Enumerate
<1>3. order \in Seq(Node) /\ IsInjective(order) /\ Range(order) = Children(h)
  <2>1. Children(h) \subseteq Node /\ IsFiniteSet(Children(h))
        BY FS_Subset DEF Children
  <2>2. order \in Seq(Children(h)) /\ IsInjective(order) /\ Range(order) = Children(h)
        BY <2>1, OrdersList
  <2> QED BY <2>1, <2>2, SeqMonotonic
<1>4. rest \in Seq(Node) /\ IsInjective(rest) /\ h \in S /\ h \in Node /\ Range(rest) = S \ {h}
      BY <1>1, ShortenedList, RangeOfSeq DEF Listed
<1>5. /\ h \notin E /\ Children(h) \cap (S \cup E) = {} /\ h \notin Children(h)
  <2>1. h \notin E
        BY <1>1, <1>4 DEF Enumerating
  <2>2. ASSUME NEW c \in Children(h), c \in S \cup E PROVE FALSE
        BY <1>1, <2>1, <2>2 DEF Enumerating, Seen, Children
  <2> QED BY <1>4, <2>1, <2>2
<1>6. /\ reports' \in Seq(Node) /\ IsInjective(reports') /\ Range(reports') = E \cup {h}
      BY <1>1, <1>4, <1>5, ContinuedList DEF Listed
<1>7. /\ stack' \in Seq(Node) /\ IsInjective(stack') /\ Range(stack') = Children(h) \cup (S \ {h})
  <2>1. Range(order) \cap Range(rest) = {}
        BY <1>3, <1>4, <1>5
  <2>2. /\ order \o rest \in Seq(Node) /\ IsInjective(order \o rest)
        /\ Range(order \o rest) = Range(order) \cup Range(rest)
    <3>1. \A s, t \in Seq(Node) :
            IsInjective(s) /\ IsInjective(t) /\ Range(s) \cap Range(t) = {} =>
              s \o t \in Seq(Node) /\ IsInjective(s \o t) /\ Range(s \o t) = Range(s) \cup Range(t)
          BY JoinedLists
    <3> QED BY <1>3, <1>4, <2>1, <3>1
  <2> QED BY <1>2, <1>3, <1>4, <2>2
<1>8. \A n : Children(n)' = Children(n)
      BY <1>1 DEF Children
<1>9. Enumerating'
  <2>1. Seen' = Seen \cup Children(h)
        BY <1>4, <1>6, <1>7 DEF Seen
  <2>2. (Range(stack) \cap Range(reports))' = {}
        BY <1>1, <1>5, <1>6, <1>7 DEF Enumerating
  <2>3. \A n \in Range(reports)' : Children(n)' \subseteq Seen'
        BY <1>1, <1>6, <1>8, <2>1 DEF Enumerating
  <2>4. \A n \in Seen' \ {Root} : parent'[n] \in Range(reports)'
        BY <1>1, <1>6, <2>1 DEF Enumerating, Children
  <2> QED BY <1>1, <2>1, <2>2, <2>3, <2>4 DEF Enumerating
<1>10. Listed'
  <2>1. ASSUME NEW i \in DOMAIN reports', NEW j \in DOMAIN reports',
               reports'[j] # Root, reports'[i] = parent[reports'[j]]
        PROVE  i < j
    <3>1. /\ Len(reports) \in Nat /\ DOMAIN reports = 1..Len(reports)
          /\ DOMAIN reports' = 1..Len(reports) + 1 /\ reports'[Len(reports) + 1] = h
          /\ \A k \in 1..Len(reports) : reports'[k] = reports[k]
          BY <1>1, <1>4, <1>6, AppendProperties, LenProperties
    <3>2. CASE i \in 1..Len(reports) /\ j \in 1..Len(reports)
          BY <1>1, <2>1, <3>1, <3>2 DEF Listed
    <3>3. CASE i \in 1..Len(reports) /\ j = Len(reports) + 1
          BY <3>1, <3>3
    <3>4. CASE i = Len(reports) + 1
      <4>1. reports'[j] \in Range(reports')
            BY DEF Range
      <4>2. reports'[j] \in Seen /\ reports'[j] \in Node
            BY <1>4, <1>6, <4>1, RangeOfSeq DEF Seen
      <4>3. h \in E
            BY <1>1, <2>1, <3>1, <3>4, <4>2 DEF Enumerating
      <4> QED BY <1>5, <4>3
    <3> QED BY <3>1, <3>2, <3>3, <3>4
  <2> QED BY <1>1, <1>6, <1>7, <2>1 DEF Listed
<1>11. ASSUME stack' = <<>> PROVE Collecting'
  <2>1. Range(stack') = {}
        BY <1>11 DEF Range
  <2>2. E \cup {h} = Node
    <3>1. Seen' = E \cup {h} /\ E \cup {h} \subseteq Node
          BY <1>6, <2>1, RangeOfSeq DEF Seen
    <3> QED BY <1>6, <1>8, <1>9, <3>1, WholeTree DEF Enumerating
  <2> QED BY <1>1, <1>6, <2>2, <1>9 DEF Collecting, Enumerating
<1>12. Built = {} /\ Built' = {}
      BY <1>1 DEF Building, Built
<1>13. Building'
      BY <1>1, <1>12 DEF Building, Built
<1> QED BY <1>1, <1>6, <1>7, <1>9, <1>10, <1>11, <1>12, <1>13 DEF IsTree

(* What is read of a driver's report is undone by no later report, for its  *)
(* parent's report was read before it.                                      *)
LEMMA CollectStep == TreeInv /\ Collect => TreeInv'
<1> SUFFICES ASSUME TreeInv, Collect PROVE TreeInv'
    OBVIOUS
<1> DEFINE h == Head(reports)
           R == Range(reports)
<1> USE NodeAssumption DEF TreeInv, TreeType
<1>1. /\ stack = <<>> /\ reports # <<>> /\ Collecting /\ Listed /\ Building
      /\ reports' = Tail(reports) /\ stack' = stack
      /\ topo' = Entered([topo EXCEPT ![h] = {}], h)
      /\ UNCHANGED <<parent, name, clients, last>>
      BY DEF Collect, tree
<1>2. /\ reports' \in Seq(Node) /\ IsInjective(reports') /\ Range(reports') = R \ {h}
      /\ h \in R /\ h \in Node
      BY <1>1, ShortenedList, RangeOfSeq DEF Listed
<1>3. /\ Len(reports) \in Nat \ {0} /\ DOMAIN reports = 1..Len(reports) /\ h = reports[1]
      /\ DOMAIN reports' = 1..Len(reports) - 1
      /\ \A i \in 1..Len(reports) - 1 : reports'[i] = reports[i + 1]
      BY <1>1, HeadTailProperties, LenProperties, EmptySeq
<1>4. Listed'
  <2>1. ASSUME NEW i \in DOMAIN reports', NEW j \in DOMAIN reports',
               reports'[j] # Root, reports'[i] = parent[reports'[j]]
        PROVE  i < j
    <3>1. /\ i + 1 \in DOMAIN reports /\ j + 1 \in DOMAIN reports
          /\ reports[j + 1] # Root /\ reports[i + 1] = parent[reports[j + 1]]
          BY <1>3, <2>1
    <3>2. i + 1 < j + 1
          BY <1>1, <3>1 DEF Listed
    <3> QED BY <1>3, <3>2
  <2> QED BY <1>1, <1>2, <2>1 DEF Listed
<1>5. h # Root => parent[h] \in Node \ R
  <2>1. ASSUME h # Root, NEW i \in DOMAIN reports, reports[i] = parent[h] PROVE FALSE
    <3>1. i < 1
          BY <1>1, <1>3, <2>1 DEF Listed
    <3> QED BY <1>3, <3>1
  <2> QED BY <1>2, <2>1 DEF Range
<1>6. \A n \in Node \ {Root} : parent[n] \in R \ {h} => n \in R \ {h}
      BY <1>1, <1>5 DEF Collecting
<1>7. topo' = [n \in Node |-> IF n \in R \ {h} THEN {} ELSE Children(n) \ (R \ {h})]
  <2>1. \A n \in Node : topo[n] = IF n \in R THEN {} ELSE Children(n) \ R
        BY <1>1 DEF Collecting
  <2>2. Children(h) \subseteq R \ {h}
        BY <1>1, <1>2, <1>5 DEF Collecting, Children
  <2>3. /\ topo' \in [Node -> SUBSET Node]
        /\ h = Root => topo' = [topo EXCEPT ![h] = {}]
        /\ h # Root => topo' = [[topo EXCEPT ![h] = {}] EXCEPT ![parent[h]] = @ \cup {h}]
        BY <1>1, <1>2, <1>5 DEF Entered, ParentUuid
  <2>4. ASSUME NEW n \in Node
        PROVE  topo'[n] = IF n \in R \ {h} THEN {} ELSE Children(n) \ (R \ {h})
    <3>1. CASE n = h
      <4>1. topo'[n] = {}
            BY <1>2, <1>5, <2>3, <3>1
      <4> QED BY <2>2, <3>1, <4>1
    <3>2. CASE h # Root /\ n = parent[h]
      <4>1. n # h /\ n \notin R /\ h \in Children(n)
            BY <1>2, <1>5, <3>2 DEF Children
      <4>2. topo'[n] = topo[n] \cup {h}
            BY <2>3, <3>2, <4>1
      <4>3. topo[n] = Children(n) \ R
            BY <2>1, <4>1
      <4> QED BY <1>2, <4>1, <4>2, <4>3
    <3>3. CASE n # h /\ ~(h # Root /\ n = parent[h])
      <4>1. topo'[n] = topo[n]
            BY <2>3, <3>3
      <4>2. h \notin Children(n)
            BY <3>3 DEF Children
      <4> QED BY <2>1, <3>3, <4>1, <4>2
    <3> QED BY <3>1, <3>2, <3>3
  <2> QED BY <2>3, <2>4
<1>8. \A n : Children(n)' = Children(n)
      BY <1>1 DEF Children
<1>9. Collecting'
      BY <1>1, <1>2, <1>6, <1>7, <1>8 DEF Collecting
<1>10. Built = {} /\ Built' = {} /\ Building'
      BY <1>1 DEF Building, Built
<1>11. topo' \in [Node -> SUBSET Node]
      BY <1>7 DEF Children
<1> QED BY <1>1, <1>2, <1>4, <1>9, <1>10, <1>11 DEF IsTree

(* A driver's client is built on its children's: the root's is the last.    *)
LEMMA BuildStep == TreeInv /\ (\E n \in Node : Build(n)) => TreeInv'
<1> SUFFICES ASSUME TreeInv, NEW n \in Node, Build(n) PROVE TreeInv'
    OBVIOUS
<1> USE NodeAssumption DEF TreeInv, TreeType
<1>1. /\ stack = <<>> /\ reports = <<>> /\ Collecting /\ Listed /\ Building
      /\ n \notin Built /\ topo[n] \subseteq Built /\ last' = n
      /\ clients' = [m \in Built \cup {n} |-> IF m \in Built THEN clients[m] ELSE ByName(topo[n])]
      /\ UNCHANGED <<parent, name, stack, reports, topo>>
      BY DEF Build, tree
<1>2. topo[n] = Children(n)
      BY <1>1 DEF Collecting, Range
<1>3. (\A m : Children(m)' = Children(m)) /\ (\A T : ByName(T)' = ByName(T))
      BY <1>1 DEF Children, ByName
<1>4. Built' = Built \cup {n}
      BY <1>1 DEF Built
<1>5. clients' = [m \in Built' |-> ByName(Children(m))]
      BY <1>1, <1>2, <1>4 DEF Building
<1>6. \A m \in Built' : Children(m) \subseteq Built'
      BY <1>1, <1>2, <1>4 DEF Building
<1>7. Root \in Built' => Built' = Node /\ n = Root
  <2>1. Root \notin Built
        BY <1>1 DEF Building
  <2>2. Built' \subseteq Node
        BY <1>4
  <2> QED BY <1>4, <1>6, <2>1, <2>2, WholeTree
<1>8. Building'
      BY <1>1, <1>3, <1>5, <1>6, <1>7 DEF Building
<1>9. TreeType'
      BY <1>1, <1>4
<1>10. Listed'
      BY <1>1 DEF Listed
<1>11. Collecting'
      BY <1>1, <1>3 DEF Collecting
<1>12. IsTree'
      BY <1>1, SameIsTree
<1> QED BY <1>1, <1>8, <1>9, <1>10, <1>11, <1>12

LEMMA TreeInitInv == Init => TreeInv
<1> SUFFICES ASSUME Init PROVE TreeInv
    OBVIOUS
<1> USE NodeAssumption
<1>1. /\ stack = <<Root>> /\ reports = <<>> /\ Built = {} /\ clients = [n \in {} |-> {}]
      /\ topo = [n \in Node |-> {}] /\ IsTree /\ last = Nobody
      /\ parent \in [Node \ {Root} -> Node] /\ name \in [Node \ {Root} -> Name]
      BY DEF Init, Built
<1>2. Range(stack) = {Root} /\ Range(reports) = {}
      BY <1>1 DEF Range
<1>3. TreeType
      BY <1>1 DEF TreeType
<1>4. Listed
      BY <1>1 DEF Listed, IsInjective
<1>5. Building
      BY <1>1 DEF Building
<1>6. Enumerating
      BY <1>1, <1>2 DEF Enumerating, Seen
<1> QED BY <1>1, <1>3, <1>4, <1>5, <1>6 DEF TreeInv

LEMMA TreeStep == TreeInv /\ [Next]_vars => TreeInv'
<1> SUFFICES ASSUME TreeInv, [Next]_vars PROVE TreeInv'
    OBVIOUS
<1>1. CASE UNCHANGED vars
  <2>1. UNCHANGED <<parent, name, stack, reports, topo, clients, last>>
        BY <1>1 DEF vars, tree
  <2>2. Listed'
        BY <2>1 DEF TreeInv, Listed
  <2>3. (stack # <<>> => Enumerating)' /\ (stack = <<>> => Collecting)'
        BY <2>1 DEF TreeInv, Enumerating, Seen, Collecting, Children
  <2>4. TreeType'
        BY <2>1 DEF TreeInv, TreeType, Built
  <2>5. Building'
    <3>1. (\A n : Children(n)' = Children(n)) /\ (\A T : ByName(T)' = ByName(T))
          BY <2>1 DEF Children, ByName
    <3> QED BY <2>1, <3>1 DEF TreeInv, Building, Built
  <2> QED BY <2>1, <2>2, <2>3, <2>4, <2>5, SameIsTree DEF TreeInv
<1> QED BY <1>1, EnumerateStep, CollectStep, BuildStep DEF Next

LEMMA SessionTree == SessionInit => TreeInv
BY TreeInitInv DEF SessionInit

LEMMA SessionTreeStep == TreeInv /\ [SessionNext]_sessionVars => TreeInv'
BY TreeStep DEF SessionNext, sessionVars

(* The tree, the lists, the graph and the clients have their types.         *)
THEOREM TreeTypeCorrect == SessionSpec => []TypeOK
<1>1. ASSUME TreeInv PROVE TypeOK
  <2>1. ASSUME NEW n \in Built PROVE clients[n] \in [{name[c] : c \in topo[n]} -> Node]
    <3>1. n \in Node /\ stack = <<>> /\ reports = <<>> /\ clients[n] = ByName(Children(n))
          BY <1>1, <2>1 DEF TreeInv, TreeType, Building, Built
    <3>2. topo = [m \in Node |-> IF m \in Range(reports) THEN {} ELSE Children(m) \ Range(reports)]
          BY <1>1, <3>1 DEF TreeInv, Collecting
    <3>3. topo[n] = Children(n)
          BY <3>1, <3>2 DEF Range
    <3> DEFINE labels == {name[c] : c \in Children(n)}
               child(label) == CHOOSE c \in Children(n) : name[c] = label
    <3>4. ASSUME NEW label \in labels PROVE child(label) \in Node
      <4>1. PICK c \in Children(n) : name[c] = label
            OBVIOUS
      <4>2. child(label) \in Children(n)
            BY <4>1
      <4> QED BY <4>2 DEF Children
    <3>5. clients[n] = [label \in labels |-> child(label)]
          BY <3>1 DEF ByName
    <3> HIDE DEF labels, child
    <3>6. clients[n] \in [labels -> Node]
          BY <3>4, <3>5
    <3> QED BY <3>3, <3>6 DEF labels
  <2> QED BY <1>1, <2>1 DEF TreeInv, TreeType, TypeOK, Built
<1> QED BY <1>1, SessionTree, SessionTreeStep, PTL DEF SessionSpec

(* Every client has its driver's children, whatever the tree and the orders *)
(* its children are held in.                                                *)
THEOREM TreeIsTheSame == SessionSpec => []SameTree
<1>1. TreeInv => SameTree
      BY DEF TreeInv, Building, SameTree, Built
<1> QED BY <1>1, SessionTree, SessionTreeStep, PTL DEF SessionSpec

-----------------------------------------------------------------------------
LEMMA CallInitInv == SessionInit => CallInv
BY StreamAssumption DEF SessionInit, StreamInit, CallInv, Generators, Calls, Loops

LEMMA CallStep == WalkInv /\ CallInv /\ [SessionNext]_sessionVars => CallInv'
<1> SUFFICES ASSUME WalkInv, CallInv, [SessionNext]_sessionVars PROVE CallInv'
    OBVIOUS
<1> USE StreamAssumption DEF CallInv, Generators, Calls, Loops, Ended, server, wire, client
<1>1. CASE UNCHANGED streaming
      BY <1>1 DEF streaming
<1>2. CASE Connects \/ \E label \in Name : Follows(label)
      BY <1>2 DEF Connects, Follows
<1>3. ASSUME NEW c \in Call, Iterate(c) PROVE CallInv'
      BY <1>3 DEF Iterate
<1>4. ASSUME NEW c \in Call, Asks(c) PROVE CallInv'
      BY <1>4 DEF Asks
<1>5. ASSUME NEW c \in Call, Takes(c) PROVE CallInv'
      BY <1>5 DEF Takes
<1>6. ASSUME NEW c \in Call, LoopEnds(c) PROVE CallInv'
      BY <1>6 DEF LoopEnds, Over
<1>7. ASSUME NEW c \in Call, Leaves(c) PROVE CallInv'
      BY <1>7 DEF Leaves
<1>8. ASSUME NEW c \in Call, LostResult(c) PROVE CallInv'
      BY <1>8 DEF LostResult
<1>9. ASSUME NEW c \in Call, Dropped(c) PROVE CallInv'
      BY <1>9 DEF Dropped
<1>10. ASSUME NEW c \in Call, Looks(c) PROVE CallInv'
  <2>1. /\ rpc[c] = "open" /\ gen[c] = "none"
        /\ serving' = [serving EXCEPT ![c] = held]
        /\ UNCHANGED <<yielded, pipe, user, got, lost>>
        BY <1>10 DEF Looks
  <2>2. serving' \in [Call -> Node \cup {NoDriver}]
        BY <2>1 DEF WalkInv
  <2>3. CASE Ends(c, "closed")
        BY <2>1, <2>2, <2>3 DEF Ends
  <2>4. CASE \E g \in {"async", "plain"} : gen' = [gen EXCEPT ![c] = g] /\ UNCHANGED rpc
        BY <2>1, <2>2, <2>4
  <2> QED BY <1>10, <2>3, <2>4 DEF Looks, Finds
<1>11. ASSUME NEW c \in Call, Computes(c) PROVE CallInv'
      BY <1>11 DEF Computes
<1>12. ASSUME NEW c \in Call, Yields(c) PROVE CallInv'
      BY <1>12 DEF Yields, Resumed
<1>13. ASSUME NEW c \in Call, Stops(c) PROVE CallInv'
  <2>1. PICK outcome \in Ended : Ends(c, outcome)
        BY <1>13 DEF Stops
  <2>2. /\ gen[c] \in {"busy", "async"}
        /\ UNCHANGED <<serving, yielded, pipe, user, got, lost>>
        BY <1>13 DEF Stops, Resumed
  <2>3. CASE outcome = "done"
        BY <2>1, <2>2, <2>3 DEF Ends
  <2>4. CASE outcome = "closed"
        BY <2>1, <2>2, <2>4 DEF Ends
  <2> QED BY <2>3, <2>4
<1>14. ASSUME NEW c \in Call, Closed(c) PROVE CallInv'
      BY <1>14 DEF Closed
<1>15. ASSUME NEW c \in Call, Breaks(c) PROVE CallInv'
      BY <1>15 DEF Breaks
<1> QED BY <1>1, <1>2, <1>3, <1>4, <1>5, <1>6, <1>7, <1>8, <1>9, <1>10, <1>11, <1>12, <1>13, <1>14, <1>15
        DEF SessionNext, sessionVars, StreamNext, Loop, Generator

-----------------------------------------------------------------------------
LEMMA WalkInitInv == SessionInit => WalkInv
BY DEF SessionInit, StreamInit, WalkInv, NoDriver

LEMMA WalkStep == TreeInv /\ WalkInv /\ CallInv /\ [SessionNext]_sessionVars => WalkInv'
<1> SUFFICES ASSUME TreeInv, WalkInv, CallInv, [SessionNext]_sessionVars PROVE WalkInv'
    OBVIOUS
<1> USE NodeAssumption DEF NoDriver
<1>1. CASE Next /\ UNCHANGED streaming
  <2>1. UNCHANGED <<held, place, serving, user>>
        BY <1>1 DEF streaming, spot, server, client
  <2>2. Built = Node => Built' = Node
        BY <1>1 DEF Next, Enumerate, Collect, Build, Built
  <2> QED BY <2>1, <2>2 DEF WalkInv
<1>2. CASE StreamNext /\ UNCHANGED vars
  <2>1. Built' = Built
        BY <1>2 DEF vars, Built
  <2>2. CASE Connects
    <3>1. held' = Root /\ place' = Root
          BY <2>2 DEF Connects, TreeInv, Building
    <3>2. UNCHANGED <<serving, user>> /\ Built = Node /\ \A c \in Call : serving[c] = NoDriver
          BY <2>2 DEF Connects, server, client, WalkInv
    <3> QED BY <2>1, <3>1, <3>2 DEF WalkInv
  <2>3. ASSUME NEW label \in Name, Follows(label) PROVE WalkInv'
    <3>1. /\ held # NoDriver /\ label \in DOMAIN clients[held] /\ \A c \in Call : user[c] = "idle"
          /\ held' = clients[held][label] /\ place' = ByName(Children(place))[label]
          /\ UNCHANGED <<serving, user>>
          BY <2>3 DEF Follows, server, client
    <3>2. Built = Node /\ held \in Node /\ place = held
          BY <3>1 DEF WalkInv
    <3>3. clients[held] = ByName(Children(held))
          BY <3>2 DEF TreeInv, Building
    <3>4. \E c \in Children(held) : name[c] = label
          BY <3>1, <3>3 DEF ByName
    <3>5. ByName(Children(held))[label] \in Node
          BY <3>4 DEF ByName, Children
    <3>6. \A c \in Call : serving[c] = NoDriver
          BY <3>1 DEF CallInv
    <3> QED BY <2>1, <3>1, <3>2, <3>3, <3>5, <3>6 DEF WalkInv
  <2>4. ASSUME NEW c \in Call, Iterate(c) PROVE WalkInv'
        BY <2>1, <2>4 DEF Iterate, WalkInv, CallInv, spot, server
  <2>5. ASSUME NEW c \in Call, Looks(c) PROVE WalkInv'
        BY <2>1, <2>5 DEF Looks, WalkInv, CallInv, spot, client
  <2>6. ASSUME NEW c \in Call, Asks(c) \/ Takes(c) \/ LoopEnds(c) \/ Leaves(c) PROVE WalkInv'
    <3>1. UNCHANGED <<held, place, serving>> /\ user[c] # "idle"
          BY <2>6 DEF Asks, Takes, LoopEnds, Over, Leaves, spot, server
    <3> QED BY <2>1, <3>1 DEF WalkInv
  <2>7. ASSUME NEW c \in Call,
               LostResult(c) \/ Dropped(c) \/ Computes(c) \/ Yields(c) \/ Stops(c) \/ Closed(c) \/ Breaks(c)
        PROVE  WalkInv'
    <3>1. UNCHANGED <<held, place, serving, user>>
          BY <2>7 DEF LostResult, Dropped, Computes, Yields, Stops, Closed, Breaks, spot, server, client
    <3> QED BY <2>1, <3>1 DEF WalkInv
  <2> QED BY <1>2, <2>2, <2>3, <2>4, <2>5, <2>6, <2>7 DEF StreamNext, Loop, Generator
<1>3. CASE UNCHANGED sessionVars
  <2>1. UNCHANGED <<held, place, serving, user, clients>>
        BY <1>3 DEF sessionVars, vars, streaming, spot, server, client
  <2> QED BY <2>1 DEF WalkInv, Built
<1> QED BY <1>1, <1>2, <1>3 DEF SessionNext

LEMMA SessionInvStep == SessionInv /\ [SessionNext]_sessionVars => SessionInv'
BY SessionTreeStep, CallStep, WalkStep DEF SessionInv

LEMMA SessionInitInv == SessionInit => SessionInv
BY SessionTree, CallInitInv, WalkInitInv DEF SessionInv

(* A call is served by the driver at its client's place in the tree.        *)
THEOREM CallsReachTheirDriver == SessionSpec => []ItsDriver
<1>1. SessionInv => ItsDriver
      BY DEF SessionInv, WalkInv, ItsDriver
<1> QED BY <1>1, SessionInitInv, SessionInvStep, PTL DEF SessionSpec

(* What the user has, the calls and the generators have their types, and    *)
(* no more results are under way than the window lets.                      *)
THEOREM StreamTypeCorrect == SessionSpec => []StreamTypeOK
<1>1. SessionInv => StreamTypeOK
  <2> SUFFICES ASSUME SessionInv PROVE StreamTypeOK
      OBVIOUS
  <2>1. held \in Node \cup {NoDriver} /\ place \in Node \cup {NoDriver}
        BY DEF SessionInv, WalkInv
  <2>2. \A c \in Call : yielded[c] \in 0..MaxResults /\ pipe[c] \in 0..Window /\ got[c] \in 0..MaxResults
        BY StreamAssumption DEF SessionInv, CallInv
  <2> QED BY <2>1, <2>2 DEF SessionInv, CallInv, StreamTypeOK
<1> QED BY <1>1, SessionInitInv, SessionInvStep, PTL DEF SessionSpec

-----------------------------------------------------------------------------
(* What a step does to the results of a call. *)
ResultMoves(c) ==
  /\ yielded'[c] # yielded[c] => yielded'[c] = yielded[c] + 1 /\ gen[c] # "done"
  /\ got'[c] # got[c] => got'[c] = got[c] + 1 /\ got[c] < yielded[c] /\ user[c] = "asking"
  /\ gen[c] = "done" => gen'[c] = "done"
  /\ user[c] \in {"ended", "left", "raised"} => user'[c] = user[c]
  /\ user[c] # "ended" /\ user'[c] = "ended" => gen[c] = "done" /\ got[c] = yielded[c]

LEMMA ResultsMove == CallInv /\ CallInv' /\ [SessionNext]_sessionVars => \A c \in Call : ResultMoves(c)
<1> SUFFICES ASSUME CallInv, CallInv', [SessionNext]_sessionVars, NEW d \in Call PROVE ResultMoves(d)
    OBVIOUS
<1> USE DEF CallInv, Generators, Calls, Loops, Ended, server, wire, client, ResultMoves
<1>1. CASE UNCHANGED streaming
      BY <1>1 DEF streaming
<1>2. CASE Connects \/ \E label \in Name : Follows(label)
      BY <1>2 DEF Connects, Follows
<1>3. ASSUME NEW c \in Call, Iterate(c) \/ Asks(c) \/ LoopEnds(c) \/ Leaves(c) PROVE ResultMoves(d)
      BY <1>3 DEF Iterate, Asks, LoopEnds, Over, Leaves
<1>4. ASSUME NEW c \in Call, Takes(c) PROVE ResultMoves(d)
      BY <1>4 DEF Takes
<1>5. ASSUME NEW c \in Call, LostResult(c) \/ Dropped(c) \/ Breaks(c) PROVE ResultMoves(d)
      BY <1>5 DEF LostResult, Dropped, Breaks
<1>6. ASSUME NEW c \in Call, Looks(c) PROVE ResultMoves(d)
      BY <1>6 DEF Looks, Finds, Ends
<1>7. ASSUME NEW c \in Call, Computes(c) \/ Closed(c) PROVE ResultMoves(d)
      BY <1>7 DEF Computes, Closed
<1>8. ASSUME NEW c \in Call, Yields(c) PROVE ResultMoves(d)
      BY <1>8 DEF Yields, Resumed
<1>9. ASSUME NEW c \in Call, Stops(c) PROVE ResultMoves(d)
      BY <1>9 DEF Stops, Resumed, Ends
<1> QED BY <1>1, <1>2, <1>3, <1>4, <1>5, <1>6, <1>7, <1>8, <1>9
        DEF SessionNext, sessionVars, StreamNext, Loop, Generator

(* A loop is a stream of its generator's results, and one that ends quietly *)
(* has had them all.                                                        *)
THEOREM LoopsAreWhole == SessionSpec => ResultsAreWhole
<1>1. SessionInit => Results!StreamInit
  <2> SUFFICES ASSUME SessionInit PROVE Results!StreamInit
      OBVIOUS
  <2> QED BY DEF SessionInit, StreamInit, Results!StreamInit
<1>2. SessionInv /\ SessionInv' /\ [SessionNext]_sessionVars => [Results!StreamNext]_Results!streamVars
  <2> SUFFICES ASSUME SessionInv, SessionInv', [SessionNext]_sessionVars PROVE Results!StreamNext
      OBVIOUS
  <2>1. CallInv /\ CallInv' /\ \A c \in Call : ResultMoves(c)
        BY ResultsMove DEF SessionInv
  <2>2. ASSUME NEW c \in Call PROVE Results!StreamStep(c)
        BY <2>1 DEF ResultMoves, CallInv, Loops, Results!StreamStep, Results!Sends, Results!Reads, Results!MayEnd
  <2>3. yielded' \in [Call -> Nat] /\ got' \in [Call -> Nat]
        BY <2>1 DEF CallInv
  <2> QED BY <2>1, <2>2, <2>3 DEF Results!StreamNext, ResultMoves
<1> QED BY <1>1, <1>2, SessionInitInv, SessionInvStep, PTL DEF SessionSpec, ResultsAreWhole, Results!StreamSpec
=============================================================================
