---------------------------- MODULE ValidatorProofs ----------------------------
(***************************************************************************)
(* Proofs about DocumentValidator, for every document and all rules that   *)
(* have passed their tests.                                                *)
(***************************************************************************)
EXTENDS RulesProofs

-----------------------------------------------------------------------------
(* Elements of a list.                                                     *)

\* The elements of a list that are in a set are all of them; those of D stay distinct.
LEMMA AmongKeeps ==
  ASSUME NEW list, list \in Seq(ToSet(list)), NEW set, NEW D,
         \A i, j \in DOMAIN list : list[i] \in D /\ list[i] = list[j] => i = j
  PROVE  LET found == Among(list, set)
         IN  /\ found \in Seq(ToSet(list)) /\ found \in Seq(ToSet(found))
             /\ ToSet(found) = ToSet(list) \cap set
             /\ \A i, j \in DOMAIN found : found[i] \in D /\ found[i] = found[j] => i = j
<1> DEFINE S == ToSet(list)
           n == Len(list)
           nothing == <<>>
<1>1. n \in Nat /\ DOMAIN list = 1 .. n /\ \A i \in 1 .. n : list[i] \in S
  <2>1. list \in Seq(S)
    OBVIOUS
  <2> HIDE DEF S
  <2> QED
    BY <2>1
<1>2. Among(list, set) = Fold(nothing, list, "among", set)
  BY DEF Among, Fold
<1>3. "among" \in FoldKinds
  BY DEF FoldKinds
<1> HIDE DEF n, nothing
<1>4. PICK f : IsFold(f, nothing, list, n, "among", set) /\ Fold(nothing, list, "among", set) = f[1 .. n]
  BY <1>1, <1>3, FoldIsLast
<1>5. /\ f[{}] = nothing
      /\ \A i \in 1 .. n : f[1 .. i] = Step(f[1 .. i - 1], list[i], "among", set)
  BY <1>1, <1>4, FoldOnTheWay
<1>6. ASSUME NEW i \in 1 .. n
      PROVE  f[1 .. i] = IF list[i] \in set THEN Append(f[1 .. i - 1], list[i]) ELSE f[1 .. i - 1]
  <2>1. \A v : Step(v, list[i], "among", set) = IF list[i] \in set THEN Append(v, list[i]) ELSE v
    BY DEF Step
  <2> QED
    BY <1>5, <2>1
<1> DEFINE Seen(i) == {list[j] : j \in 1 .. i}
           IsDistinct(v) == \A j, k \in DOMAIN v : v[j] \in D /\ v[j] = v[k] => j = k
           Fits(v, i) == v \in Seq(S) /\ ToSet(v) = Seen(i) \cap set /\ IsDistinct(v)
           T == {i \in 0 .. n : Fits(f[1 .. i], i)}
<1>7. 0 \in T
  <2>1. 1 .. 0 = {} /\ 0 \in 0 .. n /\ <<>> \in Seq(S) /\ ToSet(<<>>) = {} /\ DOMAIN <<>> = {}
    BY <1>1 DEF ToSet
  <2> QED
    BY <1>5, <2>1 DEF nothing
<1>8. ASSUME NEW i \in 0 .. n - 1, i \in T
      PROVE  i + 1 \in T
  <2> DEFINE old == f[1 .. i]
             new == f[1 .. i + 1]
             x == list[i + 1]
  <2>1. i \in Nat /\ i + 1 \in 1 .. n /\ i + 1 \in 0 .. n /\ (i + 1) - 1 = i
    BY <1>1
  <2>2. new = IF x \in set THEN Append(old, x) ELSE old
    BY <1>6, <2>1
  <2>3. old \in Seq(S) /\ ToSet(old) = Seen(i) \cap set /\ IsDistinct(old)
    BY <1>8
  <2>4. x \in S
    BY <1>1, <2>1
  <2>5. Seen(i + 1) = Seen(i) \cup {x}
    <3>1. \A j : j \in 1 .. i + 1 <=> j \in 1 .. i \/ j = i + 1
      BY <2>1
    <3> QED
      BY <3>1
  <2>6. x \in D => x \notin Seen(i)
    <3> SUFFICES ASSUME x \in D, NEW j \in 1 .. i, list[j] = x
                 PROVE  FALSE
      OBVIOUS
    <3>1. j \in 1 .. n /\ j # i + 1
      BY <1>1, <2>1
    <3> QED
      BY <1>1, <2>1, <3>1
  <2> HIDE DEF old, new, x, S, Seen
  <2>7. CASE x \in set
    <3>1. new = Append(old, x) /\ new \in Seq(S) /\ Len(old) \in Nat /\ DOMAIN old = 1 .. Len(old)
          /\ DOMAIN new = 1 .. Len(old) + 1 /\ new[Len(old) + 1] = x /\ \A j \in 1 .. Len(old) : new[j] = old[j]
      BY <2>2, <2>3, <2>4, <2>7
    <3>2. \A j : j \in 1 .. Len(old) + 1 <=> j \in 1 .. Len(old) \/ j = Len(old) + 1
      BY <3>1
    <3>3. ToSet(new) = ToSet(old) \cup {x}
      BY <3>1, <3>2 DEF ToSet
    <3>4. x \in D => x \notin ToSet(old)
      BY <2>3, <2>6
    <3>5. \A j \in 1 .. Len(old) : new[j] \in ToSet(old)
      BY <3>1 DEF ToSet
    <3>6. IsDistinct(new)
      BY <2>3, <3>1, <3>2, <3>4, <3>5
    <3>7. ToSet(new) = Seen(i + 1) \cap set
      BY <2>3, <2>5, <2>7, <3>3
    <3> QED
      BY <2>1, <3>1, <3>6, <3>7 DEF new
  <2>8. CASE x \notin set
    <3>1. new = old
      BY <2>2, <2>8
    <3>2. Seen(i + 1) \cap set = Seen(i) \cap set
      BY <2>5, <2>8
    <3> QED
      BY <2>1, <2>3, <3>1, <3>2 DEF new
  <2> QED
    BY <2>7, <2>8
<1> HIDE DEF T
<1>9. \A i \in 0 .. n : i \in T
  BY <1>1, <1>7, <1>8, RangeInduction
<1>10. n \in 0 .. n
  BY <1>1
<1>11. Fits(f[1 .. n], n)
  BY <1>9, <1>10 DEF T
<1>12. Seen(n) = S
  BY <1>1 DEF ToSet
<1>13. Among(list, set) = f[1 .. n]
  BY <1>2, <1>4
<1> HIDE DEF S, Seen
<1>14. f[1 .. n] \in Seq(ToSet(f[1 .. n]))
  BY <1>11, IsOfItsElements
<1> QED
  BY <1>11, <1>12, <1>13, <1>14 DEF S

LEMMA AmongIsPart ==
  ASSUME NEW list, list \in Seq(ToSet(list)), NEW set
  PROVE  Among(list, set) \in Seq(ToSet(Among(list, set))) /\ ToSet(Among(list, set)) = ToSet(list) \cap set
<1> DEFINE none == {}
<1>1. \A i, j \in DOMAIN list : list[i] \in none /\ list[i] = list[j] => i = j
  OBVIOUS
<1> HIDE DEF none
<1> QED
  BY <1>1, AmongKeeps

LEMMA PrefixFacts ==
  ASSUME NEW S, NEW p \in Seq(S), NEW q \in Seq(S), NEW r \in Seq(S)
  PROVE  /\ IsPrefix(<<>>, p) /\ IsPrefix(p, p)
         /\ IsPrefix(p, q) /\ IsPrefix(q, r) => IsPrefix(p, r)
         /\ IsPrefix(p, r) /\ IsPrefix(q, r) => IsPrefix(p, q) \/ IsPrefix(q, p)
         /\ IsPrefix(p, q) /\ Len(p) = Len(q) => p = q
         /\ IsPrefix(p, q) => Len(p) <= Len(q)
         /\ IsPrefix(p, q) /\ p # q => q # <<>> /\ IsPrefix(p, Front(q))
<1>1. Len(p) \in Nat /\ Len(q) \in Nat /\ Len(r) \in Nat /\ <<>> \in Seq(S) /\ Len(<<>>) = 0
  OBVIOUS
<1>2. IsPrefix(<<>>, p) <=> Len(<<>>) <= Len(p) /\ \A i \in 1 .. Len(<<>>) : <<>>[i] = p[i]
  <2>1. PICK e \in Seq(S) : e = <<>>
    BY <1>1
  <2>2. IsPrefix(e, p) <=> Len(e) <= Len(p) /\ \A i \in 1 .. Len(e) : e[i] = p[i]
    BY PrefixIsPointwise
  <2> QED
    BY <2>1, <2>2
<1>3. \A a, b \in {p, q, r} : IsPrefix(a, b) <=> Len(a) <= Len(b) /\ \A i \in 1 .. Len(a) : a[i] = b[i]
  BY PrefixIsPointwise
<1>4. IsPrefix(<<>>, p) /\ IsPrefix(p, p)
  BY <1>1, <1>2, <1>3
<1>5. IsPrefix(p, q) /\ IsPrefix(q, r) => IsPrefix(p, r)
  BY <1>1, <1>3
<1>6. IsPrefix(p, r) /\ IsPrefix(q, r) => IsPrefix(p, q) \/ IsPrefix(q, p)
  BY <1>1, <1>3
<1>7. IsPrefix(p, q) /\ Len(p) = Len(q) => p = q
  BY <1>1, <1>3, SeqEqual
<1>8. IsPrefix(p, q) => Len(p) <= Len(q)
  BY <1>3
<1>9. IsPrefix(p, q) /\ p # q => q # <<>> /\ IsPrefix(p, Front(q))
  <2> SUFFICES ASSUME IsPrefix(p, q), p # q
               PROVE  q # <<>> /\ IsPrefix(p, Front(q))
    OBVIOUS
  <2>1. Len(p) < Len(q)
    BY <1>1, <1>7, <1>8
  <2>2. q # <<>>
    BY <1>1, <2>1
  <2>3. Front(q) = p \/ (Len(p) < Len(Front(q)) /\ IsPrefix(p, Front(q)))
    BY <2>1, <2>2, BelowIsAbove
  <2> QED
    BY <1>4, <2>2, <2>3
<1> QED
  BY <1>4, <1>5, <1>6, <1>7, <1>8, <1>9

-----------------------------------------------------------------------------
(* The tree of values.                                                     *)

\* What the values of the document, without defaults, look like.
IsTree(own) ==
  /\ \A node \in own :
       /\ IsValue(node) /\ ~node.isDefault /\ node.path \in Seq(STRING)
       /\ node.type = "ValueList" => node.content \in Seq(ToSet(node.content))
       /\ IF node.path = <<>> THEN node.type = "Document" ELSE \E above \in own : IsIn(node, above)
  /\ \A node, other \in own : node.path = other.path => node = other
  /\ \E node \in own : node.path = <<>>

IsOneByOne(doc) == \A i, j \in DOMAIN doc : ~doc[i].isDefault /\ doc[i] = doc[j] => i = j

LEMMA TreeOfValues ==
  ASSUME NEW doc
  PROVE  IsValueTree(doc) <=>
           /\ doc \in Seq(ToSet(doc)) /\ (\A node \in ToSet(doc) : IsValue(node))
           /\ IsOneByOne(doc) /\ IsTree(OwnNodes(doc))
<1>1. NodesIn(doc) = ToSet(doc)
  BY DEF NodesIn, ToSet
<1>2. OwnNodes(doc) \subseteq ToSet(doc) /\ \A node \in OwnNodes(doc) : ~node.isDefault
  BY <1>1 DEF OwnNodes
<1>3. \A i \in DOMAIN doc : doc[i] \in ToSet(doc) /\ (~doc[i].isDefault => doc[i] \in OwnNodes(doc))
  BY <1>1 DEF OwnNodes, ToSet
<1>4. \A node \in OwnNodes(doc) : \E i \in DOMAIN doc : doc[i] = node
  BY <1>1 DEF OwnNodes, ToSet
<1>5. (\A i, j \in DOMAIN doc : ~doc[i].isDefault /\ ~doc[j].isDefault /\ doc[i].path = doc[j].path => i = j)
        <=> IsOneByOne(doc) /\ \A node, other \in OwnNodes(doc) : node.path = other.path => node = other
  <2>1. ASSUME \A i, j \in DOMAIN doc : ~doc[i].isDefault /\ ~doc[j].isDefault /\ doc[i].path = doc[j].path => i = j
        PROVE  IsOneByOne(doc) /\ \A node, other \in OwnNodes(doc) : node.path = other.path => node = other
    <3>1. IsOneByOne(doc)
      BY <2>1 DEF IsOneByOne
    <3>2. ASSUME NEW node \in OwnNodes(doc), NEW other \in OwnNodes(doc), node.path = other.path
          PROVE  node = other
      <4>1. PICK i \in DOMAIN doc : doc[i] = node
        BY <1>4
      <4>2. PICK j \in DOMAIN doc : doc[j] = other
        BY <1>4
      <4> QED
        BY <1>2, <2>1, <3>2, <4>1, <4>2
    <3> QED
      BY <3>1, <3>2
  <2>2. ASSUME IsOneByOne(doc), \A node, other \in OwnNodes(doc) : node.path = other.path => node = other
        PROVE  \A i, j \in DOMAIN doc : ~doc[i].isDefault /\ ~doc[j].isDefault /\ doc[i].path = doc[j].path => i = j
    BY <1>3, <2>2 DEF IsOneByOne
  <2> QED
    BY <2>1, <2>2
<1>6. ASSUME \A node \in ToSet(doc) : IsValue(node)
      PROVE  \A node \in OwnNodes(doc) : IsValue(node)
  BY <1>2, <1>6
<1> HIDE DEF OwnNodes
<1> QED
  BY <1>1, <1>2, <1>5, <1>6 DEF IsValueTree, IsTree

LEMMA OwnNodesAre ==
  ASSUME NEW doc
  PROVE  OwnNodes(doc) = {node \in ToSet(doc) : ~node.isDefault}
BY DEF OwnNodes, NodesIn, ToSet

\* The value itself is found.
LEMMA OwnNodeIsFound ==
  ASSUME NEW doc, IsValueTree(doc), NEW node \in OwnNodes(doc)
  PROVE  OwnNode(doc, node.path) = node
<1>1. PICK i \in DOMAIN doc : doc[i] = node
  BY DEF OwnNodes, NodesIn
<1>2. ~node.isDefault
  BY DEF OwnNodes
<1>3. \E j \in PlacesOf(doc, node.path) : ~doc[j].isDefault
  BY <1>1, <1>2 DEF PlacesOf
<1> DEFINE k == CHOOSE j \in PlacesOf(doc, node.path) : ~doc[j].isDefault
<1>4. k \in PlacesOf(doc, node.path) /\ ~doc[k].isDefault
  BY <1>3
<1> HIDE DEF k
<1>5. k = i
  BY <1>1, <1>2, <1>4 DEF PlacesOf, IsValueTree
<1> QED
  BY <1>1, <1>5 DEF OwnNode, k

\* Children are one level below.
LEMMA ChildIsOneBelow ==
  ASSUME NEW node, node.path \in Seq(STRING), NEW p \in Seq(STRING)
  PROVE  IsChildOf(node, p) <=> node.path # <<>> /\ Front(node.path) = p
<1>1. ASSUME node.path = <<>>
      PROVE  ~IsChildOf(node, p)
  BY <1>1 DEF IsChildOf
<1>2. ASSUME node.path # <<>>
      PROVE  IsChildOf(node, p) <=> Front(node.path) = p
  BY <1>2, BelowIsAbove DEF IsChildOf
<1> QED
  BY <1>1, <1>2

\* Without the defaults below a value the tree of values is the same, and its children
\* are values of the document.
LEMMA DefaultsAreRemoved ==
  ASSUME NEW doc, IsValueTree(doc), NEW p
  PROVE  LET cleaned == RemoveDefaultValues(doc, p)
         IN  /\ IsValueTree(cleaned) /\ OwnNodes(cleaned) = OwnNodes(doc)
             /\ \A node \in ToSet(cleaned) : IsChildOf(node, p) => ~node.isDefault
<1> DEFINE set == {node \in NodesIn(doc) : ~(IsChildOf(node, p) /\ node.isDefault)}
           D == OwnNodes(doc)
           cleaned == Among(doc, set)
<1>1. /\ doc \in Seq(ToSet(doc)) /\ (\A node \in ToSet(doc) : IsValue(node))
      /\ IsOneByOne(doc) /\ IsTree(OwnNodes(doc))
  BY TreeOfValues
<1>2. cleaned = RemoveDefaultValues(doc, p)
  BY DEF RemoveDefaultValues
<1>3. \A i, j \in DOMAIN doc : doc[i] \in D /\ doc[i] = doc[j] => i = j
  BY <1>1 DEF IsOneByOne, OwnNodes
<1>4. /\ cleaned \in Seq(ToSet(cleaned)) /\ ToSet(cleaned) = ToSet(doc) \cap set
      /\ \A i, j \in DOMAIN cleaned : cleaned[i] \in D /\ cleaned[i] = cleaned[j] => i = j
  <2> HIDE DEF set, D
  <2> QED
    BY <1>1, <1>3, AmongKeeps
<1>5. NodesIn(doc) = ToSet(doc)
  BY DEF NodesIn, ToSet
<1> HIDE DEF cleaned
<1>6. OwnNodes(cleaned) = OwnNodes(doc)
  <2>1. OwnNodes(cleaned) = {node \in ToSet(cleaned) : ~node.isDefault}
    BY OwnNodesAre
  <2>2. OwnNodes(doc) = {node \in ToSet(doc) : ~node.isDefault}
    BY OwnNodesAre
  <2> QED
    BY <1>4, <1>5, <2>1, <2>2
<1>7. IsOneByOne(cleaned)
  <2>1. \A i \in DOMAIN cleaned : cleaned[i] \in ToSet(doc)
    BY <1>4 DEF ToSet
  <2>2. \A i \in DOMAIN cleaned : ~cleaned[i].isDefault => cleaned[i] \in D
    BY <2>1, OwnNodesAre
  <2> QED
    BY <1>4, <2>2 DEF IsOneByOne
<1>8. IsValueTree(cleaned)
  BY <1>1, <1>4, <1>6, <1>7, TreeOfValues
<1>9. \A node \in ToSet(cleaned) : IsChildOf(node, p) => ~node.isDefault
  BY <1>4
<1> QED
  BY <1>2, <1>6, <1>8, <1>9

\* Values of the document with other rules, at the path or below it.
IsRetested(own, next, p) ==
  /\ \A m \in next : \E n \in own :
       m.path = n.path /\ m.type = n.type /\ m.content = n.content /\ (IsPrefix(p, n.path) \/ m = n)
  /\ \A n \in own : \E m \in next :
       m.path = n.path /\ m.type = n.type /\ m.content = n.content /\ (IsPrefix(p, n.path) \/ m = n)

WithRule(doc, chosen, r) == [i \in DOMAIN doc |-> IF i \in chosen THEN [doc[i] EXCEPT !.rule = r] ELSE doc[i]]

\* Values that get a rule keep everything else.
LEMMA RulesAreAssigned ==
  ASSUME NEW doc, IsValueTree(doc), NEW chosen, NEW r, NEW new, new = WithRule(doc, chosen, r)
  PROVE  /\ IsValueTree(new) /\ DOMAIN new = DOMAIN doc
         /\ \A i \in DOMAIN doc :
              /\ new[i].path = doc[i].path /\ new[i].type = doc[i].type /\ new[i].content = doc[i].content
              /\ new[i].isDefault = doc[i].isDefault
              /\ (i \in chosen => new[i].rule = r) /\ (i \notin chosen => new[i] = doc[i])
         /\ \A m \in OwnNodes(new) : \E i \in DOMAIN doc : doc[i] \in OwnNodes(doc) /\ m = new[i]
         /\ \A n \in OwnNodes(doc) : \E i \in DOMAIN doc : n = doc[i] /\ new[i] \in OwnNodes(new)
<1>1. /\ doc \in Seq(ToSet(doc)) /\ (\A node \in ToSet(doc) : IsValue(node))
      /\ IsOneByOne(doc) /\ IsTree(OwnNodes(doc))
  BY TreeOfValues
<1>2. Len(doc) \in Nat /\ DOMAIN doc = 1 .. Len(doc) /\ DOMAIN new = 1 .. Len(doc)
  BY <1>1 DEF WithRule
<1>3. \A i \in DOMAIN doc : doc[i] \in ToSet(doc)
  BY DEF ToSet
<1>4. ASSUME NEW i \in DOMAIN doc
      PROVE  /\ IsValue(new[i])
             /\ new[i].path = doc[i].path /\ new[i].type = doc[i].type /\ new[i].content = doc[i].content
             /\ new[i].isDefault = doc[i].isDefault
             /\ (i \in chosen => new[i].rule = r) /\ (i \notin chosen => new[i] = doc[i])
  <2> DEFINE d == doc[i]
  <2>1. d = [path |-> d.path, type |-> d.type, content |-> d.content, isDefault |-> d.isDefault, rule |-> d.rule]
    BY <1>1, <1>3 DEF IsValue
  <2>2. new[i] = IF i \in chosen THEN [d EXCEPT !.rule = r] ELSE d
    BY DEF WithRule
  <2> HIDE DEF d
  <2>3. CASE i \in chosen
    <3>1. new[i] = [path |-> d.path, type |-> d.type, content |-> d.content, isDefault |-> d.isDefault, rule |-> r]
      BY <2>1, <2>2, <2>3
    <3> QED
      BY <2>3, <3>1 DEF IsValue, d
  <2>4. CASE i \notin chosen
    BY <2>1, <2>2, <2>4 DEF IsValue, d
  <2> QED
    BY <2>3, <2>4
<1> DEFINE U == {new[i] : i \in 1 .. Len(doc)}
<1>5. new \in Seq(U)
  <2>1. \A i \in 1 .. Len(doc) : new[i] \in U
    OBVIOUS
  <2>2. new = [i \in 1 .. Len(doc) |-> new[i]]
    BY <1>2 DEF WithRule
  <2> HIDE DEF U
  <2>3. new \in [1 .. Len(doc) -> U]
    BY <2>1, <2>2
  <2> QED
    BY <1>2, <2>3
<1>6. new \in Seq(ToSet(new))
  <2> HIDE DEF U
  <2> QED
    BY <1>5, IsOfItsElements
<1> HIDE DEF U
<1>7. \A m \in OwnNodes(new) : \E i \in DOMAIN doc : doc[i] \in OwnNodes(doc) /\ m = new[i]
  BY <1>2, <1>4 DEF OwnNodes, NodesIn
<1>8. \A n \in OwnNodes(doc) : \E i \in DOMAIN doc : n = doc[i] /\ new[i] \in OwnNodes(new)
  BY <1>2, <1>4 DEF OwnNodes, NodesIn
<1>9. \A i, j \in DOMAIN doc : ~doc[i].isDefault /\ ~doc[j].isDefault /\ doc[i].path = doc[j].path => i = j
  BY DEF IsValueTree
<1>10. IsOneByOne(new)
  <2> SUFFICES ASSUME NEW i \in DOMAIN new, NEW j \in DOMAIN new, ~new[i].isDefault, new[i] = new[j]
               PROVE  i = j
    BY DEF IsOneByOne
  <2>1. i \in DOMAIN doc /\ j \in DOMAIN doc
    BY <1>2
  <2> QED
    <3>1. doc[i].path = doc[j].path /\ ~doc[i].isDefault /\ ~doc[j].isDefault
      BY <1>4, <2>1
    <3> QED
      BY <1>9, <2>1, <3>1
<1>11. \A i \in DOMAIN doc : NameOf(new[i]) = NameOf(doc[i])
  BY <1>4 DEF NameOf
<1>12. \A i, j \in DOMAIN doc : IsIn(new[i], new[j]) <=> IsIn(doc[i], doc[j])
  BY <1>4, <1>11 DEF IsIn
<1>13. IsTree(OwnNodes(new))
  <2>1. ASSUME NEW m \in OwnNodes(new)
        PROVE  /\ IsValue(m) /\ ~m.isDefault /\ m.path \in Seq(STRING)
               /\ m.type = "ValueList" => m.content \in Seq(ToSet(m.content))
               /\ IF m.path = <<>> THEN m.type = "Document" ELSE \E above \in OwnNodes(new) : IsIn(m, above)
    <3>1. PICK i \in DOMAIN doc : doc[i] \in OwnNodes(doc) /\ m = new[i]
      BY <1>7
    <3>2. /\ ~doc[i].isDefault /\ doc[i].path \in Seq(STRING)
          /\ doc[i].type = "ValueList" => doc[i].content \in Seq(ToSet(doc[i].content))
          /\ IF doc[i].path = <<>> THEN doc[i].type = "Document" ELSE \E above \in OwnNodes(doc) : IsIn(doc[i], above)
      BY <1>1, <3>1 DEF IsTree
    <3>3. ASSUME doc[i].path # <<>>
          PROVE  \E above \in OwnNodes(new) : IsIn(m, above)
      <4>1. PICK above \in OwnNodes(doc) : IsIn(doc[i], above)
        BY <3>2, <3>3
      <4>2. PICK j \in DOMAIN doc : above = doc[j] /\ new[j] \in OwnNodes(new)
        BY <1>8
      <4> QED
        BY <1>12, <3>1, <4>1, <4>2
    <3> QED
      BY <1>4, <3>1, <3>2, <3>3
  <2>2. ASSUME NEW m \in OwnNodes(new), NEW o \in OwnNodes(new), m.path = o.path
        PROVE  m = o
    <3>1. PICK i \in DOMAIN doc : doc[i] \in OwnNodes(doc) /\ m = new[i]
      BY <1>7
    <3>2. PICK j \in DOMAIN doc : doc[j] \in OwnNodes(doc) /\ o = new[j]
      BY <1>7
    <3>3. doc[i].path = doc[j].path /\ ~doc[i].isDefault /\ ~doc[j].isDefault
      BY <1>4, <2>2, <3>1, <3>2 DEF OwnNodes
    <3> QED
      BY <1>9, <3>1, <3>2, <3>3
  <2>3. \E m \in OwnNodes(new) : m.path = <<>>
    <3>1. PICK n \in OwnNodes(doc) : n.path = <<>>
      BY <1>1 DEF IsTree
    <3>2. PICK i \in DOMAIN doc : n = doc[i] /\ new[i] \in OwnNodes(new)
      BY <1>8
    <3>3. new[i].path = n.path
      BY <1>4, <3>2
    <3> QED
      BY <3>1, <3>2, <3>3
  <2> HIDE DEF OwnNodes
  <2> QED
    BY <2>1, <2>2, <2>3 DEF IsTree
<1>14. \A node \in ToSet(new) : IsValue(node)
  BY <1>2, <1>4 DEF ToSet
<1>15. IsValueTree(new)
  BY <1>6, <1>10, <1>13, <1>14, TreeOfValues
<1> QED
  BY <1>2, <1>4, <1>7, <1>8, <1>15

\* One value gets a rule.
LEMMA RuleIsAssigned ==
  ASSUME NEW doc, IsValueTree(doc), NEW p \in Seq(STRING), NEW r
  PROVE  LET new == SetValidationRule(doc, p, r)
         IN  /\ IsValueTree(new) /\ IsRetested(OwnNodes(doc), OwnNodes(new), p)
             /\ \A m \in OwnNodes(new) : IF m.path = p THEN m.rule = r ELSE m \in OwnNodes(doc)
             /\ \A i \in DOMAIN new : new[i].isDefault => i \in DOMAIN doc /\ new[i] = doc[i]
<1> DEFINE chosen == {i \in DOMAIN doc : doc[i].path = p /\ ~doc[i].isDefault}
           new == WithRule(doc, chosen, r)
<1>1. new = SetValidationRule(doc, p, r)
  BY DEF SetValidationRule, WithRule
<1>2. /\ IsValueTree(new) /\ DOMAIN new = DOMAIN doc
      /\ \A i \in DOMAIN doc :
           /\ new[i].path = doc[i].path /\ new[i].type = doc[i].type /\ new[i].content = doc[i].content
           /\ new[i].isDefault = doc[i].isDefault
           /\ (i \in chosen => new[i].rule = r) /\ (i \notin chosen => new[i] = doc[i])
      /\ \A m \in OwnNodes(new) : \E i \in DOMAIN doc : doc[i] \in OwnNodes(doc) /\ m = new[i]
      /\ \A n \in OwnNodes(doc) : \E i \in DOMAIN doc : n = doc[i] /\ new[i] \in OwnNodes(new)
  <2> HIDE DEF chosen
  <2> QED
    BY RulesAreAssigned
<1>3. \A i \in DOMAIN doc : i \in chosen <=> doc[i].path = p /\ ~doc[i].isDefault
  OBVIOUS
<1>4. DOMAIN new = DOMAIN doc
  BY <1>2
<1>5. \A n \in OwnNodes(doc) : ~n.isDefault
  BY DEF OwnNodes
<1>6. IsPrefix(p, p)
  BY PrefixFacts
<1> HIDE DEF new, chosen
<1>7. IsRetested(OwnNodes(doc), OwnNodes(new), p)
  <2>1. \A i \in DOMAIN doc : IsPrefix(p, doc[i].path) \/ new[i] = doc[i]
    BY <1>2, <1>3, <1>6
  <2> QED
    BY <1>2, <2>1 DEF IsRetested
<1>8. \A m \in OwnNodes(new) : IF m.path = p THEN m.rule = r ELSE m \in OwnNodes(doc)
  BY <1>2, <1>3, <1>5
<1>9. \A i \in DOMAIN new : new[i].isDefault => i \in DOMAIN doc /\ new[i] = doc[i]
  BY <1>2, <1>3, <1>4
<1> QED
  BY <1>1, <1>2, <1>7, <1>8, <1>9

\* A whole branch gets a rule.
LEMMA BranchIsMarked ==
  ASSUME NEW doc, IsValueTree(doc), NEW p \in Seq(STRING), NEW r
  PROVE  LET new == MarkBranch(doc, p, r)
         IN  /\ IsValueTree(new) /\ IsRetested(OwnNodes(doc), OwnNodes(new), p)
             /\ \A m \in OwnNodes(new) : IsPrefix(p, m.path) => m.rule = r
<1> DEFINE chosen == {i \in DOMAIN doc : IsPrefix(p, doc[i].path) /\ (doc[i].path = p => ~doc[i].isDefault)}
           new == WithRule(doc, chosen, r)
<1>1. new = MarkBranch(doc, p, r)
  BY DEF MarkBranch, WithRule
<1>2. /\ IsValueTree(new) /\ DOMAIN new = DOMAIN doc
      /\ \A i \in DOMAIN doc :
           /\ new[i].path = doc[i].path /\ new[i].type = doc[i].type /\ new[i].content = doc[i].content
           /\ new[i].isDefault = doc[i].isDefault
           /\ (i \in chosen => new[i].rule = r) /\ (i \notin chosen => new[i] = doc[i])
      /\ \A m \in OwnNodes(new) : \E i \in DOMAIN doc : doc[i] \in OwnNodes(doc) /\ m = new[i]
      /\ \A n \in OwnNodes(doc) : \E i \in DOMAIN doc : n = doc[i] /\ new[i] \in OwnNodes(new)
  <2> HIDE DEF chosen
  <2> QED
    BY RulesAreAssigned
<1>3. \A i \in DOMAIN doc : ~doc[i].isDefault => (i \in chosen <=> IsPrefix(p, doc[i].path))
  OBVIOUS
<1>4. \A n \in OwnNodes(doc) : ~n.isDefault
  BY DEF OwnNodes
<1> HIDE DEF new, chosen
<1>5. IsRetested(OwnNodes(doc), OwnNodes(new), p)
  <2>1. \A i \in DOMAIN doc : doc[i] \in OwnNodes(doc) => IsPrefix(p, doc[i].path) \/ new[i] = doc[i]
    BY <1>2, <1>3, <1>4
  <2> QED
    BY <1>2, <2>1 DEF IsRetested
<1>6. \A m \in OwnNodes(new) : IsPrefix(p, m.path) => m.rule = r
  BY <1>2, <1>3, <1>4
<1> QED
  BY <1>1, <1>2, <1>5, <1>6

\* Defaults are added behind the values of the document.
LEMMA DefaultsAreAdded ==
  ASSUME NEW doc, IsValueTree(doc), NEW p, NEW missing, missing \in Seq(ToSet(missing))
  PROVE  LET result == AddDefaults(doc, p, missing)
         IN  /\ IsValueTree(result.document) /\ OwnNodes(result.document) = OwnNodes(doc)
             /\ (\A r \in ToSet(missing) : MayBeMissing(r)) => result.document = doc
<1> DEFINE n == Len(missing)
           start == [document |-> doc, isComplete |-> TRUE]
           Added(r) == DefaultNode(MissingOutcome(r).rule, p)
           X == ToSet(doc) \cup {Added(r) : r \in ToSet(missing)}
           Keeps(d) == (\A node \in ToSet(d) : IsValue(node)) /\ IsOneByOne(d) /\ OwnNodes(d) = OwnNodes(doc)
           Results == {v \in [document : Seq(X), isComplete : BOOLEAN] : Keeps(v.document)}
           Same == [document : {doc}, isComplete : BOOLEAN]
<1>1. /\ doc \in Seq(ToSet(doc)) /\ (\A node \in ToSet(doc) : IsValue(node))
      /\ IsOneByOne(doc) /\ IsTree(OwnNodes(doc))
  BY TreeOfValues
<1>2. n \in Nat /\ DOMAIN missing = 1 .. n /\ \A i \in 1 .. n : missing[i] \in ToSet(missing)
  BY DEF ToSet
<1>3. AddDefaults(doc, p, missing) = Fold(start, missing, "defaults", p) /\ "defaults" \in FoldKinds
  BY DEF AddDefaults, Fold, FoldKinds
<1> HIDE DEF n
<1>4. start \in Same /\ start \in Results
  <2>1. doc \in Seq(X)
    BY <1>1
  <2> HIDE DEF X
  <2> QED
    BY <1>1, <2>1
<1>changed. ASSUME NEW d, NEW b, NEW c
            PROVE  [[document |-> d, isComplete |-> b] EXCEPT !.isComplete = c] = [document |-> d, isComplete |-> c]
  OBVIOUS
<1>5. ASSUME NEW r, NEW d, NEW b \in BOOLEAN
      PROVE  LET v == [document |-> d, isComplete |-> b]
             IN  \/ \E c \in BOOLEAN : AddDefault(v, r, p) = [document |-> d, isComplete |-> c]
                 \/ AddDefault(v, r, p) = [document |-> Append(d, Added(r)), isComplete |-> b] /\ ~MayBeMissing(r)
  <2> DEFINE v == [document |-> d, isComplete |-> b]
             w == [v EXCEPT !.document = Append(@, Added(r))]
             u == [v EXCEPT !.isComplete = FALSE]
  <2>1. MayBeMissing(r) => MissingOutcome(r) = [rule |-> NoRule]
    BY DEF MissingOutcome
  <2>2. ~IsFailure([rule |-> NoRule]) /\ [rule |-> NoRule].rule = NoRule
    BY DEF IsFailure
  <2> HIDE DEF v
  <2>3. AddDefault(v, r, p) \in {v, u, w} /\ (MayBeMissing(r) => AddDefault(v, r, p) \in {v, u})
    <3> DEFINE o == MissingOutcome(r)
    <3>1. Added(r) = DefaultNode(o.rule, p)
      OBVIOUS
    <3> HIDE DEF Added, o
    <3>2. AddDefault(v, r, p) = IF ~v.isComplete THEN v ELSE IF IsFailure(o) THEN u ELSE IF o.rule = NoRule THEN v ELSE w
      BY <3>1 DEF AddDefault, o
    <3> HIDE DEF u, w
    <3> QED
      BY <2>1, <2>2, <3>2 DEF o
  <2> HIDE DEF Added
  <2>5. v = [document |-> d, isComplete |-> b]
    BY DEF v
  <2>4. u = [document |-> d, isComplete |-> FALSE] /\ w = [document |-> Append(d, Added(r)), isComplete |-> b]
    <3>1. u = [document |-> d, isComplete |-> FALSE]
      BY <1>changed, <2>5, Zenon
    <3>2. ASSUME NEW e
          PROVE  [v EXCEPT !.document = e] = [document |-> e, isComplete |-> b]
      BY <2>5
    <3>3. w = [v EXCEPT !.document = Append(d, Added(r))]
      BY <2>5
    <3> HIDE DEF w
    <3> QED
      BY <3>1, <3>2, <3>3
  <2> HIDE DEF u, w
  <2> DEFINE added == AddDefault(v, r, p)
  <2> HIDE DEF added
  <2>6. \/ \E c \in BOOLEAN : added = [document |-> d, isComplete |-> c]
        \/ added = [document |-> Append(d, Added(r)), isComplete |-> b] /\ ~MayBeMissing(r)
    <3>1. added \in {v, u, w} /\ (MayBeMissing(r) => added \in {v, u})
      BY <2>3 DEF added
    <3>2. CASE added = v
      BY <2>5, <3>2
    <3>3. CASE added = u
      BY <2>4, <3>3
    <3>4. CASE added = w /\ ~MayBeMissing(r)
      BY <2>4, <3>4
    <3> QED
      BY <3>1, <3>2, <3>3, <3>4
  <2> QED
    BY <2>6 DEF added, v
<1>6. ASSUME NEW r, IsValue(Added(r)), Added(r).isDefault, NEW d \in Seq(X), Keeps(d), Added(r) \in X
      PROVE  Append(d, Added(r)) \in Seq(X) /\ Keeps(Append(d, Added(r)))
  <2> DEFINE x == Added(r)
             e == Append(d, x)
  <2> HIDE DEF x, X
  <2>1. IsValue(x) /\ x.isDefault /\ x \in X
    BY <1>6 DEF x
  <2>2. /\ e \in Seq(X) /\ Len(d) \in Nat /\ DOMAIN d = 1 .. Len(d) /\ DOMAIN e = 1 .. Len(d) + 1
        /\ e[Len(d) + 1] = x /\ \A i \in 1 .. Len(d) : e[i] = d[i]
    BY <2>1
  <2>3. \A i : i \in 1 .. Len(d) + 1 <=> i \in 1 .. Len(d) \/ i = Len(d) + 1
    BY <2>2
  <2> HIDE DEF e
  <2>4. ToSet(e) = ToSet(d) \cup {x}
    BY <2>2, <2>3 DEF ToSet
  <2>5. OwnNodes(e) = OwnNodes(d)
    <3>1. OwnNodes(e) = {node \in ToSet(e) : ~node.isDefault} /\ OwnNodes(d) = {node \in ToSet(d) : ~node.isDefault}
      BY OwnNodesAre
    <3> QED
      BY <2>1, <2>4, <3>1
  <2>6. IsOneByOne(e)
    BY <1>6, <2>1, <2>2, <2>3 DEF IsOneByOne
  <2>7. Keeps(e)
    BY <1>6, <2>1, <2>4, <2>5, <2>6
  <2> QED
    BY <2>2, <2>7 DEF e, x
<1>7. \A r : IsValue(Added(r)) /\ Added(r).isDefault
  BY DEF DefaultNode, IsValue
<1>8. \A r \in ToSet(missing) : Added(r) \in X
  OBVIOUS
<1> HIDE DEF Added, X, Keeps
<1>9. ASSUME NEW v \in Results, NEW i \in 1 .. n
      PROVE  Step(v, missing[i], "defaults", p) \in Results
  <2> DEFINE r == missing[i]
             d == v.document
             b == v.isComplete
  <2>1. Step(v, r, "defaults", p) = AddDefault(v, r, p)
    BY DEF Step
  <2>2. v = [document |-> d, isComplete |-> b] /\ d \in Seq(X) /\ b \in BOOLEAN /\ Keeps(d)
    OBVIOUS
  <2>3. IsValue(Added(r)) /\ Added(r).isDefault /\ Added(r) \in X
    BY <1>2, <1>7, <1>8
  <2> HIDE DEF r, d, b
  <2>4. Append(d, Added(r)) \in Seq(X) /\ Keeps(Append(d, Added(r)))
    BY <1>6, <2>2, <2>3
  <2>5. \/ \E c \in BOOLEAN : AddDefault(v, r, p) = [document |-> d, isComplete |-> c]
        \/ AddDefault(v, r, p) = [document |-> Append(d, Added(r)), isComplete |-> b]
    BY <1>5, <2>2
  <2>6. AddDefault(v, r, p) \in Results
    <3>1. \A c \in BOOLEAN : \A e \in Seq(X) : Keeps(e) => [document |-> e, isComplete |-> c] \in Results
      OBVIOUS
    <3> HIDE DEF Results
    <3> QED
      BY <2>2, <2>4, <2>5, <3>1
  <2> QED
    BY <2>1, <2>6 DEF r
<1>10. ASSUME \A r \in ToSet(missing) : MayBeMissing(r), NEW v \in Same, NEW i \in 1 .. n
       PROVE  Step(v, missing[i], "defaults", p) \in Same
  <2> DEFINE r == missing[i]
             b == v.isComplete
  <2>1. Step(v, r, "defaults", p) = AddDefault(v, r, p)
    BY DEF Step
  <2>2. v = [document |-> doc, isComplete |-> b] /\ b \in BOOLEAN
    OBVIOUS
  <2>3. MayBeMissing(r)
    BY <1>2, <1>10
  <2> HIDE DEF r, b
  <2>4. \E c \in BOOLEAN : AddDefault(v, r, p) = [document |-> doc, isComplete |-> c]
    BY <1>5, <2>2, <2>3
  <2>5. AddDefault(v, r, p) \in Same
    BY <2>4
  <2> QED
    BY <2>1, <2>5 DEF r
<1> DEFINE result == AddDefaults(doc, p, missing)
<1> HIDE DEF start
<1>11. result \in Results
  <2> HIDE DEF Results
  <2> QED
    BY <1>2, <1>3, <1>4, <1>9, FoldKeeps
<1>12. ASSUME \A r \in ToSet(missing) : MayBeMissing(r)
       PROVE  result \in Same
  <2>1. \A v \in Same : \A i \in 1 .. n : Step(v, missing[i], "defaults", p) \in Same
    BY <1>10, <1>12
  <2> HIDE DEF Same
  <2> QED
    BY <1>2, <1>3, <1>4, <2>1, FoldKeeps
<1>13. result.document \in Seq(X) /\ Keeps(result.document)
  BY <1>11
<1>14. result.document \in Seq(ToSet(result.document))
  BY <1>13, IsOfItsElements
<1>15. IsValueTree(result.document) /\ OwnNodes(result.document) = OwnNodes(doc)
  BY <1>1, <1>13, <1>14, TreeOfValues DEF Keeps
<1>16. (\A r \in ToSet(missing) : MayBeMissing(r)) => result.document = doc
  BY <1>12
<1> HIDE DEF result
<1> QED
  BY <1>15, <1>16 DEF result

-----------------------------------------------------------------------------
(* The rule that a value conforms to.                                      *)

LEMMA GreatestExists ==
  ASSUME NEW n \in Nat, NEW S \in SUBSET (1 .. n), S # {}
  PROVE  Max(S) \in S
<1> DEFINE R == {n - x : x \in S}
<1>1. R \in SUBSET Nat /\ R # {}
  <2>1. \A x \in S : n - x \in Nat
    OBVIOUS
  <2> QED
    BY <2>1
<1>2. Min(R) \in R /\ \A y \in R : Min(R) <= y
  <2> HIDE DEF R
  <2> QED
    BY <1>1, LeastExists
<1>3. PICK x \in S : \A y \in S : n - x <= n - y
  BY <1>2
<1>4. \A y \in S : x >= y
  BY <1>3
<1>5. \E z \in S : \A y \in S : z >= y
  BY <1>4
<1> QED
  BY <1>5 DEF Max

RulesAreAccepted ==
  /\ IsRuleTree(ruleTree) /\ ruleTree[Root].type = "Section"
  /\ \A r \in DOMAIN ruleTree : AcceptsRule(ruleTree, r) /\ KeysAreListed(ruleTree[r])

LEMMA ChildrenAre ==
  ASSUME NEW t, IsRuleTree(t), NEW r
  PROVE  /\ ToSet(Children(t, r)) = {c \in DOMAIN t : t[c].parent = r}
         /\ Children(t, r) \in Seq(ToSet(Children(t, r)))
<1> DEFINE S == {c \in DOMAIN t : t[c].parent = r}
           list == Children(t, r)
<1>1. list \in Seq(S)
  BY ChildrenAreBelow
<1>2. \A c \in S : c \in ToSet(list)
  <2> HIDE DEF list
  <2> TAKE c \in S
  <2> QED
    BY ChildrenAreListed DEF list
<1> HIDE DEF S, list
<1>3. ToSet(list) \subseteq S
  BY <1>1 DEF ToSet
<1>4. list \in Seq(ToSet(list))
  BY <1>1, IsOfItsElements
<1> QED
  BY <1>2, <1>3, <1>4 DEF S, list

LEMMA FirstRuleIsOne ==
  ASSUME NEW t, IsRuleTree(t), NEW candidates \in SUBSET DOMAIN t
  PROVE  /\ FirstRule(candidates) # NoRule => FirstRule(candidates) \in candidates
         /\ LastRule(candidates) # NoRule => LastRule(candidates) \in candidates
<1>1. Len(t) \in Nat /\ DOMAIN t = 1 .. Len(t) /\ DOMAIN t \subseteq Nat
  BY RulesAreTyped
<1>2. ASSUME candidates # {}
      PROVE  Min(candidates) \in candidates /\ Max(candidates) \in candidates
  BY <1>1, <1>2, LeastExists, GreatestExists
<1> QED
  BY <1>2 DEF FirstRule, LastRule

LEMMA NextIsBelow ==
  ASSUME RulesAreAccepted, NEW r \in DOMAIN ruleTree, NEW name, NextRule(r, name) # NoRule
  PROVE  NextRule(r, name) \in DOMAIN ruleTree /\ ruleTree[NextRule(r, name)].parent = r
<1> DEFINE C == {c \in DOMAIN ruleTree : ruleTree[c].parent = r}
           active == {c \in C : IsActive(c)}
           any == {c \in active : RuleName(ruleTree[c]) = "vr_any"}
           named == {c \in active \ any : ruleTree[c].target # <<>> /\ Last(ruleTree[c].target) = name}
<1>1. IsRuleTree(ruleTree) /\ r \in Nat
  BY RulesAreTyped DEF RulesAreAccepted
<1>2. ToSet(Children(ruleTree, r)) = C
  BY <1>1, ChildrenAre
<1>3. NextRule(r, name) = IF IsIndexName(name) THEN Child(ruleTree, r, "vr_entry")
                          ELSE IF named # {} THEN FirstRule(named) ELSE LastRule(any)
  BY <1>2 DEF NextRule
<1>4. named \in SUBSET DOMAIN ruleTree /\ any \in SUBSET DOMAIN ruleTree /\ named \subseteq C /\ any \subseteq C
  OBVIOUS
<1> HIDE DEF named, any
<1>5. FirstRule(named) # NoRule => FirstRule(named) \in C
  BY <1>1, <1>4, FirstRuleIsOne
<1>6. LastRule(any) # NoRule => LastRule(any) \in C
  BY <1>1, <1>4, FirstRuleIsOne
<1>7. Child(ruleTree, r, "vr_entry") # NoRule => Child(ruleTree, r, "vr_entry") \in C
  BY <1>1, ChildIsBelow
<1> QED
  BY <1>3, <1>5, <1>6, <1>7

\* The alternative, or the rule, that a value or an entry conforms to.
LEMMA AlternativeMatches ==
  ASSUME RulesAreAccepted, NEW r, NEW value, MatchingAlternative(r, value) # NoRule
  PROVE  LET a == MatchingAlternative(r, value)
         IN  a \in DOMAIN ruleTree /\ ruleTree[a].parent = r /\ MatchesValueType(ruleTree[a].type, value.type)
<1> DEFINE C == {a \in DOMAIN ruleTree : ruleTree[a].parent = r}
           matching == {a \in C : /\ IsActive(a) /\ MatchesValueType(ruleTree[a].type, value.type)
                                  /\ PassesConstraints(a, value)}
<1>1. IsRuleTree(ruleTree)
  BY DEF RulesAreAccepted
<1>2. ToSet(Children(ruleTree, r)) = C
  BY <1>1, ChildrenAre
<1>3. MatchingAlternative(r, value) = FirstRule(matching)
  BY <1>2 DEF MatchingAlternative
<1>4. matching \in SUBSET DOMAIN ruleTree
  OBVIOUS
<1>5. FirstRule(matching) \in matching
  <2> HIDE DEF matching
  <2> QED
    BY <1>1, <1>3, <1>4, FirstRuleIsOne
<1> QED
  BY <1>3, <1>5

LEMMA EntryMatches ==
  ASSUME RulesAreAccepted, NEW r \in DOMAIN ruleTree, NEW entry, EntryRule(r, entry) # NoRule
  PROVE  LET e == EntryRule(r, entry)
         IN  /\ e \in DOMAIN ruleTree /\ MatchesValueType(ruleTree[e].type, entry.type)
             /\ e = r \/ (ruleTree[r].type = "Alternatives" /\ ruleTree[e].parent = r)
<1>1. CASE ruleTree[r].type = "Alternatives"
  <2>1. EntryRule(r, entry) = MatchingAlternative(r, entry)
    BY <1>1 DEF EntryRule
  <2> QED
    BY <1>1, <2>1, AlternativeMatches
<1>2. CASE ruleTree[r].type # "Alternatives"
  BY <1>2 DEF EntryRule
<1> QED
  BY <1>1, <1>2

-----------------------------------------------------------------------------
(* The first pass: each value is settled, or a frame leads to it.          *)

\* The rule of the section around a value with the rule.
SectionRule(r) == IF IsAlternative(r) THEN ruleTree[ruleTree[r].parent].parent ELSE ruleTree[r].parent

IsBelowRule(own, node, r) == \A above \in own : IsIn(node, above) => above.rule = r

\* The value was tested: its rule is the one that it conforms to, and it belongs to the
\* rule of the section around it.
IsSettled(own, node) ==
  /\ node.rule \in DOMAIN ruleTree
  /\ IF node.path = <<>> THEN node.rule = Root
     ELSE ruleTree[node.rule].type # "NotValidated" =>
       /\ ruleTree[node.rule].type # "Alternatives"
       /\ MatchesValueType(ruleTree[node.rule].type, node.type)
       /\ ruleTree[node.rule].type = "ValueList" /\ node.type = "ValueList" /\ ~IsAlternative(node.rule) =>
            PassesEntries(node.rule, node.content)
       /\ IsBelowRule(own, node, SectionRule(node.rule))

TestFrames(own) == [path : {node.path : node \in own}, rule : DOMAIN ruleTree]
IsTestFrame(own, frame) ==
  /\ frame.path = <<>> => frame.rule = Root
  /\ \A node \in own : node.path = frame.path => IsBelowRule(own, node, ruleTree[frame.rule].parent)

FirstPass(own, frames) ==
  /\ frames \in Seq(TestFrames(own))
  /\ \A k \in DOMAIN frames : IsTestFrame(own, frames[k])
  /\ \A j, k \in DOMAIN frames : IsPrefix(frames[j].path, frames[k].path) => j = k
  /\ \A node \in own : IsSettled(own, node) \/ \E k \in DOMAIN frames : IsPrefix(frames[k].path, node.path)

\* What is around a value that is not tested keeps its rule.
LEMMA AroundIsSame ==
  ASSUME NEW own, NEW next, IsTree(own), IsTree(next), NEW p \in Seq(STRING), IsRetested(own, next, p),
         NEW m \in next, ~IsPrefix(p, m.path)
  PROVE  m \in own /\ \A r : IsBelowRule(own, m, r) => IsBelowRule(next, m, r)
<1>1. m \in own
  BY DEF IsRetested
<1>2. ASSUME NEW above \in next, IsIn(m, above)
      PROVE  above \in own
  <2>1. m.path \in Seq(STRING) /\ above.path \in Seq(STRING) /\ m.path # <<>> /\ above.path = Front(m.path)
    BY <1>2 DEF IsTree, IsIn
  <2>2. ~IsPrefix(p, above.path)
    <3>1. IsPrefix(above.path, m.path)
      BY <2>1, BelowIsAbove
    <3> QED
      BY <2>1, <3>1, PrefixFacts
  <2> QED
    BY <2>2 DEF IsRetested
<1> QED
  BY <1>1, <1>2 DEF IsBelowRule

\* A frame gives way to frames below it.
LEMMA FirstPassGoesOn ==
  ASSUME NEW own, NEW next, IsTree(own), IsTree(next), NEW frames, frames # <<>>, FirstPass(own, frames),
         NEW p, p = Last(frames).path, IsRetested(own, next, p), NEW more \in Seq(TestFrames(next)),
         \A i \in DOMAIN more : IsTestFrame(next, more[i]) /\ IsPrefix(p, more[i].path),
         \A i, j \in DOMAIN more : IsPrefix(more[i].path, more[j].path) => i = j,
         \A m \in next : IsPrefix(p, m.path) =>
           IsSettled(next, m) \/ \E i \in DOMAIN more : IsPrefix(more[i].path, m.path)
  PROVE  FirstPass(next, Front(frames) \o more)
<1> DEFINE rest == Front(frames)
           all == rest \o more
           n == Len(frames)
<1>1. /\ frames \in Seq(TestFrames(own)) /\ \A k \in DOMAIN frames : IsTestFrame(own, frames[k])
      /\ \A j, k \in DOMAIN frames : IsPrefix(frames[j].path, frames[k].path) => j = k
      /\ \A node \in own : IsSettled(own, node) \/ \E k \in DOMAIN frames : IsPrefix(frames[k].path, node.path)
  BY DEF FirstPass
<1>2. /\ n \in Nat \ {0} /\ rest \in Seq(TestFrames(own)) /\ Len(rest) = n - 1 /\ Last(frames) = frames[n]
      /\ DOMAIN frames = 1 .. n /\ \A i \in 1 .. n - 1 : rest[i] = frames[i]
  <2>1. /\ n \in Nat \ {0} /\ rest \in Seq(TestFrames(own)) /\ Len(rest) = n - 1 /\ Last(frames) = frames[n]
        /\ \A i \in 1 .. n - 1 : rest[i] = frames[i]
    BY <1>1, PathParts, Zenon
  <2>2. DOMAIN frames = 1 .. n
    BY <1>1
  <2> QED
    BY <2>1, <2>2
<1> HIDE DEF rest, n
<1>3. DOMAIN rest = 1 .. n - 1 /\ n - 1 \in Nat /\ n \in 1 .. n /\ \A i \in 1 .. n - 1 : i \in 1 .. n /\ i # n
  BY <1>2
<1>4. /\ \A k \in DOMAIN frames : frames[k].path \in Seq(STRING) /\ frames[k].rule \in DOMAIN ruleTree
      /\ \A k \in DOMAIN more : more[k].path \in Seq(STRING)
      /\ p \in Seq(STRING)
      /\ \A m \in own \cup next : m.path \in Seq(STRING)
  <2>1. \A m \in own \cup next : m.path \in Seq(STRING)
    BY DEF IsTree
  <2>2. \A k \in DOMAIN frames : frames[k] \in TestFrames(own)
    BY <1>1
  <2>3. \A k \in DOMAIN more : more[k] \in TestFrames(next)
    OBVIOUS
  <2>4. p = frames[n].path /\ n \in DOMAIN frames
    BY <1>2, <1>3
  <2>5. \A k \in DOMAIN frames : frames[k].path \in Seq(STRING) /\ frames[k].rule \in DOMAIN ruleTree
    BY <2>1, <2>2 DEF TestFrames
  <2>6. \A k \in DOMAIN more : more[k].path \in Seq(STRING)
    BY <2>1, <2>3 DEF TestFrames
  <2> QED
    BY <2>1, <2>4, <2>5, <2>6
<1>5. ASSUME NEW k \in 1 .. n - 1
      PROVE  ~IsPrefix(frames[k].path, p) /\ ~IsPrefix(p, frames[k].path)
  <2>1. p = frames[n].path
    BY <1>2
  <2>2. k \in DOMAIN frames /\ n \in DOMAIN frames /\ k # n
    BY <1>2, <1>3
  <2> QED
    BY <1>1, <2>1, <2>2, Zenon
<1>6. \A k \in 1 .. n - 1 : rest[k] \in TestFrames(next)
  <2> TAKE k \in 1 .. n - 1
  <2>1. rest[k] \in TestFrames(own)
    BY <1>2, <1>3
  <2>2. {node.path : node \in own} \subseteq {node.path : node \in next}
    BY DEF IsRetested
  <2> QED
    BY <2>1, <2>2 DEF TestFrames
<1>7. all \in Seq(TestFrames(next)) /\ Len(all) = n - 1 + Len(more) /\ Len(more) \in Nat /\ DOMAIN more = 1 .. Len(more)
      /\ DOMAIN all = 1 .. n - 1 + Len(more)
      /\ (\A k \in 1 .. n - 1 : all[k] = frames[k])
      /\ (\A k \in 1 .. Len(more) : all[n - 1 + k] = more[k])
  <2>1. rest \in Seq(TestFrames(next))
    <3>1. rest = [k \in 1 .. n - 1 |-> rest[k]]
      BY <1>2, <1>3
    <3>2. rest \in [1 .. n - 1 -> TestFrames(next)]
      BY <1>6, <3>1
    <3> QED
      BY <1>3, <3>2
  <2>2. /\ all \in Seq(TestFrames(next)) /\ Len(all) = Len(rest) + Len(more)
        /\ \A k \in 1 .. Len(rest) + Len(more) : all[k] = IF k <= Len(rest) THEN rest[k] ELSE more[k - Len(rest)]
    BY <2>1, ConcatProperties
  <2> HIDE DEF all
  <2>3. Len(more) \in Nat /\ DOMAIN more = 1 .. Len(more) /\ DOMAIN all = 1 .. Len(all)
    BY <2>2
  <2>4. ASSUME NEW k \in 1 .. n - 1
        PROVE  all[k] = frames[k]
    <3>1. k \in 1 .. (n - 1) + Len(more) /\ k <= n - 1
      BY <1>3, <2>3
    <3> QED
      BY <1>2, <2>2, <3>1
  <2>5. ASSUME NEW k \in 1 .. Len(more)
        PROVE  all[n - 1 + k] = more[k]
    <3>1. n - 1 + k \in 1 .. (n - 1) + Len(more) /\ ~(n - 1 + k <= n - 1) /\ (n - 1 + k) - (n - 1) = k
      BY <1>3, <2>3
    <3> QED
      BY <1>2, <2>2, <3>1
  <2> QED
    BY <1>2, <2>2, <2>3, <2>4, <2>5
<1> HIDE DEF all
<1>8. \A k \in DOMAIN all : \/ k \in 1 .. n - 1 /\ all[k] = frames[k]
                            \/ \E i \in DOMAIN more : k = n - 1 + i /\ all[k] = more[i]
  <2> TAKE k \in DOMAIN all
  <2>1. CASE k \in 1 .. n - 1
    BY <1>7, <2>1
  <2>2. CASE k \notin 1 .. n - 1
    <3>1. k - (n - 1) \in 1 .. Len(more) /\ k = n - 1 + (k - (n - 1))
      BY <1>3, <1>7, <2>2
    <3> QED
      BY <1>7, <3>1
  <2> QED
    BY <2>1, <2>2
<1>9. ASSUME NEW k \in 1 .. n - 1
      PROVE  IsTestFrame(next, frames[k])
  <2>1. k \in DOMAIN frames /\ IsTestFrame(own, frames[k])
    BY <1>1, <1>2, <1>3
  <2>2. ASSUME NEW m \in next, m.path = frames[k].path
        PROVE  IsBelowRule(next, m, ruleTree[frames[k].rule].parent)
    <3>1. ~IsPrefix(p, m.path)
      BY <1>5, <2>2
    <3>2. m \in own /\ \A r : IsBelowRule(own, m, r) => IsBelowRule(next, m, r)
      BY <1>4, <3>1, AroundIsSame
    <3> QED
      BY <2>1, <2>2, <3>2 DEF IsTestFrame
  <2> QED
    BY <2>1, <2>2 DEF IsTestFrame
<1>10. \A k \in DOMAIN all : IsTestFrame(next, all[k])
  BY <1>8, <1>9
<1>11. ASSUME NEW j \in DOMAIN all, NEW k \in DOMAIN all, IsPrefix(all[j].path, all[k].path)
       PROVE  j = k
  <2>1. CASE j \in 1 .. n - 1 /\ all[j] = frames[j] /\ k \in 1 .. n - 1 /\ all[k] = frames[k]
    BY <1>1, <1>2, <1>3, <1>11, <2>1
  <2>2. ASSUME NEW i \in DOMAIN more, j \in 1 .. n - 1, all[j] = frames[j], all[k] = more[i]
        PROVE  FALSE
    <3>1. IsPrefix(p, more[i].path) /\ IsPrefix(frames[j].path, more[i].path)
      BY <1>11, <2>2
    <3>2. IsPrefix(p, frames[j].path) \/ IsPrefix(frames[j].path, p)
      BY <1>2, <1>3, <1>4, <2>2, <3>1, PrefixFacts
    <3> QED
      BY <1>5, <2>2, <3>2
  <2>3. ASSUME NEW i \in DOMAIN more, k \in 1 .. n - 1, all[k] = frames[k], all[j] = more[i]
        PROVE  FALSE
    <3>1. IsPrefix(p, more[i].path) /\ IsPrefix(more[i].path, frames[k].path)
      BY <1>11, <2>3
    <3>2. IsPrefix(p, frames[k].path)
      BY <1>2, <1>3, <1>4, <2>3, <3>1, PrefixFacts
    <3> QED
      BY <1>5, <2>3, <3>2
  <2>4. ASSUME NEW h \in DOMAIN more, NEW i \in DOMAIN more, j = n - 1 + h, all[j] = more[h],
               k = n - 1 + i, all[k] = more[i]
        PROVE  j = k
    BY <1>11, <2>4
  <2> QED
    BY <1>8, <2>1, <2>2, <2>3, <2>4
<1>12. ASSUME NEW m \in next
       PROVE  IsSettled(next, m) \/ \E k \in DOMAIN all : IsPrefix(all[k].path, m.path)
  <2>1. CASE IsPrefix(p, m.path)
    <3>1. \A i \in DOMAIN more : n - 1 + i \in DOMAIN all /\ all[n - 1 + i] = more[i]
      BY <1>3, <1>7
    <3> QED
      BY <2>1, <3>1
  <2>2. CASE ~IsPrefix(p, m.path)
    <3>1. m \in own /\ \A r : IsBelowRule(own, m, r) => IsBelowRule(next, m, r)
      BY <1>4, <2>2, AroundIsSame
    <3>2. CASE IsSettled(own, m)
      BY <3>1, <3>2 DEF IsSettled
    <3>3. ASSUME NEW k \in DOMAIN frames, IsPrefix(frames[k].path, m.path)
          PROVE  \E i \in DOMAIN all : IsPrefix(all[i].path, m.path)
      <4>1. k # n
        BY <1>2, <2>2, <3>3
      <4>2. k \in 1 .. n - 1
        BY <1>2, <1>3, <4>1
      <4>3. k \in DOMAIN all
        BY <1>3, <1>7, <4>2
      <4> QED
        BY <1>7, <3>3, <4>2, <4>3
    <3> QED
      BY <1>1, <3>1, <3>2, <3>3
  <2> QED
    BY <2>1, <2>2
<1>13. FirstPass(next, all)
  BY <1>7, <1>10, <1>11, <1>12 DEF FirstPass
<1> QED
  BY <1>13 DEF all, rest

\* What is below a value is its child, or below a child.
LEMMA BelowIsUnderChild ==
  ASSUME NEW own, IsTree(own), NEW p \in Seq(STRING), NEW m \in own, IsPrefix(p, m.path), m.path # p
  PROVE  \E child \in own : child.path # <<>> /\ Front(child.path) = p /\ IsPrefix(child.path, m.path)
<1> DEFINE HasChild(q) == \E child \in own : child.path # <<>> /\ Front(child.path) = p /\ IsPrefix(child.path, q)
           S == {q \in Seq(STRING) : \A n \in own : n.path = q /\ IsPrefix(p, q) /\ q # p => HasChild(q)}
<1>1. <<>> \in S
  <2>0. <<>> \in Seq(STRING)
    OBVIOUS
  <2>1. PICK e \in Seq(STRING) : e = <<>>
    BY <2>0
  <2>2. IsPrefix(p, e) => p = e
    <3>1. Len(e) = 0 /\ Len(p) \in Nat
      BY <2>1
    <3>2. IsPrefix(p, e) => Len(p) <= Len(e)
      BY PrefixFacts
    <3>3. Len(p) = 0 => p = e
      BY <2>1
    <3> QED
      BY <3>1, <3>2, <3>3
  <2>3. e \in S
    BY <2>2
  <2> QED
    BY <2>1, <2>3
<1>2. ASSUME NEW q \in Seq(STRING), NEW x \in STRING, q \in S
      PROVE  Append(q, x) \in S
  <2> DEFINE u == Append(q, x)
  <2>1. u \in Seq(STRING) /\ u # <<>> /\ Front(u) = q
    BY PathWithName, Zenon
  <2> HIDE DEF u
  <2>2. ASSUME NEW n \in own, n.path = u, IsPrefix(p, u), u # p
        PROVE  HasChild(u)
    <3>1. IsPrefix(p, q) /\ IsPrefix(u, u)
      BY <2>1, <2>2, PrefixFacts
    <3>2. CASE p = q
      BY <2>1, <2>2, <3>1, <3>2
    <3>3. CASE p # q
      <4>1. PICK above \in own : IsIn(n, above)
        BY <2>1, <2>2 DEF IsTree
      <4>2. above.path = q
        BY <2>1, <2>2, <4>1 DEF IsIn
      <4>3. PICK child \in own : child.path # <<>> /\ Front(child.path) = p /\ IsPrefix(child.path, q)
        BY <1>2, <3>1, <3>3, <4>2
      <4>4. child.path \in Seq(STRING)
        BY DEF IsTree
      <4>5. IsPrefix(q, u)
        BY <2>1, BelowIsAbove
      <4>6. IsPrefix(child.path, u)
        BY <2>1, <4>3, <4>4, <4>5, PrefixFacts
      <4> QED
        BY <4>3, <4>6
    <3> QED
      BY <3>2, <3>3
  <2>3. u \in S
    BY <2>1, <2>2
  <2> QED
    BY <2>3 DEF u
<1> HIDE DEF S
<1>3. Seq(STRING) \subseteq S
  BY <1>1, <1>2, PathInduction
<1>4. m.path \in Seq(STRING)
  BY DEF IsTree
<1> QED
  BY <1>3, <1>4 DEF S

\* The value on top of the stack is a value of the document.
LEMMA ValueIsTested ==
  ASSUME RulesAreAccepted, IsValueTree(document), FirstPass(OwnNodes(document), stack), IsInPass("pass1")
  PROVE  /\ stack # <<>> /\ Frame.path \in Seq(STRING) /\ Frame.rule \in DOMAIN ruleTree
         /\ IsTestFrame(OwnNodes(document), Frame)
         /\ IsTree(OwnNodes(document)) /\ IsValueTree(Cleaned) /\ OwnNodes(Cleaned) = OwnNodes(document)
         /\ \A node \in ToSet(Cleaned) : IsChildOf(node, Frame.path) => ~node.isDefault
         /\ \E node \in OwnNodes(document) :
              /\ node.path = Frame.path /\ Tested.type = node.type
              /\ node.type = "ValueList" => Tested.content = node.content
<1> DEFINE own == OwnNodes(document)
<1>1. stack # <<>> /\ stack \in Seq(TestFrames(own)) /\ \A k \in DOMAIN stack : IsTestFrame(own, stack[k])
  BY DEF IsInPass, FirstPass
<1>2. IsTree(own)
  BY TreeOfValues
<1> HIDE DEF own
<1>3. Len(stack) \in Nat \ {0} /\ Last(stack) \in TestFrames(own) /\ Last(stack) = stack[Len(stack)]
  BY <1>1, PathParts, Zenon
<1>4. Len(stack) \in DOMAIN stack
  BY <1>1, <1>3
<1>5. Frame \in TestFrames(own) /\ IsTestFrame(own, Frame)
  BY <1>1, <1>3, <1>4 DEF Frame
<1>6. PICK node \in own : node.path = Frame.path
  BY <1>5 DEF TestFrames
<1>7. Frame.rule \in DOMAIN ruleTree /\ node.path \in Seq(STRING)
  BY <1>2, <1>5 DEF TestFrames, IsTree
<1>8. /\ IsValueTree(Cleaned) /\ OwnNodes(Cleaned) = own
      /\ \A n \in ToSet(Cleaned) : IsChildOf(n, Frame.path) => ~n.isDefault
  BY DefaultsAreRemoved DEF Cleaned, own
<1>9. OwnNode(Cleaned, Frame.path) = node
  BY <1>6, <1>8, OwnNodeIsFound
<1>10. Tested = SizedValue(Cleaned, node)
  BY <1>9 DEF Tested
<1>11. node = [path |-> node.path, type |-> node.type, content |-> node.content,
               isDefault |-> node.isDefault, rule |-> node.rule]
  BY <1>2 DEF IsTree, IsValue
<1>12. Tested.type = node.type /\ (node.type = "ValueList" => Tested.content = node.content)
  <2> DEFINE size == Len(ChildrenOf(Cleaned, node.path))
  <2>1. Tested = IF node.type \in MapTypes \cup {"SectionList"} THEN [node EXCEPT !.content = size] ELSE node
    BY <1>10 DEF SizedValue
  <2> HIDE DEF size
  <2>2. [node EXCEPT !.content = size].type = node.type
    BY <1>11
  <2>3. node.type = "ValueList" => node.type \notin MapTypes \cup {"SectionList"}
    BY DEF MapTypes
  <2> QED
    BY <2>1, <2>2, <2>3
<1> QED
  BY <1>1, <1>2, <1>5, <1>6, <1>7, <1>8, <1>12 DEF own

\* The rule of the section around the value on top of the stack is known.
LEMMA SectionIsSettled ==
  ASSUME RulesAreAccepted, IsValueTree(document), FirstPass(OwnNodes(document), stack), IsInPass("pass1"),
         Frame.path # <<>>
  PROVE  /\ ruleTree[Frame.rule].parent \in DOMAIN ruleTree
         /\ ruleTree[ruleTree[Frame.rule].parent].type # "Alternatives"
<1> DEFINE own == OwnNodes(document)
           p == Frame.path
<1>1. p \in Seq(STRING) /\ IsTestFrame(own, Frame) /\ IsTree(own) /\ stack # <<>>
  BY ValueIsTested
<1>2. PICK node \in own : node.path = p
  BY ValueIsTested
<1>3. PICK above \in own : IsIn(node, above)
  BY <1>1, <1>2 DEF IsTree
<1>4. above.path = Front(p) /\ above.path \in Seq(STRING) /\ above.rule = ruleTree[Frame.rule].parent
  BY <1>1, <1>2, <1>3 DEF IsTestFrame, IsBelowRule, IsIn, IsTree
<1> HIDE DEF own
<1>5. ~\E k \in DOMAIN stack : IsPrefix(stack[k].path, above.path)
  <2> SUFFICES ASSUME NEW k \in DOMAIN stack, IsPrefix(stack[k].path, above.path)
               PROVE  FALSE
    OBVIOUS
  <2>1. /\ stack \in Seq(TestFrames(own))
        /\ \A i, j \in DOMAIN stack : IsPrefix(stack[i].path, stack[j].path) => i = j
    BY DEF FirstPass, own
  <2>2. Len(stack) \in Nat \ {0} /\ Last(stack) = stack[Len(stack)]
    BY <1>1, <2>1, PathParts, Zenon
  <2>3. DOMAIN stack = 1 .. Len(stack) /\ stack[k] \in TestFrames(own)
    BY <2>1
  <2>4. stack[k].path \in Seq(STRING)
    BY <1>1, <2>3 DEF TestFrames, IsTree
  <2>5. IsPrefix(above.path, p) /\ Len(p) = Len(above.path) + 1 /\ Len(p) \in Nat
    BY <1>1, <1>4, BelowIsAbove
  <2>6. IsPrefix(stack[k].path, p)
    BY <1>1, <1>4, <2>4, <2>5, PrefixFacts
  <2>7. p = stack[Len(stack)].path /\ Len(stack) \in DOMAIN stack
    BY <2>2, <2>3 DEF Frame
  <2>8. stack[k].path = p
    BY <2>1, <2>6, <2>7
  <2>9. Len(p) <= Len(above.path)
    BY <1>1, <1>4, <2>8, PrefixFacts
  <2> QED
    BY <1>4, <2>5, <2>9
<1>6. IsSettled(own, above)
  BY <1>3, <1>5 DEF FirstPass, own
<1>7. above.rule \in DOMAIN ruleTree /\ ruleTree[above.rule].type # "Alternatives"
  BY <1>6 DEF IsSettled, RulesAreAccepted
<1> QED
  BY <1>4, <1>7

LEMMA AlternativeIsPlain ==
  ASSUME RulesAreAccepted, ~HasStrayRules, NEW r \in DOMAIN ruleTree, ruleTree[r].type = "Alternatives",
         NEW a \in DOMAIN ruleTree, ruleTree[a].parent = r
  PROVE  ruleTree[a].type \notin {"Alternatives", "NotValidated"} /\ IsAlternative(a)
<1>1. IsRuleTree(ruleTree)
  BY DEF RulesAreAccepted
<1>2. ruleTree[Root].parent = NoRule /\ NoRule \notin DOMAIN ruleTree
  BY <1>1, RulesAreTyped DEF IsRuleTree
<1>3. a # Root
  BY <1>2
<1>4. ruleTree[a].type # "NotValidated"
  BY <1>3 DEF HasStrayRules
<1>5. AlternativesAreAccepted(ruleTree, r)
  BY DEF RulesAreAccepted, AcceptsRule, PassesFirstTests
<1>6. a \in ToSet(Children(ruleTree, r))
  BY <1>1, ChildrenAre
<1>7. PICK i \in DOMAIN Children(ruleTree, r) : Children(ruleTree, r)[i] = a
  BY <1>6 DEF ToSet
<1>8. ruleTree[a].type # "Alternatives"
  BY <1>5, <1>7 DEF AlternativesAreAccepted
<1>9. IsAlternative(a)
  BY <1>2 DEF IsAlternative
<1> QED
  BY <1>4, <1>8, <1>9

\* The rule that the value on top of the stack conforms to.
LEMMA ConformingIsTyped ==
  ASSUME RulesAreAccepted, ~HasStrayRules, IsValueTree(document), FirstPass(OwnNodes(document), stack), IsAccepted
  PROVE  /\ Conforming \in DOMAIN ruleTree
         /\ Frame.path = <<>> => Conforming = Root
         /\ Frame.path # <<>> =>
              /\ ruleTree[Conforming].type \notin {"Alternatives", "NotValidated"}
              /\ MatchesValueType(ruleTree[Conforming].type, Tested.type)
              /\ ruleTree[Conforming].type = "ValueList" /\ Tested.type = "ValueList" /\ ~IsAlternative(Conforming) =>
                   PassesEntries(Conforming, Tested.content)
              /\ SectionRule(Conforming) = ruleTree[Frame.rule].parent
<1> DEFINE c == Conforming
           r == Frame.rule
<1>1. IsInPass("pass1") /\ ~IsNotValidated /\ c # NoRule
  BY DEF IsAccepted
<1>2. r \in DOMAIN ruleTree /\ Root \in DOMAIN ruleTree
  BY <1>1, ValueIsTested, RulesAreTyped DEF RulesAreAccepted
<1>3. CASE Frame.path = <<>>
  BY <1>2, <1>3 DEF Conforming
<1>4. CASE Frame.path # <<>> /\ ruleTree[r].type = "Alternatives"
  <2>1. c = MatchingAlternative(r, Tested)
    BY <1>4 DEF Conforming, ConformingRule
  <2>2. c \in DOMAIN ruleTree /\ ruleTree[c].parent = r /\ MatchesValueType(ruleTree[c].type, Tested.type)
    BY <1>1, <2>1, AlternativeMatches
  <2>3. ruleTree[c].type \notin {"Alternatives", "NotValidated"} /\ IsAlternative(c)
    BY <1>2, <1>4, <2>2, AlternativeIsPlain
  <2>4. SectionRule(c) = ruleTree[r].parent
    BY <2>2, <2>3 DEF SectionRule
  <2> QED
    BY <1>4, <2>2, <2>3, <2>4
<1>5. CASE Frame.path # <<>> /\ ruleTree[r].type # "Alternatives"
  <2> DEFINE type == ruleTree[r].type
             isAccepted == /\ MatchesValueType(type, Tested.type)
                           /\ PassesConstraints(r, Tested)
                           /\ type = "ValueList" => PassesEntries(r, EntriesOf(Tested))
                           /\ type = "ValueMatrix" => PassesEntries(r, CellsOf(Tested))
  <2>1. c = IF isAccepted THEN r ELSE NoRule
    BY <1>5 DEF Conforming, ConformingRule
  <2>2. c = r /\ isAccepted
    BY <1>1, <2>1
  <2>3. type # "NotValidated"
    BY <1>1, <1>5 DEF IsNotValidated
  <2>4. Tested.type = "ValueList" => EntriesOf(Tested) = Tested.content
    BY DEF EntriesOf
  <2>5. SectionRule(r) = ruleTree[r].parent
    <3>1. ruleTree[ruleTree[r].parent].type # "Alternatives"
      BY <1>1, <1>5, SectionIsSettled
    <3> QED
      BY <3>1 DEF SectionRule, IsAlternative
  <2> QED
    BY <1>2, <1>5, <2>2, <2>3, <2>4, <2>5
<1> QED
  BY <1>3, <1>4, <1>5

\* A value with values below it is a section or a list of sections.
LEMMA AboveIsStructural ==
  ASSUME NEW own, IsTree(own), NEW p \in Seq(STRING), NEW m \in own, IsPrefix(p, m.path), m.path # p
  PROVE  \E node \in own : node.path = p /\ node.type \in StructuralTypes
<1>1. PICK child \in own : child.path # <<>> /\ Front(child.path) = p
  BY BelowIsUnderChild
<1>2. PICK above \in own : IsIn(child, above)
  BY <1>1 DEF IsTree
<1> QED
  BY <1>1, <1>2 DEF IsIn

\* The value on top of the stack with the rule that it conforms to.
LEMMA ValueIsAssigned ==
  ASSUME RulesAreAccepted, ~HasStrayRules, IsValueTree(document), FirstPass(OwnNodes(document), stack), IsAccepted
  PROVE  /\ IsValueTree(Assigned) /\ IsTree(OwnNodes(Assigned))
         /\ IsRetested(OwnNodes(document), OwnNodes(Assigned), Frame.path)
         /\ \A m \in OwnNodes(Assigned) : m.path # Frame.path => m \in OwnNodes(document)
         /\ \A m \in OwnNodes(Assigned) : m.path = Frame.path =>
              /\ m.rule = Conforming /\ m.type = Tested.type
              /\ m.type = "ValueList" => m.content = Tested.content
         /\ \A child \in ToSet(ChildrenOf(Assigned, Frame.path)) : child \in OwnNodes(Assigned)
<1> DEFINE own == OwnNodes(document)
           next == OwnNodes(Assigned)
           p == Frame.path
<1>1. IsInPass("pass1")
  BY DEF IsAccepted
<1>2. /\ p \in Seq(STRING) /\ IsTree(own) /\ IsValueTree(Cleaned) /\ OwnNodes(Cleaned) = own
      /\ \A node \in ToSet(Cleaned) : IsChildOf(node, p) => ~node.isDefault
  BY <1>1, ValueIsTested
<1>3. PICK node \in own : /\ node.path = p /\ Tested.type = node.type
                          /\ node.type = "ValueList" => Tested.content = node.content
  BY <1>1, ValueIsTested
<1>4. /\ IsValueTree(Assigned) /\ IsRetested(own, next, p)
      /\ \A m \in next : IF m.path = p THEN m.rule = Conforming ELSE m \in own
      /\ \A i \in DOMAIN Assigned : Assigned[i].isDefault => i \in DOMAIN Cleaned /\ Assigned[i] = Cleaned[i]
  BY <1>2, RuleIsAssigned DEF Assigned
<1>5. IsTree(next)
  BY <1>4, TreeOfValues
<1> HIDE DEF own, next
<1>6. ASSUME NEW m \in next, m.path = p
      PROVE  m.rule = Conforming /\ m.type = Tested.type /\ (m.type = "ValueList" => m.content = Tested.content)
  <2>1. PICK n \in own : m.path = n.path /\ m.type = n.type /\ m.content = n.content
    BY <1>4 DEF IsRetested
  <2>2. n = node
    BY <1>2, <1>3, <1>6, <2>1 DEF IsTree
  <2> QED
    BY <1>3, <1>4, <1>6, <2>1, <2>2
<1>7. \A child \in ToSet(ChildrenOf(Assigned, p)) : child \in next
  <2> DEFINE set == {n \in NodesIn(Assigned) : IsChildOf(n, p)}
  <2>1. ChildrenOf(Assigned, p) = Among(Assigned, set)
    BY DEF ChildrenOf
  <2>2. Assigned \in Seq(ToSet(Assigned))
    BY <1>4, TreeOfValues
  <2> HIDE DEF set
  <2>3. ToSet(Among(Assigned, set)) = ToSet(Assigned) \cap set
    BY <2>2, AmongIsPart
  <2>4. ASSUME NEW child \in ToSet(Assigned), child \in set
        PROVE  child \in next
    <3>1. PICK i \in DOMAIN Assigned : Assigned[i] = child
      BY DEF ToSet
    <3>2. IsChildOf(child, p)
      BY <2>4 DEF set
    <3>3. ~child.isDefault
      <4>1. ASSUME child.isDefault
            PROVE  FALSE
        <5>1. i \in DOMAIN Cleaned /\ child = Cleaned[i]
          BY <1>4, <3>1, <4>1
        <5>2. child \in ToSet(Cleaned)
          BY <5>1 DEF ToSet
        <5> QED
          BY <1>2, <3>2, <4>1, <5>2
      <4> QED
        BY <4>1
    <3> QED
      BY <3>3, OwnNodesAre DEF next
  <2> QED
    BY <2>1, <2>3, <2>4
<1> QED
  BY <1>4, <1>5, <1>6, <1>7 DEF own, next

\* The value that was tested is settled.
LEMMA ValueIsSettled ==
  ASSUME RulesAreAccepted, ~HasStrayRules, IsValueTree(document), FirstPass(OwnNodes(document), stack), IsAccepted,
         NEW m \in OwnNodes(Assigned), m.path = Frame.path
  PROVE  IsSettled(OwnNodes(Assigned), m)
<1> DEFINE own == OwnNodes(document)
           next == OwnNodes(Assigned)
           p == Frame.path
<1>1. IsInPass("pass1")
  BY DEF IsAccepted
<1>2. p \in Seq(STRING) /\ IsTestFrame(own, Frame) /\ IsTree(own)
  BY <1>1, ValueIsTested
<1>3. PICK node \in own : node.path = p
  BY <1>1, ValueIsTested
<1>4. /\ IsTree(next) /\ (\A n \in next : n.path # p => n \in own)
      /\ m.rule = Conforming /\ m.type = Tested.type /\ (m.type = "ValueList" => m.content = Tested.content)
  BY ValueIsAssigned
<1>5. /\ Conforming \in DOMAIN ruleTree
      /\ p = <<>> => Conforming = Root
      /\ p # <<>> =>
           /\ ruleTree[Conforming].type \notin {"Alternatives", "NotValidated"}
           /\ MatchesValueType(ruleTree[Conforming].type, Tested.type)
           /\ ruleTree[Conforming].type = "ValueList" /\ Tested.type = "ValueList" /\ ~IsAlternative(Conforming) =>
                PassesEntries(Conforming, Tested.content)
           /\ SectionRule(Conforming) = ruleTree[Frame.rule].parent
  BY ConformingIsTyped
<1> HIDE DEF own, next
<1>6. ASSUME p # <<>>, NEW above \in next, IsIn(m, above)
      PROVE  above.rule = ruleTree[Frame.rule].parent
  <2>1. above.path = Front(p)
    BY <1>6 DEF IsIn
  <2>2. above.path # p
    <3>1. Len(p) = Len(Front(p)) + 1 /\ Len(Front(p)) \in Nat
      BY <1>2, <1>6, PathParts
    <3> QED
      BY <2>1, <3>1
  <2>3. above \in own
    BY <1>4, <2>2
  <2>4. IsIn(node, above)
    BY <1>3, <1>6 DEF IsIn, NameOf
  <2> QED
    BY <1>2, <1>3, <2>3, <2>4 DEF IsTestFrame, IsBelowRule
<1>7. p # <<>> => IsBelowRule(next, m, SectionRule(m.rule))
  BY <1>4, <1>5, <1>6 DEF IsBelowRule
<1> QED
  BY <1>4, <1>5, <1>7 DEF IsSettled, next

\* A branch that is not validated is settled as a whole.
LEMMA BranchIsSettled ==
  ASSUME RulesAreAccepted, ~HasStrayRules, IsValueTree(document), FirstPass(OwnNodes(document), stack), SkipBranch
  PROVE  IsValueTree(document') /\ FirstPass(OwnNodes(document'), stack')
<1> DEFINE own == OwnNodes(document)
           marked == MarkBranch(Cleaned, Frame.path, Frame.rule)
           next == OwnNodes(marked)
           p == Frame.path
           none == <<>>
<1>1. IsInPass("pass1") /\ p # <<>> /\ ruleTree[Frame.rule].type = "NotValidated"
      /\ document' = marked /\ stack' = Front(stack) \o none
  BY DEF SkipBranch, IsNotValidated, Proceed
<1>2. /\ stack # <<>> /\ p \in Seq(STRING) /\ Frame.rule \in DOMAIN ruleTree
      /\ IsTree(own) /\ IsValueTree(Cleaned) /\ OwnNodes(Cleaned) = own
  BY <1>1, ValueIsTested
<1>3. /\ IsValueTree(marked) /\ IsRetested(own, next, p)
      /\ \A m \in next : IsPrefix(p, m.path) => m.rule = Frame.rule
  BY <1>2, BranchIsMarked
<1>4. IsTree(next)
  BY <1>3, TreeOfValues
<1>5. none \in Seq(TestFrames(next)) /\ DOMAIN none = {}
  OBVIOUS
<1>6. p = Last(stack).path
  BY DEF Frame
<1> HIDE DEF own, next, marked, none, p
<1>7. ASSUME NEW m \in next, IsPrefix(p, m.path)
      PROVE  IsSettled(next, m)
  <2>1. m.rule = Frame.rule
    BY <1>3, <1>7
  <2>2. m.path # <<>>
    <3>1. ASSUME m.path = <<>>
          PROVE  FALSE
      <4>1. Len(p) <= Len(m.path) /\ Len(m.path) = 0 /\ Len(p) \in Nat
        BY <1>2, <1>4, <1>7, <3>1, PrefixFacts DEF IsTree
      <4>2. p = <<>>
        BY <1>2, <4>1
      <4> QED
        BY <1>1, <4>2
    <3> QED
      BY <3>1
  <2> QED
    BY <1>1, <1>2, <2>1, <2>2 DEF IsSettled
<1>8. FirstPass(next, Front(stack) \o none)
  <2>1. /\ \A i \in DOMAIN none : IsTestFrame(next, none[i]) /\ IsPrefix(p, none[i].path)
        /\ \A i, j \in DOMAIN none : IsPrefix(none[i].path, none[j].path) => i = j
        /\ \A m \in next : IsPrefix(p, m.path) =>
             IsSettled(next, m) \/ \E i \in DOMAIN none : IsPrefix(none[i].path, m.path)
    BY <1>5, <1>7
  <2>2. FirstPass(own, stack)
    BY DEF own
  <2> QED
    BY <1>2, <1>3, <1>4, <1>5, <1>6, <2>1, <2>2, FirstPassGoesOn
<1> QED
  BY <1>1, <1>3, <1>8 DEF next

\* A list is settled with its entries.
LEMMA ListIsSettled ==
  ASSUME RulesAreAccepted, ~HasStrayRules, IsValueTree(document), FirstPass(OwnNodes(document), stack), AcceptList
  PROVE  IsValueTree(document') /\ FirstPass(OwnNodes(document'), stack')
<1> DEFINE own == OwnNodes(document)
           next == OwnNodes(Assigned)
           p == Frame.path
           none == <<>>
<1>1. IsAccepted /\ IsList /\ document' = Assigned /\ stack' = Front(stack) \o none
  BY DEF AcceptList, Proceed
<1>2. IsInPass("pass1")
  BY <1>1 DEF IsAccepted
<1>3. stack # <<>> /\ p \in Seq(STRING) /\ IsTree(own)
  BY <1>2, ValueIsTested
<1>4. /\ IsValueTree(Assigned) /\ IsTree(next) /\ IsRetested(own, next, p)
      /\ \A m \in next : m.path = p => m.type = Tested.type
  BY <1>1, ValueIsAssigned
<1>5. none \in Seq(TestFrames(next)) /\ DOMAIN none = {}
  OBVIOUS
<1>6. p = Last(stack).path
  BY DEF Frame
<1>7. \A m \in next : m.path = p => IsSettled(next, m)
  BY <1>1, ValueIsSettled
<1>8. p # <<>>
  BY <1>1, ConformingIsTyped DEF IsList, RulesAreAccepted
<1>9. MatchesValueType(ruleTree[Conforming].type, Tested.type)
  BY <1>1, <1>8, ConformingIsTyped
<1>10. Tested.type \notin StructuralTypes
  BY <1>1, <1>9 DEF IsList, MatchesValueType, StructuralTypes, MapTypes, ScalarTypes
<1> HIDE DEF own, next, none, p
<1>11. ASSUME NEW m \in next, IsPrefix(p, m.path)
       PROVE  IsSettled(next, m)
  <2>1. m.path = p
    BY <1>3, <1>4, <1>10, <1>11, AboveIsStructural
  <2> QED
    BY <1>7, <2>1
<1>12. FirstPass(next, Front(stack) \o none)
  <2>1. /\ \A i \in DOMAIN none : IsTestFrame(next, none[i]) /\ IsPrefix(p, none[i].path)
        /\ \A i, j \in DOMAIN none : IsPrefix(none[i].path, none[j].path) => i = j
        /\ \A m \in next : IsPrefix(p, m.path) =>
             IsSettled(next, m) \/ \E i \in DOMAIN none : IsPrefix(none[i].path, m.path)
    BY <1>5, <1>11
  <2>2. FirstPass(own, stack)
    BY DEF own
  <2> QED
    BY <1>3, <1>4, <1>5, <1>6, <2>1, <2>2, FirstPassGoesOn
<1> QED
  BY <1>1, <1>4, <1>12 DEF next

\* The children of a value.
LEMMA ChildrenOfValue ==
  ASSUME NEW doc, IsValueTree(doc), NEW p \in Seq(STRING)
  PROVE  LET list == ChildrenOf(doc, p)
         IN  /\ list \in Seq(ToSet(list)) /\ ToSet(list) = {node \in ToSet(doc) : IsChildOf(node, p)}
             /\ \A i, j \in DOMAIN list :
                  list[i] \in OwnNodes(doc) /\ list[j] \in OwnNodes(doc) /\ list[i].path = list[j].path => i = j
<1> DEFINE set == {node \in NodesIn(doc) : IsChildOf(node, p)}
           D == OwnNodes(doc)
           list == Among(doc, set)
<1>1. list = ChildrenOf(doc, p)
  BY DEF ChildrenOf
<1>2. doc \in Seq(ToSet(doc)) /\ IsOneByOne(doc) /\ IsTree(OwnNodes(doc))
  BY TreeOfValues
<1>3. \A i, j \in DOMAIN doc : doc[i] \in D /\ doc[i] = doc[j] => i = j
  BY <1>2 DEF IsOneByOne, OwnNodes
<1>4. /\ list \in Seq(ToSet(list)) /\ ToSet(list) = ToSet(doc) \cap set
      /\ \A i, j \in DOMAIN list : list[i] \in D /\ list[i] = list[j] => i = j
  <2> HIDE DEF set, D
  <2> QED
    BY <1>2, <1>3, AmongKeeps
<1>5. NodesIn(doc) = ToSet(doc)
  BY DEF NodesIn, ToSet
<1>6. ToSet(doc) \cap set = {node \in ToSet(doc) : IsChildOf(node, p)}
  BY <1>5
<1> HIDE DEF list
<1>7. ASSUME NEW i \in DOMAIN list, NEW j \in DOMAIN list, list[i] \in D, list[j] \in D, list[i].path = list[j].path
      PROVE  i = j
  <2>1. list[i] = list[j]
    BY <1>2, <1>7 DEF IsTree
  <2> QED
    BY <1>4, <1>7, <2>1
<1> QED
  BY <1>1, <1>4, <1>6, <1>7

LEMMA ReversedSequence ==
  ASSUME NEW S, NEW s \in Seq(S)
  PROVE  /\ Reverse(s) \in Seq(S) /\ Len(Reverse(s)) = Len(s) /\ DOMAIN Reverse(s) = DOMAIN s
         /\ \A i \in DOMAIN s : Len(s) - i + 1 \in DOMAIN s /\ Reverse(s)[Len(s) - i + 1] = s[i]
         /\ \A i \in DOMAIN s : Len(s) - i + 1 \in DOMAIN s /\ Reverse(s)[i] = s[Len(s) - i + 1]
<1> DEFINE n == Len(s)
<1>1. n \in Nat /\ DOMAIN s = 1 .. n /\ \A i \in 1 .. n : s[i] \in S
  OBVIOUS
<1> HIDE DEF n
<1>2. Reverse(s) = [i \in 1 .. n |-> s[n - i + 1]]
  BY DEF Reverse, n
<1>3. \A i \in 1 .. n : n - i + 1 \in 1 .. n /\ n - (n - i + 1) + 1 = i
  BY <1>1
<1>4. Reverse(s) \in [1 .. n -> S]
  BY <1>1, <1>2, <1>3
<1>5. Reverse(s) \in Seq(S) /\ Len(Reverse(s)) = n
  BY <1>1, <1>4
<1>6. \A i \in 1 .. n : Reverse(s)[n - i + 1] = s[i]
  BY <1>2, <1>3
<1> QED
  BY <1>1, <1>2, <1>3, <1>5, <1>6 DEF n

\* Below a rule for a scalar value, no value is missed.
LEMMA NothingIsMissed ==
  ASSUME RulesAreAccepted, ~HasStrayRules, NEW r \in DOMAIN ruleTree, IsScalar(ruleTree[r].type),
         NEW c \in ToSet(Children(ruleTree, r))
  PROVE  MayBeMissing(c)
<1>1. IsRuleTree(ruleTree)
  BY DEF RulesAreAccepted
<1>2. c \in DOMAIN ruleTree /\ ruleTree[c].parent = r
  BY <1>1, ChildrenAre
<1>3. c # Root
  BY <1>1, <1>2, RulesAreTyped DEF IsRuleTree
<1>4. RuleName(ruleTree[c]) = "vr_name"
  BY <1>2, <1>3 DEF HasStrayRules
<1> QED
  BY <1>4, NamesAssumption DEF MayBeMissing

\* An entry of a list has a rule.
LEMMA EntryIsFound ==
  ASSUME RulesAreAccepted, NEW r \in DOMAIN ruleTree, ruleTree[r].type \in {"SectionList", "ValueList", "ValueMatrix"}
  PROVE  Child(ruleTree, r, "vr_entry") # NoRule
<1>1. ListIsComplete(ruleTree, r)
  BY DEF RulesAreAccepted, AcceptsRule, PassesFirstTests
<1> QED
  BY <1>1 DEF ListIsComplete, EntryIsAccepted

\* No entry of a section or a list of sections is without a place.
LEMMA EntriesAreInLists ==
  ASSUME RulesAreAccepted, ~HasStrayRules, IsValueTree(document), FirstPass(OwnNodes(document), stack), IsAccepted,
         ~IsList
  PROVE  /\ Tested.type # "ValueList"
         /\ Tested.type \notin StructuralTypes => IsScalar(ruleTree[Conforming].type)
         /\ \A child \in ToSet(ChildrenOf(Assigned, Frame.path)) :
              IsIndexName(NameOf(child)) => NextRule(Conforming, NameOf(child)) # NoRule
<1> DEFINE next == OwnNodes(Assigned)
           p == Frame.path
<1>1. IsInPass("pass1")
  BY DEF IsAccepted
<1>2. p \in Seq(STRING) /\ IsTree(OwnNodes(document))
  BY <1>1, ValueIsTested
<1>3. PICK node \in OwnNodes(document) : node.path = p /\ Tested.type = node.type
  BY <1>1, ValueIsTested
<1>4. p = <<>> => Tested.type = "Document"
  BY <1>2, <1>3 DEF IsTree
<1>5. /\ Conforming \in DOMAIN ruleTree
      /\ p # <<>> =>
           /\ ruleTree[Conforming].type \notin {"Alternatives", "NotValidated"}
           /\ MatchesValueType(ruleTree[Conforming].type, Tested.type)
  BY ConformingIsTyped
<1>6. /\ IsValueTree(Assigned) /\ IsTree(next)
      /\ \A m \in next : m.path = p => m.type = Tested.type
      /\ \A child \in ToSet(ChildrenOf(Assigned, p)) : child \in next
  BY ValueIsAssigned
<1>7. Tested.type # "ValueList" /\ (Tested.type \notin StructuralTypes => IsScalar(ruleTree[Conforming].type))
  BY <1>4, <1>5 DEF IsList, MatchesValueType, StructuralTypes, MapTypes, ScalarTypes, IsScalar
<1> HIDE DEF next, p
<1>8. ASSUME NEW child \in ToSet(ChildrenOf(Assigned, p)), IsIndexName(NameOf(child))
      PROVE  NextRule(Conforming, NameOf(child)) # NoRule
  <2>1. child \in next /\ child.path \in Seq(STRING)
    BY <1>6, <1>8 DEF IsTree
  <2>2. child.path # <<>> /\ Front(child.path) = p
    <3>1. IsChildOf(child, p)
      BY <1>2, <1>6, <1>8, ChildrenOfValue
    <3> QED
      BY <1>2, <2>1, <3>1, ChildIsOneBelow
  <2>3. PICK above \in next : IsIn(child, above)
    BY <1>6, <2>1, <2>2 DEF IsTree
  <2>4. above.path = p /\ above.type = "SectionList"
    BY <1>8, <2>2, <2>3 DEF IsIn
  <2>5. Tested.type = "SectionList"
    BY <1>6, <2>4
  <2>6. ruleTree[Conforming].type = "SectionList"
    BY <1>4, <1>5, <2>5 DEF IsList, MatchesValueType, ScalarTypes
  <2>7. Child(ruleTree, Conforming, "vr_entry") # NoRule
    BY <1>5, <2>6, EntryIsFound
  <2> QED
    BY <1>8, <2>7 DEF NextRule
<1> QED
  BY <1>7, <1>8 DEF p

\* The children of the value on top of the stack are tested next.
LEMMA ChildrenAreTested ==
  ASSUME RulesAreAccepted, ~HasStrayRules, IsValueTree(document), FirstPass(OwnNodes(document), stack), IsAccepted,
         NEW children, children = ChildrenOf(Assigned, Frame.path),
         NEW next, next = [i \in DOMAIN children |-> NextRule(Conforming, NameOf(children[i]))],
         NoRule \notin ToSet(next),
         NEW frames, frames = [i \in DOMAIN children |-> [path |-> children[i].path, rule |-> next[i]]]
  PROVE  FirstPass(OwnNodes(Assigned), Front(stack) \o Reverse(frames))
<1> DEFINE own == OwnNodes(document)
           retested == OwnNodes(Assigned)
           p == Frame.path
           more == Reverse(frames)
           n == Len(frames)
<1>1. IsInPass("pass1")
  BY DEF IsAccepted
<1>2. stack # <<>> /\ p \in Seq(STRING) /\ IsTree(own)
  BY <1>1, ValueIsTested
<1>3. /\ IsValueTree(Assigned) /\ IsTree(retested) /\ IsRetested(own, retested, p)
      /\ \A m \in retested : m.path = p => m.rule = Conforming
      /\ \A child \in ToSet(children) : child \in retested
  BY ValueIsAssigned
<1>4. Conforming \in DOMAIN ruleTree
  BY ConformingIsTyped
<1>5. \A m \in retested : m.path = p => IsSettled(retested, m)
  BY ValueIsSettled
<1>6. /\ children \in Seq(ToSet(children)) /\ ToSet(children) = {node \in ToSet(Assigned) : IsChildOf(node, p)}
      /\ \A i, j \in DOMAIN children :
           children[i] \in retested /\ children[j] \in retested /\ children[i].path = children[j].path => i = j
  BY <1>2, <1>3, ChildrenOfValue
<1> HIDE DEF own, retested, p
<1>7. Len(children) \in Nat /\ DOMAIN children = 1 .. Len(children)
  BY <1>6
<1>8. ASSUME NEW i \in DOMAIN children
      PROVE  /\ children[i] \in retested /\ children[i].path \in Seq(STRING)
             /\ children[i].path # <<>> /\ Front(children[i].path) = p
             /\ Len(children[i].path) = Len(p) + 1 /\ IsPrefix(p, children[i].path)
             /\ next[i] \in DOMAIN ruleTree /\ ruleTree[next[i]].parent = Conforming
             /\ frames[i] = [path |-> children[i].path, rule |-> next[i]]
             /\ frames[i] \in TestFrames(retested) /\ IsTestFrame(retested, frames[i])
  <2> DEFINE child == children[i]
  <2>1. child \in ToSet(children)
    BY DEF ToSet
  <2>2. child \in retested /\ child.path \in Seq(STRING) /\ IsChildOf(child, p)
    BY <1>3, <1>6, <2>1 DEF IsTree
  <2>3. child.path # <<>> /\ Front(child.path) = p
    BY <1>2, <2>2, ChildIsOneBelow
  <2>4. Len(child.path) = Len(p) + 1 /\ IsPrefix(p, child.path)
    BY <2>2 DEF IsChildOf
  <2>5. next[i] = NextRule(Conforming, NameOf(child)) /\ next[i] \in ToSet(next)
    BY DEF ToSet
  <2>6. next[i] \in DOMAIN ruleTree /\ ruleTree[next[i]].parent = Conforming
    BY <1>4, <2>5, NextIsBelow
  <2>7. frames[i] = [path |-> child.path, rule |-> next[i]]
    OBVIOUS
  <2> HIDE DEF child
  <2>8. frames[i] \in TestFrames(retested)
    BY <2>2, <2>6, <2>7 DEF TestFrames
  <2>9. ASSUME NEW m \in retested, m.path = frames[i].path, NEW above \in retested, IsIn(m, above)
        PROVE  above.rule = ruleTree[frames[i].rule].parent
    BY <1>3, <2>3, <2>6, <2>7, <2>9 DEF IsIn
  <2>10. IsTestFrame(retested, frames[i])
    BY <2>3, <2>7, <2>9 DEF IsTestFrame, IsBelowRule
  <2> QED
    BY <2>2, <2>3, <2>4, <2>6, <2>7, <2>8, <2>10 DEF child
<1>9. frames \in Seq(TestFrames(retested)) /\ DOMAIN frames = DOMAIN children
  <2>1. frames \in [1 .. Len(children) -> TestFrames(retested)]
    <3>1. frames = [i \in 1 .. Len(children) |-> frames[i]]
      BY <1>7
    <3>2. \A i \in 1 .. Len(children) : frames[i] \in TestFrames(retested)
      BY <1>7, <1>8
    <3> QED
      BY <3>1, <3>2
  <2> QED
    BY <1>7, <2>1
<1>10. /\ more \in Seq(TestFrames(retested)) /\ DOMAIN more = DOMAIN frames
       /\ \A i \in DOMAIN frames : n - i + 1 \in DOMAIN frames /\ more[n - i + 1] = frames[i]
       /\ \A i \in DOMAIN frames : n - i + 1 \in DOMAIN frames /\ more[i] = frames[n - i + 1]
  <2> DEFINE S == TestFrames(retested)
  <2>1. PICK f : f = frames
    OBVIOUS
  <2>2. f \in Seq(S)
    BY <1>9, <2>1
  <2> HIDE DEF S
  <2>3. /\ Reverse(f) \in Seq(S) /\ Len(Reverse(f)) = Len(f) /\ DOMAIN Reverse(f) = DOMAIN f
        /\ \A i \in DOMAIN f : Len(f) - i + 1 \in DOMAIN f /\ Reverse(f)[Len(f) - i + 1] = f[i]
        /\ \A i \in DOMAIN f : Len(f) - i + 1 \in DOMAIN f /\ Reverse(f)[i] = f[Len(f) - i + 1]
    BY <2>2, ReversedSequence
  <2>4. more = Reverse(f) /\ n = Len(f)
    BY <2>1
  <2> HIDE DEF more, n
  <2>5. /\ more \in Seq(S) /\ DOMAIN more = DOMAIN f
        /\ \A i \in DOMAIN f : n - i + 1 \in DOMAIN f /\ more[n - i + 1] = f[i]
        /\ \A i \in DOMAIN f : n - i + 1 \in DOMAIN f /\ more[i] = f[n - i + 1]
    BY <2>3, <2>4
  <2> QED
    BY <2>1, <2>5 DEF S
<1> HIDE DEF more
<1>11. n \in Nat /\ DOMAIN frames = 1 .. n
  BY <1>9
<1> HIDE DEF n
<1>12. \A i \in DOMAIN more : IsTestFrame(retested, more[i]) /\ IsPrefix(p, more[i].path)
  <2> TAKE i \in DOMAIN more
  <2> DEFINE j == n - i + 1
  <2>1. j \in DOMAIN children /\ more[i] = frames[j]
    BY <1>9, <1>10
  <2> HIDE DEF j
  <2>2. frames[j] = [path |-> children[j].path, rule |-> next[j]] /\ IsPrefix(p, children[j].path)
        /\ IsTestFrame(retested, frames[j])
    BY <1>8, <2>1
  <2>3. frames[j].path = children[j].path
    BY <2>2
  <2> QED
    BY <2>1, <2>2, <2>3
<1>13. ASSUME NEW i \in DOMAIN more, NEW j \in DOMAIN more, IsPrefix(more[i].path, more[j].path)
       PROVE  i = j
  <2> DEFINE h == n - i + 1
             k == n - j + 1
  <2>1. h \in DOMAIN children /\ more[i] = frames[h] /\ k \in DOMAIN children /\ more[j] = frames[k]
    BY <1>9, <1>10
  <2>2. h = k => i = j
    BY <1>10, <1>11
  <2> HIDE DEF h, k
  <2>3. more[i].path = children[h].path /\ more[j].path = children[k].path
    <3>1. frames[h] = [path |-> children[h].path, rule |-> next[h]] /\ frames[k] = [path |-> children[k].path, rule |-> next[k]]
      BY <1>8, <2>1
    <3> QED
      BY <2>1, <3>1
  <2>4. children[h].path \in Seq(STRING) /\ children[k].path \in Seq(STRING) /\ Len(children[h].path) = Len(children[k].path)
    BY <1>8, <2>1
  <2>5. children[h].path = children[k].path
    BY <1>13, <2>3, <2>4, PrefixFacts
  <2>6. h = k
    BY <1>6, <1>8, <2>1, <2>5
  <2> QED
    BY <2>2, <2>6
<1>14. ASSUME NEW m \in retested, IsPrefix(p, m.path), m.path # p
       PROVE  \E i \in DOMAIN more : IsPrefix(more[i].path, m.path)
  <2>1. PICK child \in retested : child.path # <<>> /\ Front(child.path) = p /\ IsPrefix(child.path, m.path)
    BY <1>2, <1>3, <1>14, BelowIsUnderChild
  <2>2. child \in ToSet(children)
    <3>1. child.path \in Seq(STRING)
      BY <1>3 DEF IsTree
    <3>2. IsChildOf(child, p)
      BY <1>2, <2>1, <3>1, ChildIsOneBelow
    <3>3. child \in ToSet(Assigned)
      BY OwnNodesAre DEF retested
    <3> QED
      BY <1>6, <3>2, <3>3
  <2>3. PICK i \in DOMAIN children : children[i] = child
    BY <2>2 DEF ToSet
  <2> DEFINE j == n - i + 1
  <2>4. j \in DOMAIN more /\ more[j] = frames[i]
    BY <1>9, <1>10
  <2> HIDE DEF j
  <2>5. frames[i] = [path |-> children[i].path, rule |-> next[i]]
    BY <1>8
  <2>6. more[j].path = child.path
    BY <2>3, <2>4, <2>5
  <2> QED
    BY <2>1, <2>4, <2>6
<1>15. FirstPass(retested, Front(stack) \o more)
  <2>1. \A m \in retested : IsPrefix(p, m.path) =>
          IsSettled(retested, m) \/ \E i \in DOMAIN more : IsPrefix(more[i].path, m.path)
    BY <1>5, <1>14
  <2>2. FirstPass(own, stack) /\ p = Last(stack).path
    BY DEF own, p, Frame
  <2> QED
    BY <1>2, <1>3, <1>10, <1>12, <1>13, <2>1, <2>2, FirstPassGoesOn
<1> QED
  BY <1>15 DEF more, retested

\* The first pass goes on below a section, or ends.
LEMMA DescentGoesOn ==
  ASSUME RulesAreAccepted, ~HasStrayRules, IsValueTree(document), FirstPass(OwnNodes(document), stack), Descend
  PROVE  /\ phase' # "failed" /\ IsValueTree(document')
         /\ phase' # "invalid" => FirstPass(OwnNodes(document'), stack')
<1> DEFINE p == Frame.path
           children == ChildrenOf(Assigned, p)
           next == [i \in DOMAIN children |-> NextRule(Conforming, NameOf(children[i]))]
           missing == Among(Children(ruleTree, Conforming), DOMAIN ruleTree \ ToSet(next))
           frames == [i \in DOMAIN children |-> [path |-> children[i].path, rule |-> next[i]]]
           isEntryLost == \/ Tested.type = "ValueList" /\ Tested.content # <<>>
                          \/ \E i \in DOMAIN children : next[i] = NoRule /\ IsIndexName(NameOf(children[i]))
           completed == AddDefaults(Assigned, p, missing)
<1>1. /\ IsAccepted /\ ~IsList
      /\ IF isEntryLost THEN Stop(Assigned, "failed")
         ELSE IF NoRule \in ToSet(next) THEN Stop(Assigned, "invalid")
         ELSE Complete(Assigned, completed, frames)
  BY DEF Descend, VisitChildren
<1>2. /\ Tested.type # "ValueList"
      /\ Tested.type \notin StructuralTypes => IsScalar(ruleTree[Conforming].type)
      /\ \A child \in ToSet(children) : IsIndexName(NameOf(child)) => NextRule(Conforming, NameOf(child)) # NoRule
  BY <1>1, EntriesAreInLists
<1>3. \A i \in DOMAIN children : children[i] \in ToSet(children) /\ next[i] = NextRule(Conforming, NameOf(children[i]))
  BY DEF ToSet
<1>4. ~isEntryLost
  BY <1>2, <1>3
<1>5. IsValueTree(Assigned) /\ IsInPass("pass1")
  BY <1>1, ValueIsAssigned DEF IsAccepted
<1>6. Conforming \in DOMAIN ruleTree /\ IsRuleTree(ruleTree)
  BY <1>1, ConformingIsTyped DEF RulesAreAccepted
<1>7. missing \in Seq(ToSet(missing)) /\ ToSet(missing) \subseteq ToSet(Children(ruleTree, Conforming))
  <2> DEFINE list == Children(ruleTree, Conforming)
             set == DOMAIN ruleTree \ ToSet(next)
  <2>1. list \in Seq(ToSet(list))
    BY <1>6, ChildrenAre
  <2>2. missing = Among(list, set)
    OBVIOUS
  <2> HIDE DEF list, set, missing
  <2>3. Among(list, set) \in Seq(ToSet(Among(list, set))) /\ ToSet(Among(list, set)) = ToSet(list) \cap set
    BY <2>1, AmongIsPart
  <2>4. missing \in Seq(ToSet(missing)) /\ ToSet(missing) \subseteq ToSet(list)
    BY <2>2, <2>3
  <2> QED
    BY <2>4 DEF list
<1>8. NoRule \notin ToSet(next) => FirstPass(OwnNodes(Assigned), Front(stack) \o Reverse(frames))
  BY <1>1, ChildrenAreTested
<1> HIDE DEF children, next, missing, frames, isEntryLost
<1>9. /\ IsValueTree(completed.document) /\ OwnNodes(completed.document) = OwnNodes(Assigned)
      /\ (\A r \in ToSet(missing) : MayBeMissing(r)) => completed.document = Assigned
  BY <1>5, <1>7, DefaultsAreAdded
<1> HIDE DEF completed
<1>10. Tested.type \notin StructuralTypes => completed.document = Assigned
  <2> SUFFICES ASSUME Tested.type \notin StructuralTypes
               PROVE  \A r \in ToSet(missing) : MayBeMissing(r)
    BY <1>9
  <2>1. IsScalar(ruleTree[Conforming].type)
    BY <1>2
  <2> QED
    BY <1>6, <1>7, <2>1, NothingIsMissed
<1>11. CASE NoRule \in ToSet(next)
  BY <1>1, <1>4, <1>5, <1>11 DEF Stop
<1>12. CASE NoRule \notin ToSet(next) /\ ~completed.isComplete
  <2>1. Stop(completed.document, "invalid")
    BY <1>1, <1>4, <1>10, <1>12 DEF Complete
  <2> QED
    BY <1>9, <2>1 DEF Stop
<1>13. CASE NoRule \notin ToSet(next) /\ completed.isComplete
  <2>1. Proceed(completed.document, Reverse(frames))
    BY <1>1, <1>4, <1>10, <1>13 DEF Complete
  <2>2. document' = completed.document /\ stack' = Front(stack) \o Reverse(frames) /\ phase' = phase
    BY <2>1 DEF Proceed
  <2>3. phase' # "failed" /\ IsValueTree(document')
    BY <1>5, <1>9, <2>2 DEF IsInPass
  <2>4. FirstPass(OwnNodes(document'), stack')
    <3>1. OwnNodes(document') = OwnNodes(Assigned)
      BY <1>9, <2>2
    <3> QED
      BY <1>8, <1>13, <2>2, <3>1
  <2> QED
    BY <2>3, <2>4
<1> QED
  BY <1>11, <1>12, <1>13

\* What is known in the first pass does not change with the rules and the version.
LEMMA FirstPassStays ==
  ASSUME NEW own, NEW frames, FirstPass(own, frames), ruleTree' = ruleTree, version' = version
  PROVE  FirstPass(own, frames)'
<1>1. TestFrames(own)' = TestFrames(own) /\ \A frame : IsTestFrame(own, frame)' <=> IsTestFrame(own, frame)
  BY DEF TestFrames, IsTestFrame, IsBelowRule
<1>2. \A r : SectionRule(r)' = SectionRule(r) /\ (IsAlternative(r)' <=> IsAlternative(r))
  BY DEF SectionRule, IsAlternative
<1>3. ASSUME NEW r, NEW entry
      PROVE  EntryRule(r, entry)' = EntryRule(r, entry)
  BY DEF EntryRule, MatchingAlternative, IsActive, PassesConstraints
<1>4. ASSUME NEW r, NEW entries
      PROVE  PassesEntries(r, entries)' <=> PassesEntries(r, entries)
  BY <1>3 DEF PassesEntries
<1>5. ASSUME NEW node
      PROVE  IsSettled(own, node)' <=> IsSettled(own, node)
  BY <1>2, <1>4 DEF IsSettled, IsBelowRule
<1> QED
  BY <1>1, <1>5 DEF FirstPass

-----------------------------------------------------------------------------
(* The second pass: the indexes of the sections around a value are there.  *)

SecondFrames(own) == [path : {node.path : node \in own}, isExit : BOOLEAN, added : Nat]

\* A value is entered if it was validated, while its section is left open.
IsEntered(own, frames, k) ==
  /\ \A node \in own : node.path = frames[k].path /\ node.path # <<>> => ruleTree[node.rule].type # "NotValidated"
  /\ frames[k].path # <<>> =>
       \E j \in DOMAIN frames : j < k /\ frames[j].isExit /\ frames[j].path = Front(frames[k].path)

\* The indexes that a frame will drop are behind those of the frames below it; an open
\* section has one for each of its keys with a name.
HoldsIndexes(own, frames, all, base) ==
  \A k \in DOMAIN frames :
    /\ base[k] + frames[k].added <= Len(all)
    /\ \A j \in DOMAIN frames : j < k => base[j] + frames[j].added <= base[k]
    /\ frames[k].isExit =>
         \A node \in own : node.path = frames[k].path =>
           \A i \in DOMAIN ruleTree[node.rule].keys : ruleTree[node.rule].keys[i].name # "" =>
             \E n \in base[k] + 1 .. base[k] + frames[k].added : all[n].name = ruleTree[node.rule].keys[i].name

SecondPass(own, frames, all) ==
  /\ \A node \in own : IsSettled(own, node)
  /\ frames \in Seq(SecondFrames(own)) /\ all \in Seq(ToSet(all))
  /\ \A k \in DOMAIN frames : IsEntered(own, frames, k)
  /\ \E base \in [DOMAIN frames -> Nat] : HoldsIndexes(own, frames, all, base)

\* The rules of the sections that are open.
OpenRules(own, frames) ==
  {node.rule : node \in {n \in own : \E k \in DOMAIN frames : frames[k].isExit /\ frames[k].path = n.path}}

\* The rule of a value in an open section, or of an entry of such a value.
IsUnderOpen(open, r) ==
  \/ r = Root \/ SectionRule(r) \in open
  \/ \E list \in DOMAIN ruleTree :
       /\ ruleTree[list].type = "ValueList" /\ ~IsAlternative(list) /\ SectionRule(list) \in open
       /\ \/ ruleTree[r].parent = list
          \/ IsAlternative(r) /\ SectionRule(r) = list

IsPartOfTree(open) == open \subseteq DOMAIN ruleTree /\ \A a \in open : a = Root \/ SectionRule(a) \in open

HasIndex(all, name) == \E n \in 1 .. Len(all) : all[n].name = name
HaveIndexes(open, all) ==
  \A a \in open : \A i \in DOMAIN ruleTree[a].keys :
    ruleTree[a].keys[i].name # "" => HasIndex(all, ruleTree[a].keys[i].name)

\* The rules of the open sections are a part of the tree, and their indexes are there.
LEMMA SectionsAreOpen ==
  ASSUME NEW own, IsTree(own), NEW frames, NEW all, SecondPass(own, frames, all)
  PROVE  /\ IsPartOfTree(OpenRules(own, frames)) /\ HaveIndexes(OpenRules(own, frames), all)
         /\ \A k \in DOMAIN frames : \A node \in own : node.path = frames[k].path =>
              node.rule \in DOMAIN ruleTree /\ (node.rule = Root \/ SectionRule(node.rule) \in OpenRules(own, frames))
<1> DEFINE open == OpenRules(own, frames)
<1>1. /\ \A node \in own : IsSettled(own, node)
      /\ frames \in Seq(SecondFrames(own)) /\ all \in Seq(ToSet(all))
      /\ \A k \in DOMAIN frames : IsEntered(own, frames, k)
  BY DEF SecondPass
<1>2. PICK base \in [DOMAIN frames -> Nat] : HoldsIndexes(own, frames, all, base)
  BY DEF SecondPass
<1>3. \A node \in own : \A k \in DOMAIN frames : frames[k].isExit /\ frames[k].path = node.path => node.rule \in open
  BY DEF OpenRules
<1>4. \A a \in open : \E node \in own : \E k \in DOMAIN frames :
        a = node.rule /\ frames[k].isExit /\ frames[k].path = node.path
  BY DEF OpenRules
<1> HIDE DEF open
<1>5. ASSUME NEW k \in DOMAIN frames, NEW node \in own, node.path = frames[k].path
      PROVE  node.rule \in DOMAIN ruleTree /\ (node.rule = Root \/ SectionRule(node.rule) \in open)
  <2>1. IsSettled(own, node) /\ IsEntered(own, frames, k)
    BY <1>1
  <2>2. node.rule \in DOMAIN ruleTree
    BY <2>1 DEF IsSettled
  <2>3. CASE node.path = <<>>
    BY <2>1, <2>2, <2>3 DEF IsSettled
  <2>4. CASE node.path # <<>>
    <3>1. ruleTree[node.rule].type # "NotValidated"
      BY <1>5, <2>1, <2>4 DEF IsEntered
    <3>2. IsBelowRule(own, node, SectionRule(node.rule))
      BY <2>1, <2>4, <3>1 DEF IsSettled
    <3>3. PICK above \in own : IsIn(node, above)
      BY <2>4 DEF IsTree
    <3>4. above.path = Front(node.path) /\ above.rule = SectionRule(node.rule)
      BY <3>2, <3>3 DEF IsIn, IsBelowRule
    <3>5. \E j \in DOMAIN frames : frames[j].isExit /\ frames[j].path = Front(frames[k].path)
      BY <1>5, <2>1, <2>4 DEF IsEntered
    <3>6. above.rule \in open
      BY <1>3, <1>5, <3>4, <3>5
    <3> QED
      BY <2>2, <3>4, <3>6
  <2> QED
    BY <2>3, <2>4
<1>6. open \subseteq DOMAIN ruleTree /\ \A a \in open : a = Root \/ SectionRule(a) \in open
  BY <1>4, <1>5
<1>7. ASSUME NEW a \in open, NEW i \in DOMAIN ruleTree[a].keys, ruleTree[a].keys[i].name # ""
      PROVE  HasIndex(all, ruleTree[a].keys[i].name)
  <2>1. PICK node \in own, k \in DOMAIN frames : a = node.rule /\ frames[k].isExit /\ frames[k].path = node.path
    BY <1>4
  <2>2. PICK n \in base[k] + 1 .. base[k] + frames[k].added : all[n].name = ruleTree[a].keys[i].name
    BY <1>2, <1>7, <2>1 DEF HoldsIndexes
  <2>3. base[k] + frames[k].added <= Len(all)
    BY <1>2 DEF HoldsIndexes
  <2>4. base[k] \in Nat /\ frames[k].added \in Nat /\ Len(all) \in Nat
    <3>1. frames[k] \in SecondFrames(own)
      BY <1>1
    <3> QED
      BY <1>1, <1>2, <3>1 DEF SecondFrames
  <2>5. n \in 1 .. Len(all)
    <3>1. \A b, x, l \in Nat : b + x <= l => \A m \in b + 1 .. b + x : m \in 1 .. l
      OBVIOUS
    <3>2. n \in base[k] + 1 .. base[k] + frames[k].added
      BY <2>2
    <3> QED
      BY <2>3, <2>4, <3>1, <3>2, Zenon
  <2> QED
    BY <2>2, <2>5, Zenon DEF HasIndex
<1> QED
  BY <1>5, <1>6, <1>7 DEF open, IsPartOfTree, HaveIndexes

\* The section with a key that a rule refers to is open.
LEMMA SectionIsAround ==
  ASSUME RulesAreAccepted, NEW open, IsPartOfTree(open),
         NEW r \in DOMAIN ruleTree, IsUnderOpen(open, r),
         NEW name, SectionWithKey(ruleTree, r, name) # NoRule
  PROVE  LET section == SectionWithKey(ruleTree, r, name)
         IN  section \in open /\ \E i \in DOMAIN ruleTree[section].keys : ruleTree[section].keys[i].name = name
<1> DEFINE t == ruleTree
           Keyless(S) == {k \in DOMAIN t : t[k].keys = <<>> /\ t[k].parent \in S}
           near == open \cup Keyless(open)
           passed == near \cup Keyless(near)
           section == SectionWithKey(ruleTree, r, name)
<1>0. open \subseteq DOMAIN t /\ \A a \in open : a = Root \/ SectionRule(a) \in open
  BY DEF IsPartOfTree
<1>1. IsRuleTree(t) /\ t[Root].parent = NoRule /\ \A s \in DOMAIN t \ {Root} : t[s].parent \in DOMAIN t
  BY DEF RulesAreAccepted, IsRuleTree
<1>2. \A s \in DOMAIN t : t[s].type # "Section" => t[s].keys = <<>>
  BY DEF RulesAreAccepted, AcceptsRule, PassesFirstTests, KeysAreAccepted
<1>3. ASSUME NEW a \in DOMAIN t, a = Root \/ SectionRule(a) \in open
      PROVE  t[a].parent \in near \cup {NoRule}
  <2>1. CASE a = Root
    BY <1>1, <2>1
  <2>2. CASE a # Root /\ ~IsAlternative(a)
    <3>1. SectionRule(a) = t[a].parent
      BY <2>2 DEF SectionRule
    <3> QED
      BY <1>3, <2>2, <3>1
  <2>3. CASE a # Root /\ IsAlternative(a)
    <3>1. t[t[a].parent].type = "Alternatives" /\ t[a].parent \in DOMAIN t /\ SectionRule(a) = t[t[a].parent].parent
      BY <1>1, <2>3 DEF SectionRule, IsAlternative
    <3>2. t[t[a].parent].keys = <<>>
      BY <1>2, <3>1
    <3> QED
      BY <1>3, <2>3, <3>1, <3>2
  <2> QED
    BY <2>1, <2>2, <2>3
<1>4. passed \subseteq DOMAIN t
  BY <1>0
<1>5. \A s \in passed : t[s].parent \in passed \cup {NoRule}
  <2> TAKE s \in passed
  <2>1. CASE s \in open
    BY <1>0, <1>3, <2>1
  <2>2. CASE s \in Keyless(open) \cup Keyless(near)
    BY <2>2
  <2> QED
    BY <2>1, <2>2
<1>6. t[r].parent \in passed \cup {NoRule}
  <2>1. CASE r = Root \/ SectionRule(r) \in open
    BY <1>3, <2>1
  <2>2. ASSUME NEW list \in DOMAIN t, t[list].type = "ValueList", ~IsAlternative(list), SectionRule(list) \in open,
               t[r].parent = list \/ (IsAlternative(r) /\ SectionRule(r) = list)
        PROVE  t[r].parent \in passed
    <3>1. t[list].keys = <<>> /\ t[list].parent \in open
      BY <1>2, <2>2 DEF SectionRule
    <3>2. list \in near
      BY <3>1
    <3>3. CASE t[r].parent = list
      BY <3>2, <3>3
    <3>4. CASE IsAlternative(r) /\ SectionRule(r) = list
      <4>1. r # Root /\ t[t[r].parent].type = "Alternatives" /\ t[t[r].parent].parent = list
        BY <1>1, <3>4 DEF SectionRule, IsAlternative
      <4>2. t[r].parent \in DOMAIN t /\ t[t[r].parent].keys = <<>>
        BY <1>1, <1>2, <4>1
      <4> QED
        BY <3>2, <4>1, <4>2
    <3> QED
      BY <2>2, <3>3, <3>4
  <2> QED
    BY <2>1, <2>2 DEF IsUnderOpen
<1>7. \A s \in passed : t[s].keys # <<>> => s \in open
  OBVIOUS
<1> HIDE DEF passed, near
<1>8. section \in passed /\ \E i \in DOMAIN t[section].keys : t[section].keys[i].name = name
  <2>1. SectionWithKey(t, r, name) # NoRule /\ r \in DOMAIN t
    OBVIOUS
  <2> HIDE DEF t
  <2>2. IsRuleTree(t)
    BY <1>1
  <2>3. LET s == SectionWithKey(t, r, name)
        IN  s \in passed /\ \E i \in DOMAIN t[s].keys : t[s].keys[i].name = name
    BY <1>4, <1>5, <1>6, <2>1, <2>2, SectionIsTested
  <2> QED
    BY <2>3 DEF t
<1>9. t[section].keys # <<>>
  BY <1>8
<1> HIDE DEF section
<1> QED
  BY <1>7, <1>8, <1>9 DEF section

\* The index that a rule refers to is there.
LEMMA IndexesAreThere ==
  ASSUME RulesAreAccepted, NEW open, IsPartOfTree(open), NEW all, HaveIndexes(open, all),
         NEW r \in DOMAIN ruleTree, IsUnderOpen(open, r),
         NEW name, name # "", SectionWithKey(ruleTree, r, name) # NoRule
  PROVE  HasIndex(all, name)
<1> DEFINE section == SectionWithKey(ruleTree, r, name)
<1>1. section \in open /\ \E i \in DOMAIN ruleTree[section].keys : ruleTree[section].keys[i].name = name
  BY SectionIsAround
<1> QED
  BY <1>1 DEF HaveIndexes

\* A reference to a key finds the index that it needs.
LEMMA ReferencesAreKept ==
  ASSUME RulesAreAccepted, NEW r \in DOMAIN ruleTree, HasConstraint(ruleTree[r], "key"),
         NEW value, MatchesValueType(ruleTree[r].type, value.type),
         NEW open, IsPartOfTree(open), IsUnderOpen(open, r),
         NEW all, Len(all) \in Nat, HaveIndexes(open, all)
  PROVE  KeyOutcome(all, value, r) # "failed"
<1> DEFINE rule == ruleTree[r]
           constraint == ConstraintOf(rule, "key")
           references == constraint.operands
<1>1. ReferencesAreAccepted(ruleTree, r) /\ KeysAreListed(rule)
  BY DEF RulesAreAccepted, AcceptsRule
<1>2. \E i \in DOMAIN rule.constraints : constraint = rule.constraints[i] /\ rule.constraints[i].type = "key"
  <2>1. \E i \in DOMAIN rule.constraints : rule.constraints[i].type = "key"
    BY DEF HasConstraint
  <2> QED
    BY <2>1, Zenon DEF ConstraintOf
<1>3. \A i \in DOMAIN references : references[i][1] # ""
  <2>1. PICK i \in DOMAIN rule.constraints : constraint = rule.constraints[i] /\ rule.constraints[i].type = "key"
    BY <1>2
  <2>2. \A m \in DOMAIN rule.constraints[i].operands : rule.constraints[i].operands[m][1] # ""
    BY <1>1, <2>1 DEF KeysAreListed
  <2> HIDE DEF rule, constraint
  <2> QED
    BY <2>1, <2>2
<1>4. rule.type \in KeyTypes /\ \A i \in DOMAIN references : ReferenceIsAccepted(ruleTree, r, references[i])
  BY <1>1 DEF ReferencesAreAccepted
<1>5. \A i \in DOMAIN references : SectionWithKey(ruleTree, r, references[i][1]) # NoRule
  BY <1>4 DEF ReferenceIsAccepted, ReferenceIsFound
<1>6. value.type \in KeyTypes
  BY <1>4 DEF MatchesValueType, KeyTypes, ScalarTypes
<1> HIDE DEF rule, constraint
<1>7. ASSUME NEW i \in DOMAIN references
      PROVE  NearestIndex(all, references[i][1]) # 0
  <2> DEFINE name == references[i][1]
             I == {n \in 1 .. Len(all) : all[n].name = name}
  <2>1. I # {}
    <3>1. HasIndex(all, name)
      BY <1>3, <1>5, IndexesAreThere
    <3> QED
      BY <3>1 DEF HasIndex
  <2>2. NearestIndex(all, name) = IF I # {} THEN Max(I) ELSE 0
    BY DEF NearestIndex, SelectLastInSeq
  <2>3. I \in SUBSET (1 .. Len(all))
    OBVIOUS
  <2> HIDE DEF I, name
  <2>4. Max(I) \in I
    BY <2>1, <2>3, GreatestExists
  <2>5. Max(I) \in 1 .. Len(all)
    BY <2>3, <2>4
  <2>6. Max(I) # 0
    <3>1. \A x \in 1 .. Len(all) : x # 0
      OBVIOUS
    <3> QED
      BY <2>5, <3>1, Zenon
  <2> QED
    BY <2>1, <2>2, <2>6 DEF name
<1>8. references = ConstraintOf(ruleTree[r], "key").operands
  BY DEF constraint, rule
<1> HIDE DEF references
<1>9. ASSUME KeyOutcome(all, value, r) = "failed"
      PROVE  FALSE
  <2>1. value.type \notin KeyTypes \/ \E i \in DOMAIN references : NearestIndex(all, references[i][1]) = 0
    BY <1>8, <1>9, Zenon DEF KeyOutcome
  <2> QED
    BY <1>6, <1>7, <2>1
<1> QED
  BY <1>9

\* An index has the name of its definition.
LEMMA IndexIsNamed ==
  ASSUME NEW doc, IsValueTree(doc), NEW p \in Seq(STRING), NEW defined, ~IsFailure(BuildIndex(doc, p, defined))
  PROVE  BuildIndex(doc, p, defined).name = defined.name
<1> DEFINE empty == NewIndex(defined.name, defined.caseSensitive, Len(defined.keys))
           entries == IndexedEntries(doc, p, defined)
           of == [doc |-> doc, definition |-> defined]
           name == defined.name
           sensitive == defined.caseSensitive
           size == Len(defined.keys)
           Index(keys) == [name |-> name, caseSensitive |-> sensitive, size |-> size, keys |-> keys]
           Key(entry) == FoldedKey(empty, KeyElements(doc, entry, defined))
           U == {Key(entry) : entry \in ToSet(entries)}
           S == {Failure} \cup {Index(keys) : keys \in SUBSET U}
           n == Len(entries)
<1>1. entries \in Seq(ToSet(entries))
  <2> DEFINE path == p \o ListPath(defined.keys[1])
             children == ChildrenOf(doc, path)
             all == IF Exists(doc, p, ListPath(defined.keys[1])) /\ NodeAt(doc, path).type = "SectionList"
                    THEN children ELSE <<>>
             set == {entry \in ToSet(all) : IsIndexed(doc, entry, defined)}
  <2>1. entries = Among(all, set)
    BY DEF IndexedEntries
  <2>2. doc \in Seq(ToSet(doc))
    BY TreeOfValues
  <2>3. children \in Seq(ToSet(children))
    <3> DEFINE below == {node \in NodesIn(doc) : IsChildOf(node, path)}
    <3>1. children = Among(doc, below)
      BY DEF ChildrenOf
    <3> HIDE DEF below, children, path
    <3>2. Among(doc, below) \in Seq(ToSet(Among(doc, below)))
      BY <2>2, AmongIsPart
    <3> QED
      BY <3>1, <3>2
  <2>4. <<>> \in Seq(ToSet(<<>>))
    OBVIOUS
  <2> HIDE DEF children, path
  <2>5. all \in Seq(ToSet(all))
    BY <2>3, <2>4
  <2> HIDE DEF all, set, entries
  <2>6. Among(all, set) \in Seq(ToSet(Among(all, set)))
    BY <2>5, AmongIsPart
  <2> QED
    BY <2>1, <2>6
<1>2. n \in Nat /\ DOMAIN entries = 1 .. n /\ \A i \in 1 .. n : entries[i] \in ToSet(entries)
  BY <1>1 DEF ToSet
<1> HIDE DEF entries, n
<1>3. BuildIndex(doc, p, defined) = Fold(empty, entries, "index", of) /\ "index" \in FoldKinds
  <2>1. of.doc = doc /\ of.definition = defined
    OBVIOUS
  <2> HIDE DEF of
  <2>2. BuildIndex(of.doc, p, of.definition) =
          Fold(NewIndex(of.definition.name, of.definition.caseSensitive, Len(of.definition.keys)),
               IndexedEntries(of.doc, p, of.definition), "index", of)
    BY DEF BuildIndex, Fold
  <2> QED
    BY <2>1, <2>2 DEF FoldKinds, entries
<1>4. empty = Index({})
  BY DEF NewIndex
<1>5. ASSUME NEW keys, NEW entry
      PROVE  /\ FoldedKey(Index(keys), KeyElements(doc, entry, defined)) = Key(entry)
             /\ AddKey(Index(keys), KeyElements(doc, entry, defined)) = Index(keys \cup {Key(entry)})
             /\ ~IsFailure(Index(keys))
  <2> DEFINE index == Index(keys)
             key == KeyElements(doc, entry, defined)
  <2>1. index.size = empty.size /\ index.caseSensitive = empty.caseSensitive
    BY <1>4
  <2> HIDE DEF index, empty, key
  <2>2. FoldedKey(index, key) = FoldedKey(empty, key)
    BY <2>1 DEF FoldedKey
  <2>3. AddKey(index, key) = [index EXCEPT !.keys = @ \cup {FoldedKey(empty, key)}]
    BY <2>2 DEF AddKey
  <2> DEFINE k == FoldedKey(empty, key)
  <2> HIDE DEF k
  <2>4. [index EXCEPT !.keys = @ \cup {k}] = Index(keys \cup {k})
    <3>1. index = Index(keys) /\ index.keys = keys
      BY DEF index
    <3>2. \A x : [index EXCEPT !.keys = x] = Index(x)
      BY <3>1
    <3> QED
      BY <3>1, <3>2
  <2>5. ~IsFailure(index)
    BY DEF IsFailure, index
  <2> QED
    BY <2>2, <2>3, <2>4, <2>5 DEF index, key, k
<1>6. IsFailure(Failure)
  BY DEF IsFailure, Failure
<1> HIDE DEF empty, Key, Index
<1>7. ASSUME NEW v \in S, NEW i \in 1 .. n
      PROVE  Step(v, entries[i], "index", of) \in S
  <2> DEFINE entry == entries[i]
             key == KeyElements(doc, entry, defined)
  <2>1. Step(v, entry, "index", of) = AddEntry(v, entry, doc, defined)
    BY DEF Step, of
  <2>2. AddEntry(v, entry, doc, defined) \in {Failure, AddKey(v, key)}
        /\ (IsFailure(v) => AddEntry(v, entry, doc, defined) = Failure)
    BY DEF AddEntry
  <2>3. Key(entry) \in U
    BY <1>2
  <2>4. CASE v = Failure
    BY <1>6, <2>1, <2>2, <2>4
  <2>5. ASSUME NEW keys \in SUBSET U, v = Index(keys)
        PROVE  Step(v, entry, "index", of) \in S
    <3>1. AddKey(v, key) = Index(keys \cup {Key(entry)})
      BY <1>5, <2>5
    <3>2. keys \cup {Key(entry)} \in SUBSET U
      BY <2>3
    <3> HIDE DEF U, key, entry
    <3>3. Index(keys \cup {Key(entry)}) \in S /\ Failure \in S
      BY <3>2
    <3> QED
      BY <2>1, <2>2, <3>1, <3>3
  <2> QED
    BY <2>4, <2>5
<1>8. empty \in S
  BY <1>4
<1> HIDE DEF S, of
<1>9. BuildIndex(doc, p, defined) \in S
  BY <1>2, <1>3, <1>7, <1>8, FoldKeeps
<1>10. \A keys : Index(keys).name = name
  BY DEF Index
<1> QED
  BY <1>6, <1>9, <1>10 DEF S

\* The indexes of a section: one for each of its keys with a name.
LEMMA NamedAreBuilt ==
  ASSUME RulesAreAccepted, IsValueTree(document), Frame.path \in Seq(STRING), Entered.rule \in DOMAIN ruleTree,
         \A i \in DOMAIN Built : ~IsFailure(Built[i])
  PROVE  /\ NamedIndexes \in Seq(ToSet(NamedIndexes))
         /\ \A i \in DOMAIN ruleTree[Entered.rule].keys : ruleTree[Entered.rule].keys[i].name # "" =>
              \E n \in 1 .. Len(NamedIndexes) : NamedIndexes[n].name = ruleTree[Entered.rule].keys[i].name
<1> DEFINE keys == ruleTree[Entered.rule].keys
           set == {index \in ToSet(Built) : index.name # ""}
<1>1. keys \in Seq(ToSet(keys))
  BY DEF RulesAreAccepted, KeysAreListed
<1>2. Built = [i \in DOMAIN keys |-> BuildIndex(document, Frame.path, keys[i])]
  BY DEF Built
<1>3. NamedIndexes = Among(Built, set)
  BY DEF NamedIndexes
<1> HIDE DEF keys
<1>4. Len(keys) \in Nat /\ DOMAIN keys = 1 .. Len(keys)
  BY <1>1
<1>5. Built \in Seq(ToSet(Built)) /\ DOMAIN Built = DOMAIN keys
  <2>1. PICK b : b = Built
    OBVIOUS
  <2>2. b \in [1 .. Len(keys) -> ToSet(b)]
    BY <1>2, <1>4, <2>1 DEF ToSet
  <2> QED
    BY <1>4, <2>1, <2>2
<1>6. ASSUME NEW i \in DOMAIN keys
      PROVE  Built[i].name = keys[i].name /\ Built[i] \in ToSet(Built)
  <2>1. Built[i] = BuildIndex(document, Frame.path, keys[i]) /\ ~IsFailure(Built[i])
    BY <1>2, <1>5
  <2>2. Built[i].name = keys[i].name
    BY <2>1, IndexIsNamed
  <2> QED
    BY <1>5, <2>2 DEF ToSet
<1> HIDE DEF set
<1>7. NamedIndexes \in Seq(ToSet(NamedIndexes)) /\ ToSet(NamedIndexes) = ToSet(Built) \cap set
  BY <1>3, <1>5, AmongIsPart
<1>8. ASSUME NEW i \in DOMAIN keys, keys[i].name # ""
      PROVE  \E n \in 1 .. Len(NamedIndexes) : NamedIndexes[n].name = keys[i].name
  <2>1. Built[i] \in ToSet(NamedIndexes)
    BY <1>6, <1>7, <1>8 DEF set
  <2>2. DOMAIN NamedIndexes = 1 .. Len(NamedIndexes)
    BY <1>7
  <2>3. PICK n \in DOMAIN NamedIndexes : NamedIndexes[n] = Built[i]
    BY <2>1 DEF ToSet
  <2> QED
    BY <1>6, <2>2, <2>3
<1> QED
  BY <1>7, <1>8 DEF keys

\* The value on top of the stack in the second pass.
LEMMA ValueIsEntered ==
  ASSUME IsValueTree(document), SecondPass(OwnNodes(document), stack, indexes), IsInPass("pass2")
  PROVE  /\ stack # <<>> /\ Len(stack) \in Nat \ {0} /\ DOMAIN stack = 1 .. Len(stack)
         /\ Frame = stack[Len(stack)] /\ Frame \in SecondFrames(OwnNodes(document))
         /\ IsTree(OwnNodes(document)) /\ Frame.path \in Seq(STRING)
         /\ Entered \in OwnNodes(document) /\ Entered.path = Frame.path
<1> DEFINE own == OwnNodes(document)
<1>1. stack # <<>> /\ stack \in Seq(SecondFrames(own))
  BY DEF IsInPass, SecondPass
<1>2. IsTree(own)
  BY TreeOfValues
<1> HIDE DEF own
<1>3. Len(stack) \in Nat \ {0} /\ Last(stack) \in SecondFrames(own) /\ Last(stack) = stack[Len(stack)]
  BY <1>1, PathParts, Zenon
<1>4. DOMAIN stack = 1 .. Len(stack)
  BY <1>1
<1>5. PICK node \in own : node.path = Frame.path
  BY <1>3 DEF SecondFrames, Frame
<1>6. OwnNode(document, Frame.path) = node
  BY <1>5, OwnNodeIsFound DEF own
<1> QED
  BY <1>1, <1>2, <1>3, <1>4, <1>5, <1>6 DEF own, Frame, Entered, IsTree

\* No reference of a value or of its entries fails.
LEMMA OutcomesDoNotFail ==
  ASSUME RulesAreAccepted, IsValueTree(document), SecondPass(OwnNodes(document), stack, indexes), IsInPass("pass2"),
         NEW all, Len(all) \in Nat, Len(indexes) <= Len(all), \A n \in 1 .. Len(indexes) : all[n] = indexes[n]
  PROVE  "failed" \notin KeyOutcomes(all)
<1> DEFINE own == OwnNodes(document)
           open == OpenRules(own, stack)
           node == Entered
           list == node.rule
           top == Len(stack)
<1>1. /\ top \in DOMAIN stack /\ Frame = stack[top] /\ IsTree(own)
      /\ node \in own /\ node.path = stack[top].path
  BY ValueIsEntered
<1>2. Len(indexes) \in Nat
  BY DEF SecondPass
<1>3. /\ IsPartOfTree(open) /\ HaveIndexes(open, indexes)
      /\ list \in DOMAIN ruleTree /\ (list = Root \/ SectionRule(list) \in open)
  <2>1. IsTree(own) /\ SecondPass(own, stack, indexes)
    BY <1>1
  <2> HIDE DEF own
  <2>2. /\ IsPartOfTree(open) /\ HaveIndexes(open, indexes)
        /\ \A k \in DOMAIN stack : \A n \in own : n.path = stack[k].path =>
             n.rule \in DOMAIN ruleTree /\ (n.rule = Root \/ SectionRule(n.rule) \in open)
    BY <2>1, SectionsAreOpen
  <2> HIDE DEF open
  <2> QED
    BY <1>1, <2>2
<1>4. IsSettled(own, node) /\ IsEntered(own, stack, top)
  BY <1>1 DEF SecondPass
<1>5. node.path = <<>> => list = Root /\ ruleTree[list].type = "Section"
  BY <1>4 DEF IsSettled, RulesAreAccepted
<1>6. node.path # <<>> =>
        /\ MatchesValueType(ruleTree[list].type, node.type)
        /\ ruleTree[list].type = "ValueList" /\ node.type = "ValueList" /\ ~IsAlternative(list) =>
             PassesEntries(list, node.content)
  BY <1>1, <1>4 DEF IsSettled, IsEntered
<1>7. node.type = "ValueList" => node.content \in Seq(ToSet(node.content))
  BY <1>1 DEF IsTree
<1> HIDE DEF own, open, node, top, list
<1>8. HaveIndexes(open, all)
  <2>1. ASSUME NEW name, HasIndex(indexes, name)
        PROVE  HasIndex(all, name)
    BY <1>2, <2>1 DEF HasIndex
  <2> QED
    BY <1>3, <2>1 DEF HaveIndexes
<1>9. ASSUME HasConstraint(ruleTree[list], "key")
      PROVE  KeyOutcome(all, node, list) # "failed"
  <2>1. ruleTree[list].type \in KeyTypes
    BY <1>3, <1>9 DEF RulesAreAccepted, AcceptsRule, ReferencesAreAccepted
  <2>2. node.path # <<>>
    BY <1>5, <2>1 DEF KeyTypes
  <2>3. IsUnderOpen(open, list)
    BY <1>3 DEF IsUnderOpen
  <2> QED
    BY <1>3, <1>6, <1>8, <1>9, <2>2, <2>3, ReferencesAreKept
<1> DEFINE entries == ReferringEntries(node)
           e == Child(ruleTree, list, "vr_entry")
<1>10. ASSUME NEW i \in DOMAIN entries
       PROVE  KeyOutcome(all, entries[i], EntryRule(e, entries[i])) # "failed"
  <2> DEFINE set == {entry \in ToSet(node.content) : HasConstraint(ruleTree[EntryRule(e, entry)], "key")}
             isList == node.type = "ValueList" /\ ruleTree[list].type = "ValueList" /\ ~IsAlternative(list)
  <2>1. entries = IF isList THEN Among(node.content, set) ELSE <<>>
    BY DEF ReferringEntries, list
  <2>2. isList /\ entries = Among(node.content, set)
    BY <1>10, <2>1
  <2> HIDE DEF set, entries, e
  <2>3. ToSet(entries) = ToSet(node.content) \cap set
    BY <1>7, <2>2, AmongIsPart
  <2>4. entries[i] \in ToSet(entries)
    BY <1>10 DEF ToSet
  <2> DEFINE entry == entries[i]
             r == EntryRule(e, entry)
  <2>5. entry \in ToSet(node.content) /\ HasConstraint(ruleTree[r], "key")
    BY <2>3, <2>4 DEF set
  <2>6. node.path # <<>> /\ PassesEntries(list, node.content)
    BY <1>5, <1>6, <2>2
  <2> HIDE DEF entry
  <2>7. r # NoRule
    <3>1. \E j \in DOMAIN node.content : node.content[j] = entry
      BY <2>5 DEF ToSet
    <3> QED
      BY <2>6, <3>1 DEF PassesEntries, e
  <2>8. e # NoRule /\ IsRuleTree(ruleTree) /\ list \in Nat
    BY <1>3, <2>2, EntryIsFound, RulesAreTyped DEF RulesAreAccepted, e
  <2>9. e \in DOMAIN ruleTree /\ ruleTree[e].parent = list
    BY <2>8, ChildIsBelow DEF e
  <2>10. /\ r \in DOMAIN ruleTree /\ MatchesValueType(ruleTree[r].type, entry.type)
         /\ r = e \/ (ruleTree[e].type = "Alternatives" /\ ruleTree[r].parent = e)
    BY <2>7, <2>9, EntryMatches
  <2>11. e # NoRule
    BY <2>8
  <2> HIDE DEF r
  <2>12. ruleTree[r].parent = list \/ (IsAlternative(r) /\ SectionRule(r) = list)
    BY <2>9, <2>10, <2>11 DEF IsAlternative, SectionRule
  <2>13. SectionRule(list) \in open
    <3>1. list # Root
      BY <2>2 DEF RulesAreAccepted
    <3> QED
      BY <1>3, <3>1
  <2>14. IsUnderOpen(open, r)
    BY <1>3, <2>2, <2>12, <2>13 DEF IsUnderOpen
  <2>15. HasConstraint(ruleTree[r], "key")
    BY <2>5 DEF r
  <2>16. KeyOutcome(all, entry, r) # "failed"
    BY <1>3, <1>8, <2>10, <2>14, <2>15, ReferencesAreKept
  <2> QED
    BY <2>16 DEF r, entry, e, entries
<1>11. KeyOutcomes(all) = (IF HasConstraint(ruleTree[list], "key") THEN {KeyOutcome(all, node, list)} ELSE {})
                            \cup {KeyOutcome(all, entries[i], EntryRule(e, entries[i])) : i \in DOMAIN entries}
  BY DEF KeyOutcomes, node, list
<1> HIDE DEF entries, e
<1> QED
  BY <1>9, <1>10, <1>11

LEMMA ReplacedTop ==
  ASSUME NEW S, NEW s \in Seq(S), s # <<>>, NEW x \in S, NEW more \in Seq(S)
  PROVE  LET new == Front(s) \o <<x>> \o more
             n == Len(s)
         IN  /\ new \in Seq(S) /\ Len(new) = n + Len(more) /\ DOMAIN new = 1 .. n + Len(more)
             /\ \A k \in 1 .. n - 1 : new[k] = s[k]
             /\ new[n] = x
             /\ \A i \in 1 .. Len(more) : new[n + i] = more[i]
<1> DEFINE f == Front(s)
           one == <<x>>
           head == f \o one
           new == head \o more
           n == Len(s)
<1>1. /\ f \in Seq(S) /\ n \in Nat \ {0} /\ Len(f) = n - 1
      /\ \A i \in 1 .. n - 1 : f[i] = s[i]
  BY PathParts, Zenon
<1>2. one \in Seq(S) /\ Len(one) = 1 /\ one[1] = x
  OBVIOUS
<1> HIDE DEF f, one
<1>3. /\ head \in Seq(S) /\ Len(head) = Len(f) + Len(one)
      /\ \A i \in 1 .. Len(f) + Len(one) : head[i] = IF i <= Len(f) THEN f[i] ELSE one[i - Len(f)]
  BY <1>1, <1>2, ConcatProperties
<1> HIDE DEF head, n
<1>4. Len(head) = n /\ head[n] = x /\ \A k \in 1 .. n - 1 : head[k] = s[k]
  BY <1>1, <1>2, <1>3
<1>5. /\ new \in Seq(S) /\ Len(new) = Len(head) + Len(more)
      /\ \A i \in 1 .. Len(head) + Len(more) : new[i] = IF i <= Len(head) THEN head[i] ELSE more[i - Len(head)]
  <2>1. head \in Seq(S) /\ more \in Seq(S)
    BY <1>3
  <2> QED
    BY <2>1, ConcatProperties, Zenon
<1>6. Len(more) \in Nat
  OBVIOUS
<1> HIDE DEF new
<1>7. DOMAIN new = 1 .. n + Len(more) /\ Len(new) = n + Len(more)
  BY <1>4, <1>5
<1>8. ASSUME NEW i \in 1 .. n
      PROVE  new[i] = head[i]
  <2>1. i \in 1 .. n + Len(more) /\ i <= n
    BY <1>1, <1>6
  <2> QED
    BY <1>4, <1>5, <2>1
<1>9. ASSUME NEW i \in 1 .. Len(more)
      PROVE  new[n + i] = more[i]
  <2>1. n + i \in 1 .. n + Len(more) /\ ~(n + i <= n) /\ (n + i) - n = i
    BY <1>1, <1>6
  <2> QED
    BY <1>4, <1>5, <2>1
<1>10. \A k \in 1 .. n - 1 : k \in 1 .. n
  BY <1>1
<1>11. n \in 1 .. n
  BY <1>1
<1> QED
  BY <1>4, <1>5, <1>7, <1>8, <1>9, <1>10, <1>11 DEF new, head, f, one, n

LEMMA IsSecondFrame ==
  ASSUME NEW own, NEW q, \E node \in own : node.path = q, NEW b \in BOOLEAN, NEW n \in Nat
  PROVE  [path |-> q, isExit |-> b, added |-> n] \in SecondFrames(own)
<1> DEFINE paths == {node.path : node \in own}
<1>1. q \in paths
  OBVIOUS
<1>2. SecondFrames(own) = [path : paths, isExit : BOOLEAN, added : Nat]
  BY DEF SecondFrames
<1> HIDE DEF paths
<1> QED
  BY <1>1, <1>2

\* The children that are entered, as frames.
EnteredAmong(children) ==
  Among(children, {child \in ToSet(children) :
    ~child.isDefault /\ child.rule # NoRule /\ ruleTree[child.rule].type # "NotValidated"})
EnterFrames(entered) == [i \in DOMAIN entered |-> [path |-> entered[i].path, isExit |-> FALSE, added |-> 0]]

LEMMA EnteredChildren ==
  ASSUME NEW doc, IsValueTree(doc), NEW p \in Seq(STRING),
         NEW frames, frames = EnterFrames(EnteredAmong(ChildrenOf(doc, p)))
  PROVE  /\ frames \in Seq(SecondFrames(OwnNodes(doc)))
         /\ \A i \in DOMAIN frames :
              /\ ~frames[i].isExit /\ frames[i].added = 0
              /\ frames[i].path # <<>> /\ Front(frames[i].path) = p
              /\ \A node \in OwnNodes(doc) : node.path = frames[i].path => ruleTree[node.rule].type # "NotValidated"
<1> DEFINE own == OwnNodes(doc)
           children == ChildrenOf(doc, p)
           set == {child \in ToSet(children) :
                     ~child.isDefault /\ child.rule # NoRule /\ ruleTree[child.rule].type # "NotValidated"}
           entered == EnteredAmong(children)
<1>0. /\ entered = Among(children, set)
      /\ frames = [i \in DOMAIN entered |-> [path |-> entered[i].path, isExit |-> FALSE, added |-> 0]]
  BY DEF EnteredAmong, EnterFrames
<1> HIDE DEF entered
<1>1. children \in Seq(ToSet(children)) /\ ToSet(children) = {node \in ToSet(doc) : IsChildOf(node, p)}
  BY ChildrenOfValue
<1> HIDE DEF children
<1>2. IsTree(own)
  BY TreeOfValues
<1>3. own = {node \in ToSet(doc) : ~node.isDefault}
  BY OwnNodesAre
<1>4. entered \in Seq(ToSet(entered)) /\ ToSet(entered) = ToSet(children) \cap set
  <2> HIDE DEF set
  <2>1. Among(children, set) \in Seq(ToSet(Among(children, set)))
        /\ ToSet(Among(children, set)) = ToSet(children) \cap set
    BY <1>1, AmongIsPart
  <2> QED
    BY <1>0, <2>1
<1>5. Len(entered) \in Nat /\ DOMAIN entered = 1 .. Len(entered)
  BY <1>4
<1> HIDE DEF own
<1>6. ASSUME NEW i \in DOMAIN entered
      PROVE  LET child == entered[i]
             IN  /\ child \in own /\ child.path # <<>> /\ Front(child.path) = p
                 /\ ruleTree[child.rule].type # "NotValidated"
  <2> DEFINE child == entered[i]
  <2>1. child \in ToSet(entered)
    BY DEF ToSet
  <2>2. child \in own /\ IsChildOf(child, p) /\ ruleTree[child.rule].type # "NotValidated"
    BY <1>1, <1>3, <1>4, <2>1
  <2>3. child.path \in Seq(STRING)
    BY <1>2, <2>2 DEF IsTree
  <2> HIDE DEF child
  <2>4. child.path # <<>> /\ Front(child.path) = p
    BY <2>2, <2>3, ChildIsOneBelow
  <2> QED
    BY <2>2, <2>4 DEF child
<1>7. DOMAIN frames = 1 .. Len(entered)
      /\ \A i \in 1 .. Len(entered) : frames[i] = [path |-> entered[i].path, isExit |-> FALSE, added |-> 0]
  BY <1>0, <1>5
<1>8. \A i \in 1 .. Len(entered) : frames[i] \in SecondFrames(own)
  <2> TAKE i \in 1 .. Len(entered)
  <2>1. \E node \in own : node.path = entered[i].path
    BY <1>5, <1>6
  <2>2. frames[i] = [path |-> entered[i].path, isExit |-> FALSE, added |-> 0]
    BY <1>7
  <2>3. \A b \in BOOLEAN : \A n \in Nat : [path |-> entered[i].path, isExit |-> b, added |-> n] \in SecondFrames(own)
    BY <2>1, IsSecondFrame
  <2>4. [path |-> entered[i].path, isExit |-> FALSE, added |-> 0] \in SecondFrames(own)
    BY <2>3
  <2> QED
    BY <2>2, <2>4, Zenon
<1>9. frames \in Seq(SecondFrames(own))
  <2> DEFINE S == SecondFrames(own)
             n == Len(entered)
             Frames(i) == [path |-> entered[i].path, isExit |-> FALSE, added |-> 0]
  <2>1. \A i \in 1 .. n : Frames(i) \in S
    BY <1>7, <1>8
  <2>2. frames = [i \in 1 .. n |-> Frames(i)] /\ n \in Nat
    BY <1>0, <1>5
  <2> HIDE DEF S, n, Frames
  <2>3. [i \in 1 .. n |-> Frames(i)] \in Seq(S)
    BY <2>1, <2>2
  <2>4. frames \in Seq(S)
    BY <2>2, <2>3, Zenon
  <2> QED
    BY <2>4 DEF S
<1>10. ASSUME NEW i \in 1 .. Len(entered)
       PROVE  /\ ~frames[i].isExit /\ frames[i].added = 0
              /\ frames[i].path # <<>> /\ Front(frames[i].path) = p
              /\ \A node \in own : node.path = frames[i].path => ruleTree[node.rule].type # "NotValidated"
  <2>1. frames[i].path = entered[i].path /\ ~frames[i].isExit /\ frames[i].added = 0
    BY <1>7
  <2>2. entered[i] \in own /\ entered[i].path # <<>> /\ Front(entered[i].path) = p
        /\ ruleTree[entered[i].rule].type # "NotValidated"
    BY <1>5, <1>6
  <2>3. \A node \in own : node.path = entered[i].path => node = entered[i]
    BY <1>2, <2>2 DEF IsTree
  <2> QED
    BY <2>1, <2>2, <2>3
<1> QED
  BY <1>7, <1>9, <1>10 DEF own

\* What two sequences become together.
LEMMA JoinedSequence ==
  ASSUME NEW s, s \in Seq(ToSet(s)), NEW more, more \in Seq(ToSet(more))
  PROVE  LET both == s \o more
         IN  /\ both \in Seq(ToSet(both)) /\ Len(both) = Len(s) + Len(more)
             /\ \A i \in 1 .. Len(s) : both[i] = s[i]
             /\ \A i \in 1 .. Len(more) : both[Len(s) + i] = more[i]
<1> DEFINE S == ToSet(s) \cup ToSet(more)
           both == s \o more
<1>1. \A A, B : \A t \in Seq(A) : A \subseteq B => t \in Seq(B)
  OBVIOUS
<1>2. s \in Seq(S) /\ more \in Seq(S)
  BY <1>1
<1> HIDE DEF S
<1>3. Len(s) \in Nat /\ Len(more) \in Nat
  BY <1>2
<1>4. /\ both \in Seq(S) /\ Len(both) = Len(s) + Len(more)
      /\ \A i \in 1 .. Len(s) + Len(more) : both[i] = IF i <= Len(s) THEN s[i] ELSE more[i - Len(s)]
  BY <1>2, ConcatProperties, Zenon
<1> HIDE DEF both
<1>5. both \in Seq(ToSet(both))
  BY <1>4, IsOfItsElements
<1>6. ASSUME NEW i \in 1 .. Len(s)
      PROVE  both[i] = s[i]
  <2>1. i \in 1 .. Len(s) + Len(more) /\ i <= Len(s)
    BY <1>3
  <2> QED
    BY <1>4, <2>1
<1>7. ASSUME NEW i \in 1 .. Len(more)
      PROVE  both[Len(s) + i] = more[i]
  <2>1. Len(s) + i \in 1 .. Len(s) + Len(more) /\ ~(Len(s) + i <= Len(s)) /\ (Len(s) + i) - Len(s) = i
    BY <1>3
  <2> QED
    BY <1>4, <2>1
<1> QED
  BY <1>4, <1>5, <1>6, <1>7 DEF both

\* The frame with which a value is left, and those of its children.
IsExitFrame(own, frame, p, named) ==
  /\ frame \in SecondFrames(own) /\ frame.path = p /\ frame.isExit /\ frame.added = Len(named)
  /\ \A node \in own : node.path = p =>
       \A i \in DOMAIN ruleTree[node.rule].keys : ruleTree[node.rule].keys[i].name # "" =>
         \E m \in 1 .. Len(named) : named[m].name = ruleTree[node.rule].keys[i].name
IsChildFrame(own, frame, p) ==
  /\ ~frame.isExit /\ frame.added = 0 /\ frame.path # <<>> /\ Front(frame.path) = p
  /\ \A node \in own : node.path = frame.path => ruleTree[node.rule].type # "NotValidated"

\* A section is opened with its indexes, and its children are entered.
LEMMA SecondPassGoesOn ==
  ASSUME NEW own, NEW frames, frames # <<>>, NEW all, SecondPass(own, frames, all),
         NEW p, frames[Len(frames)].path = p,
         NEW named, named \in Seq(ToSet(named)),
         NEW x, IsExitFrame(own, x, p, named),
         NEW more \in Seq(SecondFrames(own)), \A i \in DOMAIN more : IsChildFrame(own, more[i], p)
  PROVE  SecondPass(own, Front(frames) \o <<x>> \o more, all \o named)
<1> DEFINE new == Front(frames) \o <<x>> \o more
           both == all \o named
           n == Len(frames)
           l == Len(all)
           d == Len(named)
<1>1. /\ \A node \in own : IsSettled(own, node)
      /\ frames \in Seq(SecondFrames(own)) /\ all \in Seq(ToSet(all))
      /\ \A k \in DOMAIN frames : IsEntered(own, frames, k)
  BY DEF SecondPass
<1>2. PICK base \in [DOMAIN frames -> Nat] : HoldsIndexes(own, frames, all, base)
  BY DEF SecondPass
<1>3. /\ new \in Seq(SecondFrames(own)) /\ DOMAIN new = 1 .. n + Len(more)
      /\ \A k \in 1 .. n - 1 : new[k] = frames[k]
      /\ new[n] = x
      /\ \A i \in 1 .. Len(more) : new[n + i] = more[i]
  <2> DEFINE S == SecondFrames(own)
  <2>1. x \in S /\ frames \in Seq(S) /\ more \in Seq(S) /\ frames # <<>>
    BY <1>1 DEF IsExitFrame
  <2> HIDE DEF S, new, n
  <2>2. LET put == Front(frames) \o <<x>> \o more
            m == Len(frames)
        IN  /\ put \in Seq(S) /\ Len(put) = m + Len(more) /\ DOMAIN put = 1 .. m + Len(more)
            /\ \A k \in 1 .. m - 1 : put[k] = frames[k]
            /\ put[m] = x
            /\ \A i \in 1 .. Len(more) : put[m + i] = more[i]
    BY <2>1, ReplacedTop
  <2> QED
    BY <2>2, Zenon DEF S, new, n
<1>4. /\ both \in Seq(ToSet(both)) /\ Len(both) = l + d
      /\ \A i \in 1 .. l : both[i] = all[i]
      /\ \A i \in 1 .. d : both[l + i] = named[i]
  <2> HIDE DEF both, l, d
  <2>1. LET joined == all \o named
        IN  /\ joined \in Seq(ToSet(joined)) /\ Len(joined) = Len(all) + Len(named)
            /\ \A i \in 1 .. Len(all) : joined[i] = all[i]
            /\ \A i \in 1 .. Len(named) : joined[Len(all) + i] = named[i]
    BY <1>1, JoinedSequence
  <2> QED
    BY <2>1, Zenon DEF both, l, d
<1>5. /\ n \in Nat \ {0} /\ DOMAIN frames = 1 .. n /\ l \in Nat /\ d \in Nat
      /\ Len(more) \in Nat /\ DOMAIN more = 1 .. Len(more)
  <2>1. n \in Nat \ {0} /\ DOMAIN frames = 1 .. n
    BY <1>1, EmptySeq
  <2>2. l \in Nat /\ d \in Nat /\ Len(more) \in Nat /\ DOMAIN more = 1 .. Len(more)
    BY <1>1
  <2> QED
    BY <2>1, <2>2
<1> HIDE DEF new, both, n, l, d
<1>6. /\ \A k \in 1 .. n : k \in DOMAIN frames
      /\ \A k \in DOMAIN new : k \in 1 .. n - 1 \/ k = n \/ (\E i \in DOMAIN more : k = n + i)
      /\ \A k \in 1 .. n - 1 : k \in 1 .. n /\ \A j \in DOMAIN new : j < k => j \in 1 .. n - 1
      /\ \A j \in DOMAIN new : j < n => j \in 1 .. n - 1
      /\ n \in 1 .. n /\ n \in DOMAIN new /\ \A k \in 1 .. n - 1 : k \in DOMAIN new
  <2>1. \A k \in 1 .. n + Len(more) : k \in 1 .. n - 1 \/ k = n \/ (k - n \in 1 .. Len(more) /\ k = n + (k - n))
    BY <1>5
  <2>2. \A k \in DOMAIN new : k \in 1 .. n - 1 \/ k = n \/ (\E i \in DOMAIN more : k = n + i)
    BY <1>3, <1>5, <2>1
  <2>3. /\ \A k \in 1 .. n - 1 : k \in 1 .. n /\ \A j \in 1 .. n + Len(more) : j < k => j \in 1 .. n - 1
        /\ \A j \in 1 .. n + Len(more) : j < n => j \in 1 .. n - 1
        /\ n \in 1 .. n /\ n \in 1 .. n + Len(more) /\ \A k \in 1 .. n - 1 : k \in 1 .. n + Len(more)
    BY <1>5
  <2> QED
    BY <1>3, <1>5, <2>2, <2>3
<1>7. \A k \in 1 .. n : new[k].path = frames[k].path
  <2>1. frames[n].path = x.path
    BY DEF n, IsExitFrame
  <2>2. \A k \in 1 .. n : k \in 1 .. n - 1 \/ k = n
    BY <1>5
  <2> QED
    BY <1>3, <2>1, <2>2
<1>8. ASSUME NEW k \in DOMAIN new
      PROVE  IsEntered(own, new, k)
  <2>1. CASE k \in 1 .. n
    <3>1. IsEntered(own, frames, k) /\ new[k].path = frames[k].path
      BY <1>1, <1>6, <1>7, <2>1
    <3>2. \A j \in DOMAIN frames : j < k => j \in DOMAIN new /\ new[j] = frames[j]
      <4>1. \A j \in 1 .. n : j < k => j \in 1 .. n - 1
        BY <1>5, <2>1
      <4> QED
        BY <1>3, <1>5, <1>6, <4>1
    <3> QED
      BY <3>1, <3>2 DEF IsEntered
  <2>2. ASSUME NEW i \in DOMAIN more, k = n + i
        PROVE  IsEntered(own, new, k)
    <3>1. new[k] = more[i]
      BY <1>3, <1>5, <2>2
    <3>2. n < k
      BY <1>5, <2>2
    <3>3. IsChildFrame(own, new[k], p) /\ n \in DOMAIN new /\ new[n].isExit /\ new[n].path = p
      BY <1>3, <1>6, <3>1 DEF IsExitFrame
    <3> QED
      BY <3>2, <3>3 DEF IsEntered, IsChildFrame
  <2> QED
    BY <1>6, <2>1, <2>2
<1> DEFINE next == [k \in DOMAIN new |-> IF k \in 1 .. n - 1 THEN base[k] ELSE IF k = n THEN l ELSE l + d]
<1>9. next \in [DOMAIN new -> Nat]
  BY <1>2, <1>5, <1>6
<1>10. /\ \A k \in 1 .. n - 1 : next[k] = base[k]
       /\ next[n] = l
       /\ \A i \in DOMAIN more : n + i \in DOMAIN new /\ next[n + i] = l + d
  <2>1. \A i \in 1 .. Len(more) : n + i \in 1 .. n + Len(more) /\ n + i \notin 1 .. n - 1 /\ n + i # n /\ n \notin 1 .. n - 1
    BY <1>5
  <2>2. n \notin 1 .. n - 1
    BY <1>5
  <2> QED
    BY <1>3, <1>5, <1>6, <2>1, <2>2
<1> HIDE DEF next
<1>11. \A k \in 1 .. n - 1 : /\ base[k] \in Nat /\ frames[k].added \in Nat
                             /\ base[k] + frames[k].added <= l
  <2> TAKE k \in 1 .. n - 1
  <2>1. k \in DOMAIN frames
    BY <1>6
  <2>2. frames[k] \in SecondFrames(own) /\ base[k] \in Nat
    BY <1>1, <1>2, <2>1
  <2>3. base[k] + frames[k].added <= l
    BY <1>2, <2>1 DEF HoldsIndexes, l
  <2> QED
    BY <2>2, <2>3 DEF SecondFrames
<1>12. /\ new[n].added = d /\ new[n].path = p
       /\ \A i \in DOMAIN more : new[n + i].added = 0 /\ ~new[n + i].isExit
  BY <1>3, <1>5 DEF d, IsExitFrame, IsChildFrame
<1>13. ASSUME NEW k \in DOMAIN new
       PROVE  /\ next[k] + new[k].added <= Len(both)
              /\ \A j \in DOMAIN new : j < k => next[j] + new[j].added <= next[k]
  <2>1. CASE k \in 1 .. n - 1
    <3>1. next[k] + new[k].added <= Len(both)
      <4>1. base[k] \in Nat /\ frames[k].added \in Nat /\ base[k] + frames[k].added <= l
        BY <1>11, <2>1
      <4>2. next[k] = base[k] /\ new[k] = frames[k]
        BY <1>3, <1>10, <2>1
      <4> QED
        BY <1>4, <1>5, <4>1, <4>2
    <3>2. ASSUME NEW j \in DOMAIN new, j < k
          PROVE  next[j] + new[j].added <= next[k]
      <4>1. j \in 1 .. n - 1 /\ j \in DOMAIN frames /\ k \in DOMAIN frames
        BY <1>6, <2>1, <3>2
      <4> QED
        BY <1>2, <1>3, <1>10, <2>1, <3>2, <4>1 DEF HoldsIndexes
    <3> QED
      BY <3>1, <3>2
  <2>2. CASE k = n
    <3>1. next[k] + new[k].added <= Len(both)
      BY <1>4, <1>5, <1>10, <1>12, <2>2
    <3>2. ASSUME NEW j \in DOMAIN new, j < k
          PROVE  next[j] + new[j].added <= next[k]
      <4>1. j \in 1 .. n - 1
        BY <1>6, <2>2, <3>2
      <4> QED
        BY <1>3, <1>10, <1>11, <2>2, <4>1
    <3> QED
      BY <3>1, <3>2
  <2>3. ASSUME NEW i \in DOMAIN more, k = n + i
        PROVE  /\ next[k] + new[k].added <= Len(both)
               /\ \A j \in DOMAIN new : j < k => next[j] + new[j].added <= next[k]
    <3>1. next[k] = l + d /\ new[k].added = 0
      BY <1>10, <1>12, <2>3
    <3>2. next[k] + new[k].added <= Len(both)
      BY <1>4, <1>5, <3>1
    <3>3. ASSUME NEW j \in DOMAIN new
          PROVE  next[j] + new[j].added <= l + d
      <4>1. CASE j \in 1 .. n - 1
        <5>1. next[j] = base[j] /\ new[j] = frames[j]
          BY <1>3, <1>10, <4>1
        <5>2. base[j] \in Nat /\ frames[j].added \in Nat /\ base[j] + frames[j].added <= l
          BY <1>11, <4>1
        <5> QED
          BY <1>5, <5>1, <5>2
      <4>2. CASE j = n
        BY <1>5, <1>10, <1>12, <4>2
      <4>3. ASSUME NEW m \in DOMAIN more, j = n + m
            PROVE  next[j] + new[j].added <= l + d
        BY <1>5, <1>10, <1>12, <4>3
      <4> QED
        BY <1>6, <4>1, <4>2, <4>3
    <3> QED
      BY <3>1, <3>2, <3>3
  <2> QED
    BY <1>6, <2>1, <2>2, <2>3
<1>14. ASSUME NEW k \in DOMAIN new, new[k].isExit, NEW node \in own, node.path = new[k].path,
              NEW i \in DOMAIN ruleTree[node.rule].keys, ruleTree[node.rule].keys[i].name # ""
       PROVE  \E m \in next[k] + 1 .. next[k] + new[k].added : both[m].name = ruleTree[node.rule].keys[i].name
  <2> DEFINE name == ruleTree[node.rule].keys[i].name
  <2>1. CASE k \in 1 .. n - 1
    <3>1. k \in DOMAIN frames /\ new[k] = frames[k] /\ next[k] = base[k]
      BY <1>3, <1>6, <1>10, <2>1
    <3>2. PICK m \in base[k] + 1 .. base[k] + frames[k].added : all[m].name = name
      BY <1>2, <1>14, <3>1 DEF HoldsIndexes
    <3>3. \A b, a, u \in Nat : b + a <= u => \A q \in b + 1 .. b + a : q \in 1 .. u
      OBVIOUS
    <3>4. m \in 1 .. l
      <4>1. m \in base[k] + 1 .. base[k] + frames[k].added
        BY <3>2
      <4> QED
        BY <1>5, <1>11, <2>1, <3>3, <4>1, Zenon
    <3>5. both[m] = all[m] /\ m \in next[k] + 1 .. next[k] + new[k].added
      BY <1>4, <3>1, <3>4
    <3>6. both[m].name = name
      BY <3>2, <3>5
    <3> QED
      BY <3>5, <3>6, Zenon
  <2>2. CASE k = n
    <3>1. node.path = p /\ new[k].added = d /\ next[k] = l
      BY <1>3, <1>10, <1>12, <1>14, <2>2
    <3>2. PICK m \in 1 .. d : named[m].name = name
      <4>1. \A j \in DOMAIN ruleTree[node.rule].keys : ruleTree[node.rule].keys[j].name # "" =>
              \E m \in 1 .. Len(named) : named[m].name = ruleTree[node.rule].keys[j].name
        BY <3>1 DEF IsExitFrame
      <4> QED
        BY <1>14, <4>1, Zenon DEF d
    <3>3. l + m \in l + 1 .. l + d
      BY <1>5
    <3> QED
      BY <1>4, <3>1, <3>2, <3>3
  <2>3. ~\E m \in DOMAIN more : k = n + m
    BY <1>12, <1>14
  <2> QED
    BY <1>6, <2>1, <2>2, <2>3
<1>15. HoldsIndexes(own, new, both, next)
  BY <1>13, <1>14 DEF HoldsIndexes
<1>16. \E b \in [DOMAIN new -> Nat] : HoldsIndexes(own, new, both, b)
  BY <1>9, <1>15
<1> HIDE DEF SecondFrames, IsEntered, HoldsIndexes, IsSettled
<1> QED
  BY <1>1, <1>3, <1>4, <1>8, <1>16 DEF SecondPass, new, both

\* The second pass goes on with the children of a value, or ends.
LEMMA EnterGoesOn ==
  ASSUME RulesAreAccepted, IsValueTree(document), SecondPass(OwnNodes(document), stack, indexes), EnterValue
  PROVE  /\ phase' # "failed" /\ document' = document
         /\ phase' # "invalid" => SecondPass(OwnNodes(document), stack', indexes')
<1> DEFINE own == OwnNodes(document)
           p == Frame.path
           isUnique == \A i \in DOMAIN Built : ~IsFailure(Built[i])
           all == indexes \o NamedIndexes
           children == ChildrenOf(document, p)
           entered == Among(children, {child \in ToSet(children) :
                        ~child.isDefault /\ child.rule # NoRule /\ ruleTree[child.rule].type # "NotValidated"})
           frames == [i \in DOMAIN entered |-> [path |-> entered[i].path, isExit |-> FALSE, added |-> 0]]
           x == [path |-> p, isExit |-> TRUE, added |-> Len(NamedIndexes)]
<1>1. /\ IsInPass("pass2")
      /\ IF ~isUnique THEN Stop(document, "invalid")
         ELSE IF "failed" \in KeyOutcomes(all) THEN Stop(document, "failed")
         ELSE IF "invalid" \in KeyOutcomes(all) \/ ~DependenciesHold(document, Entered, Entered.rule)
         THEN Stop(document, "invalid")
         ELSE /\ indexes' = all
              /\ stack' = Front(stack) \o <<x>> \o Reverse(frames)
              /\ UNCHANGED <<ruleTree, document, version, runs, phase, useIndexes, useDependencies>>
  BY DEF EnterValue
<1>2. /\ stack # <<>> /\ Len(stack) \in DOMAIN stack /\ Frame = stack[Len(stack)] /\ Frame \in SecondFrames(own)
      /\ p \in Seq(STRING) /\ Entered \in own /\ Entered.path = p /\ IsTree(own)
  BY <1>1, ValueIsEntered
<1>3. indexes \in Seq(ToSet(indexes)) /\ Entered.rule \in DOMAIN ruleTree
  BY <1>2 DEF SecondPass, IsSettled
<1> DEFINE keys == ruleTree[Entered.rule].keys
<1>4. ASSUME isUnique
      PROVE  /\ NamedIndexes \in Seq(ToSet(NamedIndexes))
             /\ \A i \in DOMAIN keys : keys[i].name # "" =>
                  \E n \in 1 .. Len(NamedIndexes) : NamedIndexes[n].name = keys[i].name
  BY <1>2, <1>3, <1>4, NamedAreBuilt
<1>5. ASSUME isUnique
      PROVE  "failed" \notin KeyOutcomes(all)
  <2>1. /\ Len(all) = Len(indexes) + Len(NamedIndexes)
        /\ \A i \in 1 .. Len(indexes) : all[i] = indexes[i]
    <3>1. NamedIndexes \in Seq(ToSet(NamedIndexes))
      BY <1>4, <1>5
    <3> QED
      BY <1>3, <3>1, JoinedSequence
  <2>2. Len(indexes) \in Nat /\ Len(NamedIndexes) \in Nat
    <3>1. NamedIndexes \in Seq(ToSet(NamedIndexes))
      BY <1>4, <1>5
    <3> QED
      BY <1>3, <3>1
  <2> HIDE DEF all
  <2>3. Len(all) \in Nat /\ Len(indexes) <= Len(all)
    BY <2>1, <2>2
  <2> QED
    BY <1>1, <2>1, <2>3, OutcomesDoNotFail
<1>6. ASSUME isUnique
      PROVE  SecondPass(own, Front(stack) \o <<x>> \o Reverse(frames), all)
  <2>1. /\ frames \in Seq(SecondFrames(own))
        /\ \A i \in DOMAIN frames : IsChildFrame(own, frames[i], p)
    <3>1. frames = EnterFrames(EnteredAmong(ChildrenOf(document, p)))
      BY DEF EnterFrames, EnteredAmong
    <3> HIDE DEF p, frames
    <3>2. /\ frames \in Seq(SecondFrames(OwnNodes(document)))
          /\ \A i \in DOMAIN frames :
               /\ ~frames[i].isExit /\ frames[i].added = 0
               /\ frames[i].path # <<>> /\ Front(frames[i].path) = p
               /\ \A node \in OwnNodes(document) : node.path = frames[i].path => ruleTree[node.rule].type # "NotValidated"
      BY <1>2, <3>1, EnteredChildren
    <3> QED
      BY <3>2 DEF IsChildFrame
  <2> DEFINE more == Reverse(frames)
  <2>2. /\ more \in Seq(SecondFrames(own))
        /\ \A i \in DOMAIN more : \E j \in DOMAIN frames : more[i] = frames[j]
    <3> DEFINE S == SecondFrames(own)
    <3>1. frames \in Seq(S)
      BY <2>1
    <3> HIDE DEF S, frames
    <3>2. /\ Reverse(frames) \in Seq(S) /\ DOMAIN Reverse(frames) = DOMAIN frames
          /\ \A i \in DOMAIN frames : /\ Len(frames) - i + 1 \in DOMAIN frames
                                     /\ Reverse(frames)[i] = frames[Len(frames) - i + 1]
      BY <3>1, ReversedSequence
    <3> QED
      BY <3>2 DEF S
  <2>3. IsExitFrame(own, x, p, NamedIndexes)
    <3>1. /\ x = [path |-> p, isExit |-> TRUE, added |-> Len(NamedIndexes)]
          /\ x \in SecondFrames(own)
      <4>1. NamedIndexes \in Seq(ToSet(NamedIndexes))
        BY <1>4, <1>6
      <4>2. Len(NamedIndexes) \in Nat
        BY <4>1
      <4> DEFINE d == Len(NamedIndexes)
                 q == Frame.path
      <4>3. d \in Nat /\ \E node \in own : node.path = q
        BY <1>2, <4>2
      <4> HIDE DEF d, q, own
      <4>4. [path |-> q, isExit |-> TRUE, added |-> d] \in SecondFrames(own)
        BY <4>3, IsSecondFrame
      <4> QED
        BY <4>4, Zenon DEF d, q
    <3>2. \A node \in own : node.path = p => node = Entered
      BY <1>2 DEF IsTree
    <3> HIDE DEF x, own, p
    <3> QED
      BY <1>4, <1>6, <3>1, <3>2 DEF IsExitFrame
  <2>4. SecondPass(own, stack, indexes) /\ stack[Len(stack)].path = p
    BY <1>2
  <2>5. \A i \in DOMAIN more : IsChildFrame(own, more[i], p)
    BY <2>1, <2>2
  <2> HIDE DEF own, p, x, frames, more
  <2>6. SecondPass(own, Front(stack) \o <<x>> \o more, indexes \o NamedIndexes)
    BY <1>2, <1>4, <1>6, <2>2, <2>3, <2>4, <2>5, SecondPassGoesOn
  <2> QED
    BY <2>6 DEF more
<1>7. \/ Stop(document, "invalid")
      \/ /\ isUnique
         /\ indexes' = all /\ stack' = Front(stack) \o <<x>> \o Reverse(frames)
         /\ UNCHANGED <<document, phase>>
  BY <1>1, <1>5
<1> HIDE DEF own, isUnique, all, x, frames
<1> QED
  BY <1>1, <1>6, <1>7 DEF Stop, IsInPass, own

\* A value is left with its indexes.
LEMMA SecondPassEnds ==
  ASSUME NEW own, NEW frames, frames # <<>>, NEW all, SecondPass(own, frames, all)
  PROVE  /\ frames[Len(frames)].added <= Len(all) /\ Len(all) \in Nat /\ frames[Len(frames)].added \in Nat
         /\ SecondPass(own, Front(frames), SubSeq(all, 1, Len(all) - frames[Len(frames)].added))
<1> DEFINE rest == Front(frames)
           n == Len(frames)
           l == Len(all)
           m == l - frames[n].added
           left == SubSeq(all, 1, m)
<1>1. /\ \A node \in own : IsSettled(own, node)
      /\ frames \in Seq(SecondFrames(own)) /\ all \in Seq(ToSet(all))
      /\ \A k \in DOMAIN frames : IsEntered(own, frames, k)
  BY DEF SecondPass
<1>2. PICK base \in [DOMAIN frames -> Nat] : HoldsIndexes(own, frames, all, base)
  BY DEF SecondPass
<1>3. /\ n \in Nat \ {0} /\ rest \in Seq(SecondFrames(own)) /\ Len(rest) = n - 1
      /\ \A i \in 1 .. n - 1 : rest[i] = frames[i]
  BY <1>1, PathParts, Zenon
<1>4. DOMAIN frames = 1 .. n /\ l \in Nat /\ \A i \in 1 .. l : all[i] \in ToSet(all)
  <2> DEFINE S == ToSet(all)
  <2>1. DOMAIN frames = 1 .. n /\ all \in Seq(S)
    BY <1>1
  <2> HIDE DEF S
  <2>2. l \in Nat /\ \A i \in 1 .. l : all[i] \in S
    BY <2>1
  <2> QED
    BY <2>1, <2>2 DEF S
<1> HIDE DEF rest, l, n
<1>5. DOMAIN rest = 1 .. n - 1
  BY <1>3
<1>6. /\ n \in DOMAIN frames /\ \A k \in 1 .. n - 1 : k \in DOMAIN frames /\ k < n
      /\ \A k \in 1 .. n - 1 : \A j \in DOMAIN frames : j < k => j \in 1 .. n - 1
  BY <1>3, <1>4
<1>7. /\ base[n] \in Nat /\ frames[n].added \in Nat /\ base[n] + frames[n].added <= l
      /\ \A k \in 1 .. n - 1 : base[k] \in Nat /\ frames[k].added \in Nat /\ base[k] + frames[k].added <= base[n]
  <2>1. ASSUME NEW k \in DOMAIN frames
        PROVE  base[k] \in Nat /\ frames[k].added \in Nat
    <3>1. frames[k] \in SecondFrames(own)
      BY <1>1
    <3> QED
      BY <1>2, <3>1 DEF SecondFrames
  <2>2. base[n] + frames[n].added <= l
    BY <1>2, <1>6 DEF HoldsIndexes, l
  <2>3. \A k \in 1 .. n - 1 : base[k] + frames[k].added <= base[n]
    BY <1>2, <1>6 DEF HoldsIndexes
  <2> QED
    BY <1>6, <2>1, <2>2, <2>3
<1>8. m \in 0 .. l /\ base[n] <= m /\ frames[n].added <= l
  BY <1>4, <1>7
<1> HIDE DEF m
<1>9. left \in Seq(ToSet(all)) /\ Len(left) = m /\ \A i \in 1 .. m : left[i] = all[i]
  <2> DEFINE S == ToSet(all)
  <2>1. m \in Int /\ \A i \in 1 .. m : all[i] \in S
    BY <1>4, <1>8
  <2> HIDE DEF S, left
  <2>2. /\ SubSeq(all, 1, m) \in Seq(S)
        /\ Len(SubSeq(all, 1, m)) = IF 1 <= m THEN m - 1 + 1 ELSE 0
        /\ \A i \in 1 .. m - 1 + 1 : SubSeq(all, 1, m)[i] = all[1 + i - 1]
    BY <2>1, SubSeqProperties
  <2>3. left = SubSeq(all, 1, m)
    BY DEF left
  <2>4. left \in Seq(S) /\ Len(left) = m /\ \A i \in 1 .. m : left[i] = all[i]
    BY <1>8, <2>2, <2>3
  <2> QED
    BY <2>4 DEF S
<1> HIDE DEF left
<1>10. left \in Seq(ToSet(left))
  BY <1>9, IsOfItsElements
<1>11. ASSUME NEW k \in DOMAIN rest
       PROVE  IsEntered(own, rest, k)
  <2>1. IsEntered(own, frames, k) /\ rest[k] = frames[k]
    BY <1>1, <1>3, <1>5, <1>6
  <2>2. \A j \in DOMAIN frames : j < k => j \in DOMAIN rest /\ rest[j] = frames[j]
    BY <1>3, <1>5, <1>6
  <2> QED
    BY <2>1, <2>2 DEF IsEntered
<1> DEFINE next == [k \in DOMAIN rest |-> base[k]]
<1>12. next \in [DOMAIN rest -> Nat] /\ \A k \in DOMAIN rest : next[k] = base[k] /\ rest[k] = frames[k]
  BY <1>3, <1>5, <1>7
<1> HIDE DEF next
<1>13. ASSUME NEW k \in DOMAIN rest
       PROVE  /\ next[k] + rest[k].added <= Len(left)
              /\ \A j \in DOMAIN rest : j < k => next[j] + rest[j].added <= next[k]
  <2>1. next[k] + rest[k].added <= Len(left)
    <3>1. /\ base[k] \in Nat /\ frames[k].added \in Nat /\ base[k] + frames[k].added <= base[n]
          /\ next[k] = base[k] /\ rest[k] = frames[k]
      BY <1>5, <1>7, <1>12
    <3> QED
      BY <1>7, <1>8, <1>9, <3>1
  <2>2. ASSUME NEW j \in DOMAIN rest, j < k
        PROVE  next[j] + rest[j].added <= next[k]
    BY <1>2, <1>5, <1>6, <1>12, <2>2 DEF HoldsIndexes
  <2> QED
    BY <2>1, <2>2
<1>14. ASSUME NEW k \in DOMAIN rest, rest[k].isExit, NEW node \in own, node.path = rest[k].path,
              NEW i \in DOMAIN ruleTree[node.rule].keys, ruleTree[node.rule].keys[i].name # ""
       PROVE  \E d \in next[k] + 1 .. next[k] + rest[k].added : left[d].name = ruleTree[node.rule].keys[i].name
  <2> DEFINE name == ruleTree[node.rule].keys[i].name
  <2>1. k \in DOMAIN frames /\ rest[k] = frames[k] /\ next[k] = base[k] /\ k \in 1 .. n - 1
    BY <1>5, <1>6, <1>12
  <2>2. PICK d \in base[k] + 1 .. base[k] + frames[k].added : all[d].name = name
    BY <1>2, <1>14, <2>1 DEF HoldsIndexes
  <2> HIDE DEF name
  <2>3. \A b, a, u, v \in Nat : b + a <= u /\ u <= v => \A q \in b + 1 .. b + a : q \in 1 .. v
    OBVIOUS
  <2>4. d \in 1 .. m
    <3>1. d \in base[k] + 1 .. base[k] + frames[k].added
      BY <2>2
    <3>2. m \in Nat
      BY <1>4, <1>8
    <3> QED
      BY <1>7, <1>8, <2>1, <2>3, <3>1, <3>2, Zenon
  <2>5. left[d] = all[d] /\ d \in next[k] + 1 .. next[k] + rest[k].added
    BY <1>9, <2>1, <2>4
  <2>6. left[d].name = name
    BY <2>2, <2>5
  <2> QED
    BY <2>5, <2>6, Zenon DEF name
<1>15. \E b \in [DOMAIN rest -> Nat] : HoldsIndexes(own, rest, left, b)
  <2>1. HoldsIndexes(own, rest, left, next)
    BY <1>13, <1>14 DEF HoldsIndexes
  <2> QED
    BY <1>12, <2>1
<1>16. SecondPass(own, rest, left)
  BY <1>1, <1>3, <1>10, <1>11, <1>15 DEF SecondPass
<1> QED
  BY <1>4, <1>7, <1>8, <1>16 DEF rest, left, m, n, l

LEMMA ExitGoesOn ==
  ASSUME SecondPass(OwnNodes(document), stack, indexes), ExitValue
  PROVE  /\ phase' # "failed" /\ document' = document
         /\ SecondPass(OwnNodes(document), stack', indexes')
<1> DEFINE added == stack[Len(stack)].added
<1>1. stack # <<>> /\ Frame.added = added /\ IsInPass("pass2")
  BY DEF ExitValue, IsInPass, Frame, Last
<1>2. /\ added <= Len(indexes) /\ Len(indexes) \in Nat /\ added \in Nat
      /\ SecondPass(OwnNodes(document), Front(stack), SubSeq(indexes, 1, Len(indexes) - added))
  BY <1>1, SecondPassEnds
<1> HIDE DEF added
<1>3. ~(Len(indexes) < Frame.added)
  BY <1>1, <1>2
<1>4. /\ indexes' = SubSeq(indexes, 1, Len(indexes) - added) /\ stack' = Front(stack)
      /\ phase' = phase /\ document' = document
  BY <1>1, <1>3 DEF ExitValue, DropIndexes
<1> QED
  BY <1>1, <1>2, <1>4 DEF IsInPass

\* The second pass starts at the document, after each value was tested.
LEMMA SecondPassStarts ==
  ASSUME NEW own, IsTree(own), FirstPass(own, <<>>)
  PROVE  SecondPass(own, <<[path |-> <<>>, isExit |-> FALSE, added |-> 0]>>, <<>>)
<1> DEFINE top == [path |-> <<>>, isExit |-> FALSE, added |-> 0]
           frames == <<top>>
           base == [k \in DOMAIN frames |-> 0]
<1>1. \A node \in own : IsSettled(own, node)
  BY DEF FirstPass
<1>2. \E node \in own : node.path = <<>>
  BY DEF IsTree
<1>3. top \in SecondFrames(own)
  BY <1>2, IsSecondFrame
<1>4. top.path = <<>> /\ ~top.isExit /\ top.added = 0
  OBVIOUS
<1> HIDE DEF top
<1>5. DOMAIN frames = {1} /\ frames[1] = top /\ frames \in Seq(SecondFrames(own))
  BY <1>3
<1> HIDE DEF frames
<1>6. \A k \in DOMAIN frames : IsEntered(own, frames, k)
  BY <1>4, <1>5 DEF IsEntered
<1>7. base \in [DOMAIN frames -> Nat] /\ base[1] = 0
  BY <1>5
<1> HIDE DEF base
<1>8. HoldsIndexes(own, frames, <<>>, base)
  <2>1. PICK none : none = <<>> /\ Len(none) = 0
    OBVIOUS
  <2>2. base[1] + frames[1].added <= Len(none) /\ ~frames[1].isExit
    BY <1>4, <1>5, <1>7, <2>1
  <2>3. \A k \in DOMAIN frames : k = 1 /\ \A j \in DOMAIN frames : ~(j < k)
    BY <1>5
  <2>4. HoldsIndexes(own, frames, none, base)
    BY <2>2, <2>3 DEF HoldsIndexes
  <2> QED
    BY <2>1, <2>4
<1>9. <<>> \in Seq(ToSet(<<>>))
  OBVIOUS
<1>10. SecondPass(own, frames, <<>>)
  BY <1>1, <1>5, <1>6, <1>7, <1>8, <1>9 DEF SecondPass
<1> QED
  BY <1>10 DEF frames, top

\* What is known in the second pass does not change with the rules and the version.
LEMMA SecondPassStays ==
  ASSUME NEW own, NEW frames, NEW all, SecondPass(own, frames, all), ruleTree' = ruleTree, version' = version
  PROVE  SecondPass(own, frames, all)'
<1>1. \A r : SectionRule(r)' = SectionRule(r) /\ (IsAlternative(r)' <=> IsAlternative(r))
  BY DEF SectionRule, IsAlternative
<1>2. ASSUME NEW r, NEW entry
      PROVE  EntryRule(r, entry)' = EntryRule(r, entry)
  BY DEF EntryRule, MatchingAlternative, IsActive, PassesConstraints
<1>3. ASSUME NEW r, NEW entries
      PROVE  PassesEntries(r, entries)' <=> PassesEntries(r, entries)
  BY <1>2 DEF PassesEntries
<1>4. ASSUME NEW node
      PROVE  IsSettled(own, node)' <=> IsSettled(own, node)
  BY <1>1, <1>3 DEF IsSettled, IsBelowRule
<1>5. /\ \A k : IsEntered(own, frames, k)' <=> IsEntered(own, frames, k)
      /\ \A base : HoldsIndexes(own, frames, all, base)' <=> HoldsIndexes(own, frames, all, base)
  BY DEF IsEntered, HoldsIndexes
<1> QED
  BY <1>4, <1>5 DEF SecondPass

\* The first pass starts at the document.
LEMMA FirstPassStarts ==
  ASSUME RulesAreAccepted, ruleTree' = ruleTree, NEW own, IsTree(own)
  PROVE  FirstPass(own, <<[path |-> <<>>, rule |-> Root]>>)'
<1> DEFINE top == [path |-> <<>>, rule |-> Root]
           frames == <<top>>
<1>1. \E node \in own : node.path = <<>>
  BY DEF IsTree
<1>2. Root \in DOMAIN ruleTree
  BY RulesAreTyped DEF RulesAreAccepted
<1>3. top \in TestFrames(own)'
  <2> DEFINE paths == {node.path : node \in own}
             tree == DOMAIN ruleTree
  <2>1. <<>> \in paths /\ Root \in tree
    BY <1>1, <1>2
  <2>2. TestFrames(own)' = [path : paths, rule : tree]
    BY DEF TestFrames
  <2> HIDE DEF paths, tree
  <2> QED
    BY <2>1, <2>2
<1>4. top.path = <<>> /\ top.rule = Root
  OBVIOUS
<1> HIDE DEF top
<1>5. IsTestFrame(own, top)'
  <2>1. \A node \in own, above \in own : IsIn(node, above) => node.path # <<>>
    BY DEF IsIn
  <2> QED
    BY <1>4, <2>1 DEF IsTestFrame, IsBelowRule
<1>6. DOMAIN frames = {1} /\ frames[1] = top /\ frames \in Seq(TestFrames(own)')
  BY <1>3
<1> HIDE DEF frames
<1>7. ASSUME NEW node \in own
      PROVE  \E k \in DOMAIN frames : IsPrefix(frames[k].path, node.path)
  <2>1. node.path \in Seq(STRING)
    BY DEF IsTree
  <2>2. IsPrefix(<<>>, node.path)
    BY <2>1, PrefixFacts
  <2> QED
    BY <1>4, <1>6, <2>2
<1>8. \A j, k \in DOMAIN frames : j = k
  BY <1>6
<1>9. FirstPass(own, frames)'
  BY <1>5, <1>6, <1>7, <1>8 DEF FirstPass
<1> QED
  BY <1>9 DEF frames, top

\* What is known of the validation: without stray rules, the values of the document are a
\* tree, and in each pass the values are tested or wait for it.
IsOnTheWay ==
  /\ IsValueTree(document) /\ phase # "failed"
  /\ phase = "pass1" => FirstPass(OwnNodes(document), stack) /\ indexes = <<>>
  /\ phase = "pass2" => SecondPass(OwnNodes(document), stack, indexes)
ValidatorInv == RulesAreAccepted /\ (~HasStrayRules => IsOnTheWay)

\* A step of a pass, and the end of a validation.
LEMMA ValidationGoesOn ==
  ASSUME ruleTree' = ruleTree, version' = version, IsValueTree(document'),
         \/ phase' \in {"valid", "invalid", "idle"}
         \/ phase' = "pass1" /\ FirstPass(OwnNodes(document'), stack') /\ indexes' = <<>>
         \/ phase' = "pass2" /\ SecondPass(OwnNodes(document'), stack', indexes')
  PROVE  IsOnTheWay'
<1>1. OwnNodes(document)' = OwnNodes(document') /\ (IsValueTree(document)' <=> IsValueTree(document'))
  BY DEF OwnNodes, NodesIn, IsValueTree, IsValue, IsIn, NameOf
<1>2. PICK own, frames, all : own = OwnNodes(document') /\ frames = stack' /\ all = indexes'
  OBVIOUS
<1>3. FirstPass(own, frames) => FirstPass(own, frames)'
  BY FirstPassStays
<1>4. SecondPass(own, frames, all) => SecondPass(own, frames, all)'
  BY SecondPassStays
<1>5. FirstPass(own, frames)' => FirstPass(OwnNodes(document), stack)'
  BY <1>1, <1>2 DEF FirstPass, TestFrames, IsTestFrame, IsBelowRule, IsSettled
<1>6. SecondPass(own, frames, all)' => SecondPass(OwnNodes(document), stack, indexes)'
  BY <1>1, <1>2 DEF SecondPass
<1> QED
  BY <1>1, <1>2, <1>3, <1>4, <1>5, <1>6 DEF IsOnTheWay

\* Each step, without stray rules.
LEMMA NextIsOnTheWay ==
  ASSUME RulesAreAccepted, ~HasStrayRules, IsOnTheWay, NextValidator
  PROVE  IsOnTheWay'
<1>1. IsValueTree(document) /\ phase # "failed"
  BY DEF IsOnTheWay
<1>2. IsTree(OwnNodes(document))
  BY <1>1, TreeOfValues
<1>3. CASE Validate
  <2>1. ruleTree' = ruleTree /\ document' = document /\ indexes' = <<>>
        /\ \/ phase' = "valid"
           \/ phase' = "pass1" /\ stack' = <<[path |-> <<>>, rule |-> Root]>>
    BY <1>3 DEF Validate
  <2>2. IsValueTree(document)' /\ OwnNodes(document)' = OwnNodes(document)
    BY <1>1, <2>1 DEF IsValueTree, OwnNodes, NodesIn, IsValue, IsIn, NameOf
  <2>3. CASE phase' = "valid"
    BY <2>2, <2>3 DEF IsOnTheWay
  <2>4. CASE phase' = "pass1" /\ stack' = <<[path |-> <<>>, rule |-> Root]>>
    <3>1. PICK own : own = OwnNodes(document)
      OBVIOUS
    <3>2. FirstPass(own, <<[path |-> <<>>, rule |-> Root]>>)'
      BY <1>2, <2>1, <3>1, FirstPassStarts
    <3>3. own = OwnNodes(document)'
      BY <2>2, <3>1
    <3>4. FirstPass(OwnNodes(document), stack)'
      BY <2>4, <3>2, <3>3
    <3> QED
      BY <2>1, <2>2, <2>4, <3>4 DEF IsOnTheWay
  <2> QED
    BY <2>1, <2>3, <2>4
<1>4. CASE RefuseValue
  <2>1. /\ ruleTree' = ruleTree /\ version' = version /\ document' = Cleaned /\ phase' = "invalid"
        /\ IsInPass("pass1")
    BY <1>4 DEF RefuseValue, Stop
  <2>2. FirstPass(OwnNodes(document), stack)
    BY <2>1 DEF IsInPass, IsOnTheWay
  <2>3. IsValueTree(document')
    BY <1>1, <2>1, <2>2, ValueIsTested
  <2> QED
    BY <2>1, <2>3, ValidationGoesOn
<1>5. ASSUME SkipBranch \/ AcceptList
      PROVE  IsOnTheWay'
  <2>1. /\ ruleTree' = ruleTree /\ version' = version /\ indexes' = indexes /\ phase' = phase /\ phase = "pass1"
    BY <1>5 DEF SkipBranch, AcceptList, Proceed, IsAccepted, IsInPass
  <2>2. FirstPass(OwnNodes(document), stack) /\ indexes = <<>>
    BY <2>1 DEF IsOnTheWay
  <2>3. IsValueTree(document') /\ FirstPass(OwnNodes(document'), stack')
    BY <1>1, <1>5, <2>2, BranchIsSettled, ListIsSettled
  <2> QED
    BY <2>1, <2>2, <2>3, ValidationGoesOn
<1>6. CASE Descend
  <2>1. /\ ruleTree' = ruleTree /\ version' = version /\ indexes' = indexes /\ phase = "pass1"
        /\ phase' \in {phase, "failed", "invalid"}
    BY <1>6 DEF Descend, VisitChildren, Complete, Stop, Proceed, IsAccepted, IsInPass
  <2>2. FirstPass(OwnNodes(document), stack) /\ indexes = <<>>
    BY <2>1 DEF IsOnTheWay
  <2>3. /\ phase' # "failed" /\ IsValueTree(document')
        /\ phase' # "invalid" => FirstPass(OwnNodes(document'), stack')
    BY <1>1, <1>6, <2>2, DescentGoesOn
  <2> QED
    BY <2>1, <2>2, <2>3, ValidationGoesOn
<1>7. CASE EndPass1
  <2>1. /\ ruleTree' = ruleTree /\ version' = version /\ document' = document /\ indexes' = indexes
        /\ phase = "pass1" /\ stack = <<>>
        /\ \/ phase' = "valid"
           \/ phase' = "pass2" /\ stack' = <<[path |-> <<>>, isExit |-> FALSE, added |-> 0]>>
    BY <1>7 DEF EndPass1
  <2>2. FirstPass(OwnNodes(document), <<>>) /\ indexes = <<>>
    BY <2>1 DEF IsOnTheWay
  <2>3. SecondPass(OwnNodes(document), <<[path |-> <<>>, isExit |-> FALSE, added |-> 0]>>, <<>>)
    BY <1>2, <2>2, SecondPassStarts
  <2> QED
    BY <1>1, <2>1, <2>2, <2>3, ValidationGoesOn
<1>8. CASE EnterValue
  <2>1. /\ ruleTree' = ruleTree /\ version' = version /\ phase = "pass2"
        /\ phase' \in {phase, "failed", "invalid"}
    BY <1>8 DEF EnterValue, Stop, IsInPass
  <2>2. SecondPass(OwnNodes(document), stack, indexes)
    BY <2>1 DEF IsOnTheWay
  <2>3. /\ phase' # "failed" /\ document' = document
        /\ phase' # "invalid" => SecondPass(OwnNodes(document), stack', indexes')
    BY <1>1, <1>8, <2>2, EnterGoesOn
  <2> QED
    BY <1>1, <2>1, <2>3, ValidationGoesOn
<1>9. CASE ExitValue
  <2>1. ruleTree' = ruleTree /\ version' = version /\ phase = "pass2" /\ phase' \in {phase, "failed"}
    BY <1>9 DEF ExitValue, IsInPass, Stop
  <2>2. SecondPass(OwnNodes(document), stack, indexes)
    BY <2>1 DEF IsOnTheWay
  <2>3. phase' # "failed" /\ document' = document /\ SecondPass(OwnNodes(document), stack', indexes')
    BY <1>9, <2>2, ExitGoesOn
  <2> QED
    BY <1>1, <2>1, <2>3, ValidationGoesOn
<1>10. CASE EndPass2
  <2>1. ruleTree' = ruleTree /\ version' = version /\ document' = document /\ phase' = "valid"
    BY <1>10 DEF EndPass2
  <2> QED
    BY <1>1, <2>1, ValidationGoesOn
<1> QED
  BY <1>3, <1>4, <1>5, <1>6, <1>7, <1>8, <1>9, <1>10 DEF NextValidator

\* A validation never ends with an assertion, for all trees of rules that passed their own
\* tests, without stray rules, all documents, and all sequences of validations as any
\* version: references find an index, keys are texts or integers, each entry has a rule,
\* and defaults are added to sections.  (REQUIRE_SAFETY and REQUIRE_DEBUG in
\* DocumentValidator*.cpp; Value::addValue.)
THEOREM ValidatorAsserts == SpecValidator => []OnlyStrayRulesFail
<1>1. InitValidator => ValidatorInv
  <2> SUFFICES ASSUME InitValidator
               PROVE  ValidatorInv
    OBVIOUS
  <2>1. PICK instance \in Instances :
          ruleTree = instance.rules /\ document = instance.document /\ phase = "idle"
    BY DEF InitValidator
  <2>2. /\ IsRuleTree(instance.rules) /\ instance.rules[Root].type = "Section"
        /\ \A r \in DOMAIN instance.rules : AcceptsRule(instance.rules, r) /\ KeysAreListed(instance.rules[r])
        /\ IsValueTree(instance.document)
    BY InstancesAssumption
  <2>3. RulesAreAccepted
    BY <2>1, <2>2 DEF RulesAreAccepted
  <2>4. IsValueTree(document)
    BY <2>1, <2>2
  <2> QED
    BY <2>1, <2>3, <2>4 DEF ValidatorInv, IsOnTheWay
<1>2. ValidatorInv /\ [NextValidator]_validatorVars => ValidatorInv'
  <2> SUFFICES ASSUME ValidatorInv, [NextValidator]_validatorVars
               PROVE  ValidatorInv'
    OBVIOUS
  <2>1. ruleTree' = ruleTree
    BY DEF NextValidator, Validate, RefuseValue, SkipBranch, AcceptList, Descend, VisitChildren, Complete, EndPass1,
           EnterValue, ExitValue, EndPass2, Stop, Proceed, validatorVars
  <2>2. RulesAreAccepted /\ RulesAreAccepted'
    BY <2>1 DEF ValidatorInv, RulesAreAccepted
  <2>3. HasStrayRules' <=> HasStrayRules
    BY <2>1 DEF HasStrayRules
  <2> SUFFICES ASSUME ~HasStrayRules
               PROVE  IsOnTheWay'
    BY <2>2, <2>3 DEF ValidatorInv
  <2>4. IsOnTheWay
    BY DEF ValidatorInv
  <2>5. CASE NextValidator
    BY <2>2, <2>4, <2>5, NextIsOnTheWay
  <2>6. CASE UNCHANGED validatorVars
    <3>1. /\ ruleTree' = ruleTree /\ version' = version /\ document' = document
          /\ phase' = phase /\ stack' = stack /\ indexes' = indexes
      BY <2>6 DEF validatorVars
    <3>2. \/ phase = "pass1" /\ FirstPass(OwnNodes(document), stack) /\ indexes = <<>>
          \/ phase = "pass2" /\ SecondPass(OwnNodes(document), stack, indexes)
          \/ phase \notin {"pass1", "pass2", "failed"}
      BY <2>4 DEF IsOnTheWay
    <3>3. CASE phase \in {"pass1", "pass2"}
      BY <2>4, <3>1, <3>2, <3>3, ValidationGoesOn DEF IsOnTheWay
    <3>4. CASE phase \notin {"pass1", "pass2"}
      <4>1. IsValueTree(document)'
        BY <2>4, <3>1 DEF IsOnTheWay, IsValueTree, OwnNodes, NodesIn, IsValue, IsIn, NameOf
      <4> QED
        BY <2>4, <3>1, <3>4, <4>1 DEF IsOnTheWay
    <3> QED
      BY <3>3, <3>4
  <2> QED
    BY <2>5, <2>6
<1>3. ValidatorInv => OnlyStrayRulesFail
  BY DEF ValidatorInv, IsOnTheWay, OnlyStrayRulesFail
<1> QED
  BY <1>1, <1>2, <1>3, PTL DEF SpecValidator
=============================================================================
