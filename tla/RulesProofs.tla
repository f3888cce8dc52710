------------------------------ MODULE RulesProofs ------------------------------
(***************************************************************************)
(* Proofs about RulesBuilder, for every rules document: templates of any   *)
(* size, used at any place.  The lemmas about folds are also about those   *)
(* of DocumentValidator, for ValidatorProofs.                              *)
(***************************************************************************)
EXTENDS RulesBuilder, DocumentValidator, FiniteSetTheorems, SequenceTheorems, WellFoundedInduction, TLAPS

-----------------------------------------------------------------------------
(* The inductive invariant.                                                *)

NodeItems == [kind : {"node"}, node : DOMAIN definition]
TemplateItems == [kind : {"template"}, node : DOMAIN definition, rule : DOMAIN rules]
Items == {k \in DOMAIN work : work[k].kind = "node"}
Markers == {k \in DOMAIN work : work[k].kind = "template"}
ItemNode(k) == definition[work[k].node]

\* Nodes of a template stand in front of the marker that ends it, all others behind it.
WorkIsOrdered ==
  /\ work \in Seq(NodeItems \cup TemplateItems)
  /\ templatePath \in Seq(STRING)
  /\ \A m \in Markers : templatePath # <<>> /\ Markers = {m}
  /\ \A k \in Items :
       IF IsTemplate(ItemNode(k))
       THEN Len(ItemNode(k).path) > 2 /\ \E m \in Markers : k < m
       ELSE ~IsSkipped(ItemNode(k)) /\ \A m \in Markers : m < k

\* The section around a node comes before it, unless its rule is there already.
IsSupported(k) ==
  \/ HasParent(rules, RulePath(ItemNode(k)))
  \/ IsTemplate(ItemNode(k)) /\ IsListedIn(ItemNode(k), {"vr_key", "vr_dependency"})
  \/ \E l \in Items : l < k /\ ItemNode(l).path = Front(ItemNode(k).path)

\* What lies in a node of a template comes behind it.
HasChildrenBehind(k) ==
  IsTemplate(ItemNode(k)) =>
    \A i \in DOMAIN definition :
      definition[i].path # <<>> /\ Front(definition[i].path) = ItemNode(k).path =>
        \E l \in Items : k < l /\ work[l].node = i

\* The entries of a list of keys or dependencies in a template, which are refused.
IsDoomed(k) ==
  /\ IsTemplate(ItemNode(k)) /\ Len(ItemNode(k).path) > 3
  /\ IsListedIn(ItemNode(k), {"vr_key", "vr_dependency"})

OwnPaths == {n.path : n \in {m \in NodesOf(definition) : ~IsSkipped(m) /\ BecomesRule(m)}}
MovedPaths(user) ==
  {user.path \o SubSeq(n.path, 3, Len(n.path)) :
     n \in {m \in NodesOf(definition) : Len(m.path) > 2 /\ IsPrefix(TemplateOf(user).path, m.path)}}
AllMovedPaths == UNION {MovedPaths(user) : user \in {n \in NodesOf(definition) : UsesTemplate(n)}}

ReadPaths == {rules[r].path : r \in 2 .. Len(rules)}
PendingPaths ==
  {RulePath(ItemNode(k)) : k \in {l \in Items : IsTemplate(ItemNode(l)) \/ BecomesRule(ItemNode(l))}}
PendingMoves == UNION {MovedPaths(ItemNode(k)) : k \in {l \in Items : UsesTemplate(ItemNode(l))}}

\* What was read and what is still to be read is what the definition has.
NothingIsForgotten ==
  \/ \E k \in Items : IsDoomed(k)
  \/ ReadPaths \cup PendingPaths \cup PendingMoves = OwnPaths \cup AllMovedPaths

ReadSoFar ==
  /\ definition \in Definitions
  /\ IsRuleTree(rules)
  /\ WorkIsOrdered
  /\ \A k \in Items : IsSupported(k)
  /\ \A k \in Items : HasChildrenBehind(k)
  /\ NothingIsForgotten

Inv ==
  /\ ReadSoFar
  /\ status \in {"read", "accepted"} => work = <<>>

-----------------------------------------------------------------------------
(* The folds of the modules, the way to a rule, the walk over the document *)
(* and the values of a node, are taken step by step.                       *)

\* What holds at the start of a range and is handed on holds everywhere in it.
LEMMA RangeInduction ==
  ASSUME NEW n \in Nat, NEW S, 0 \in S, \A i \in 0 .. n - 1 : i \in S => i + 1 \in S
  PROVE  \A i \in 0 .. n : i \in S
<1> DEFINE Lacking == (0 .. n) \ S
           Less == OpToRel(<, Nat)
<1> SUFFICES ASSUME Lacking # {} PROVE FALSE
  OBVIOUS
<1>1. Lacking \subseteq Nat
  OBVIOUS
<1>2. IsWellFoundedOn(Less, Nat)
  BY NatLessThanWellFounded
<1>3. PICK i \in Lacking : \A j \in Lacking : ~(<<j, i>> \in Less)
  <2> HIDE DEF Lacking, Less
  <2> QED
    BY <1>1, <1>2, WFMin
<1>4. i \in 1 .. n /\ i \notin S
  OBVIOUS
<1>5. i - 1 \in 0 .. n - 1 /\ (i - 1) + 1 = i /\ i - 1 \in Nat /\ i - 1 < i /\ i \in Nat
  BY <1>4
<1>6. i - 1 \notin S
  BY <1>4, <1>5
<1>7. i - 1 \in Lacking
  BY <1>5, <1>6
<1>8. <<i - 1, i>> \in Less
  BY <1>5 DEF OpToRel
<1> QED
  BY <1>3, <1>7, <1>8

Step(v, x, kind, of) ==
  CASE kind = "way" -> Child(of, v, x)
    [] kind = "visit" -> IF of.doc[x] \in of.nodes THEN Append(v, [kind |-> "node", node |-> x]) ELSE v
    [] kind = "values" -> HandleConstraintAndAttributes(v, x, of)
    [] kind = "children" -> IF of.rules[x].parent = of.parent THEN Append(v, x) ELSE v
    [] kind = "up" -> IF of[Last(v)].parent = NoRule THEN v ELSE Append(v, of[Last(v)].parent)
    [] kind = "among" -> IF x \in of THEN Append(v, x) ELSE v
    [] kind = "defaults" -> AddDefault(v, x, of)
    [] kind = "index" -> AddEntry(v, x, of.doc, of.definition)

FoldKinds == {"way", "visit", "values", "children", "up", "among", "defaults", "index"}

Fold(start, seq, kind, of) ==
  CASE kind = "way" -> FoldLeft(LAMBDA parent, name : Child(of, parent, name), start, seq)
    [] kind = "visit" -> FoldLeft(LAMBDA items, i :
                           IF of.doc[i] \in of.nodes THEN Append(items, [kind |-> "node", node |-> i]) ELSE items,
                           start, seq)
    [] kind = "values" -> FoldLeft(LAMBDA r, v : HandleConstraintAndAttributes(r, v, of), start, seq)
    [] kind = "children" -> FoldLeft(LAMBDA list, i :
                              IF of.rules[i].parent = of.parent THEN Append(list, i) ELSE list,
                              start, seq)
    [] kind = "up" -> FoldLeft(LAMBDA chain, i :
                        IF of[Last(chain)].parent = NoRule THEN chain ELSE Append(chain, of[Last(chain)].parent),
                        start, seq)
    [] kind = "among" -> FoldLeft(LAMBDA found, x : IF x \in of THEN Append(found, x) ELSE found, start, seq)
    [] kind = "defaults" -> FoldLeft(LAMBDA result, r : AddDefault(result, r, of), start, seq)
    [] kind = "index" -> FoldLeft(LAMBDA index, entry : AddEntry(index, entry, of.doc, of.definition), start, seq)

\* The equation that defines the fold of the first n elements, for every set of them.
IsFold(f, start, seq, n, kind, of) ==
  f = [s \in SUBSET (1 .. n) |->
         IF s = {} THEN start ELSE Step(f[s \ {Max(s)}], seq[Max(s)], kind, of)]

LEMMA FoldIsChosen ==
  ASSUME NEW start, NEW seq, NEW n, DOMAIN seq = 1 .. n, NEW kind \in FoldKinds, NEW of
  PROVE  Fold(start, seq, kind, of) = (CHOOSE f : IsFold(f, start, seq, n, kind, of))[1 .. n]
<1>1. CASE kind = "way"
  BY <1>1 DEF Fold, FoldLeft, MapThenFoldSet, IsFold, Step
<1>2. CASE kind = "visit"
  BY <1>2 DEF Fold, FoldLeft, MapThenFoldSet, IsFold, Step
<1>3. CASE kind = "values"
  BY <1>3 DEF Fold, FoldLeft, MapThenFoldSet, IsFold, Step
<1>4. CASE kind = "children"
  BY <1>4 DEF Fold, FoldLeft, MapThenFoldSet, IsFold, Step
<1>5. CASE kind = "up"
  BY <1>5 DEF Fold, FoldLeft, MapThenFoldSet, IsFold, Step
<1>6. CASE kind = "among"
  BY <1>6 DEF Fold, FoldLeft, MapThenFoldSet, IsFold, Step
<1>7. CASE kind = "defaults"
  BY <1>7 DEF Fold, FoldLeft, MapThenFoldSet, IsFold, Step
<1>8. CASE kind = "index"
  BY <1>8 DEF Fold, FoldLeft, MapThenFoldSet, IsFold, Step
<1> QED
  BY <1>1, <1>2, <1>3, <1>4, <1>5, <1>6, <1>7, <1>8 DEF FoldKinds

LEMMA GreatestOfRange ==
  ASSUME NEW i \in Nat, NEW s \in SUBSET (1 .. i + 1), i + 1 \in s
  PROVE  Max(s) = i + 1
<1>1. \A x \in s : x \in Nat /\ x <= i + 1
  OBVIOUS
<1>2. \A x \in s : (\A y \in s : x >= y) => x = i + 1
  BY <1>1
<1>3. \A y \in s : i + 1 >= y
  BY <1>1
<1> QED
  BY <1>2, <1>3 DEF Max

LEMMA FoldExists ==
  ASSUME NEW start, NEW seq, NEW n \in Nat, NEW kind, NEW of
  PROVE  \E f : IsFold(f, start, seq, n, kind, of)
<1> DEFINE S == {i \in 0 .. n : \E f : IsFold(f, start, seq, i, kind, of)}
<1>1. 0 \in S
  <2> DEFINE f == [s \in SUBSET (1 .. 0) |-> start]
  <2>1. \A s \in SUBSET (1 .. 0) : s = {}
    OBVIOUS
  <2>2. f = [s \in SUBSET (1 .. 0) |->
               IF s = {} THEN start ELSE Step(f[s \ {Max(s)}], seq[Max(s)], kind, of)]
    BY <2>1
  <2> QED
    BY <2>2 DEF IsFold
<1>2. ASSUME NEW i \in 0 .. n - 1, i \in S
      PROVE  i + 1 \in S
  <2>1. PICK f : IsFold(f, start, seq, i, kind, of)
    BY <1>2
  <2> DEFINE g == [s \in SUBSET (1 .. i + 1) |->
                     IF i + 1 \in s THEN Step(f[s \ {i + 1}], seq[i + 1], kind, of) ELSE f[s]]
  <2>2. i \in Nat /\ i + 1 \in 0 .. n
    OBVIOUS
  <2>3. f = [s \in SUBSET (1 .. i) |->
               IF s = {} THEN start ELSE Step(f[s \ {Max(s)}], seq[Max(s)], kind, of)]
    BY <2>1 DEF IsFold
  <2>4. ASSUME NEW s \in SUBSET (1 .. i + 1)
        PROVE  g[s] = IF s = {} THEN start ELSE Step(g[s \ {Max(s)}], seq[Max(s)], kind, of)
    <3>1. CASE i + 1 \in s
      <4>1. Max(s) = i + 1
        BY <2>2, <3>1, GreatestOfRange
      <4>2. s \ {i + 1} \in SUBSET (1 .. i + 1) /\ i + 1 \notin s \ {i + 1}
        OBVIOUS
      <4>3. g[s \ {i + 1}] = f[s \ {i + 1}]
        BY <4>2
      <4>4. g[s] = Step(f[s \ {i + 1}], seq[i + 1], kind, of)
        BY <3>1
      <4> HIDE DEF g
      <4> QED
        BY <3>1, <4>1, <4>3, <4>4
    <3>2. CASE i + 1 \notin s
      <4>1. s \in SUBSET (1 .. i)
        BY <2>2, <3>2
      <4>2. s \ {Max(s)} \in SUBSET (1 .. i + 1) /\ i + 1 \notin s \ {Max(s)}
        BY <3>2
      <4>3. g[s] = f[s] /\ g[s \ {Max(s)}] = f[s \ {Max(s)}]
        BY <3>2, <4>2
      <4>4. f[s] = IF s = {} THEN start ELSE Step(f[s \ {Max(s)}], seq[Max(s)], kind, of)
        BY <2>3, <4>1
      <4> HIDE DEF g
      <4> QED
        BY <4>3, <4>4
    <3> QED
      BY <3>1, <3>2
  <2>5. IsFold(g, start, seq, i + 1, kind, of)
    <3>1. g = [s \in SUBSET (1 .. i + 1) |-> g[s]]
      OBVIOUS
    <3> HIDE DEF g
    <3> QED
      BY <2>4, <3>1 DEF IsFold
  <2> QED
    BY <2>2, <2>5
<1> HIDE DEF S
<1>3. n \in S
  BY <1>1, <1>2, RangeInduction
<1> QED
  BY <1>3 DEF S

LEMMA FoldIsLast ==
  ASSUME NEW start, NEW seq, NEW n \in Nat, DOMAIN seq = 1 .. n, NEW kind \in FoldKinds, NEW of
  PROVE  \E f : IsFold(f, start, seq, n, kind, of) /\ Fold(start, seq, kind, of) = f[1 .. n]
<1>1. \E f : IsFold(f, start, seq, n, kind, of)
  BY FoldExists
<1>2. IsFold(CHOOSE f : IsFold(f, start, seq, n, kind, of), start, seq, n, kind, of)
  BY <1>1, Zenon
<1>3. Fold(start, seq, kind, of) = (CHOOSE f : IsFold(f, start, seq, n, kind, of))[1 .. n]
  BY FoldIsChosen
<1> QED
  BY <1>2, <1>3, Zenon

\* The values of a fold on the way.
LEMMA FoldOnTheWay ==
  ASSUME NEW start, NEW seq, NEW n \in Nat, NEW kind, NEW of, NEW f, IsFold(f, start, seq, n, kind, of)
  PROVE  /\ f[{}] = start
         /\ \A i \in 1 .. n : f[1 .. i] = Step(f[1 .. i - 1], seq[i], kind, of)
<1>1. f = [s \in SUBSET (1 .. n) |->
             IF s = {} THEN start ELSE Step(f[s \ {Max(s)}], seq[Max(s)], kind, of)]
  BY DEF IsFold
<1>2. f[{}] = start
  <2>1. {} \in SUBSET (1 .. n)
    OBVIOUS
  <2> QED
    BY <1>1, <2>1
<1>3. ASSUME NEW i \in 1 .. n
      PROVE  f[1 .. i] = Step(f[1 .. i - 1], seq[i], kind, of)
  <2>1. 1 .. i \in SUBSET (1 .. n) /\ i \in 1 .. i /\ i - 1 \in Nat /\ (i - 1) + 1 = i
    OBVIOUS
  <2>2. Max(1 .. i) = i
    BY <2>1, GreatestOfRange
  <2>3. (1 .. i) \ {i} = 1 .. i - 1 /\ 1 .. i # {}
    <3>1. \A j \in Nat : j <= i /\ j # i <=> j <= i - 1
      BY <2>1
    <3>2. (1 .. i) \ {i} = 1 .. i - 1
      BY <2>1, <3>1
    <3> QED
      BY <2>1, <3>2
  <2>4. f[1 .. i] = Step(f[(1 .. i) \ {Max(1 .. i)}], seq[Max(1 .. i)], kind, of)
    BY <1>1, <2>1, <2>3
  <2> QED
    BY <2>2, <2>3, <2>4
<1> QED
  BY <1>2, <1>3

LEMMA FoldOfOneMore ==
  ASSUME NEW start, NEW S, NEW seq \in Seq(S), NEW x \in S, NEW kind \in FoldKinds, NEW of
  PROVE  Fold(start, Append(seq, x), kind, of) = Step(Fold(start, seq, kind, of), x, kind, of)
<1> DEFINE n == Len(seq)
           more == Append(seq, x)
<1>1. /\ n \in Nat /\ n + 1 \in Nat /\ (n + 1) - 1 = n
      /\ DOMAIN seq = 1 .. n /\ DOMAIN more = 1 .. n + 1
      /\ \A i \in 1 .. n : more[i] = seq[i]
      /\ more[n + 1] = x
  OBVIOUS
<1> HIDE DEF more, n
<1>2. PICK f : IsFold(f, start, seq, n, kind, of) /\ Fold(start, seq, kind, of) = f[1 .. n]
  BY <1>1, FoldIsLast
<1>3. PICK g : IsFold(g, start, more, n + 1, kind, of) /\ Fold(start, more, kind, of) = g[1 .. n + 1]
  BY <1>1, FoldIsLast
<1> DEFINE T == {i \in 0 .. n : f[1 .. i] = g[1 .. i]}
<1>4. /\ f[{}] = start
      /\ \A i \in 1 .. n : f[1 .. i] = Step(f[1 .. i - 1], seq[i], kind, of)
  BY <1>1, <1>2, FoldOnTheWay
<1>5. /\ g[{}] = start
      /\ \A i \in 1 .. n + 1 : g[1 .. i] = Step(g[1 .. i - 1], more[i], kind, of)
  BY <1>1, <1>3, FoldOnTheWay
<1>6. 0 \in T
  <2>1. 1 .. 0 = {} /\ 0 \in 0 .. n
    BY <1>1
  <2> QED
    BY <1>4, <1>5, <2>1
<1>7. ASSUME NEW i \in 0 .. n - 1, i \in T
      PROVE  i + 1 \in T
  <2>1. /\ i + 1 \in 1 .. n /\ i + 1 \in 1 .. n + 1 /\ i + 1 \in 0 .. n
        /\ (i + 1) - 1 = i
    BY <1>1
  <2> QED
    BY <1>1, <1>4, <1>5, <1>7, <2>1
<1> HIDE DEF T
<1>8. n \in T
  BY <1>1, <1>6, <1>7, RangeInduction
<1>9. g[1 .. n + 1] = Step(g[1 .. n], x, kind, of) /\ f[1 .. n] = g[1 .. n]
  BY <1>1, <1>5, <1>8 DEF T
<1> QED
  BY <1>2, <1>3, <1>9 DEF more

LEMMA FoldOfNothing ==
  ASSUME NEW start, NEW kind \in FoldKinds, NEW of
  PROVE  Fold(start, <<>>, kind, of) = start
<1>1. PICK seq : seq = <<>>
  OBVIOUS
<1>2. DOMAIN seq = 1 .. 0 /\ 1 .. 0 = {}
  BY <1>1
<1>3. PICK f : IsFold(f, start, seq, 0, kind, of) /\ Fold(start, seq, kind, of) = f[1 .. 0]
  BY <1>2, FoldIsLast
<1>4. f[{}] = start
  <2>1. f = [s \in SUBSET (1 .. 0) |->
               IF s = {} THEN start ELSE Step(f[s \ {Max(s)}], seq[Max(s)], kind, of)]
    BY <1>3 DEF IsFold
  <2>2. {} \in SUBSET (1 .. 0)
    OBVIOUS
  <2> QED
    BY <2>1, <2>2
<1> QED
  BY <1>1, <1>2, <1>3, <1>4

\* What every step keeps holds at the end.
LEMMA FoldKeeps ==
  ASSUME NEW seq, NEW n \in Nat, DOMAIN seq = 1 .. n, NEW kind \in FoldKinds, NEW of,
         NEW S, NEW start \in S, \A v \in S : \A i \in 1 .. n : Step(v, seq[i], kind, of) \in S
  PROVE  Fold(start, seq, kind, of) \in S
<1>1. PICK f : IsFold(f, start, seq, n, kind, of) /\ Fold(start, seq, kind, of) = f[1 .. n]
  BY FoldIsLast
<1>2. /\ f[{}] = start
      /\ \A i \in 1 .. n : f[1 .. i] = Step(f[1 .. i - 1], seq[i], kind, of)
  BY <1>1, FoldOnTheWay
<1> DEFINE T == {i \in 0 .. n : f[1 .. i] \in S}
<1>3. 0 \in T
  <2>1. 1 .. 0 = {} /\ 0 \in 0 .. n
    OBVIOUS
  <2> QED
    BY <1>2, <2>1
<1>4. ASSUME NEW i \in 0 .. n - 1, i \in T
      PROVE  i + 1 \in T
  <2>1. i + 1 \in 1 .. n /\ i + 1 \in 0 .. n /\ (i + 1) - 1 = i
    OBVIOUS
  <2> QED
    BY <1>2, <1>4, <2>1
<1> HIDE DEF T
<1>5. \A i \in 0 .. n : i \in T
  BY <1>3, <1>4, RangeInduction
<1>6. n \in T
  BY <1>5
<1> QED
  BY <1>1, <1>6 DEF T

-----------------------------------------------------------------------------
(* Sequences and paths.                                                    *)

LEMMA IsOfItsElements ==
  ASSUME NEW S, NEW s \in Seq(S)
  PROVE  s \in Seq(ToSet(s))
BY DEF ToSet

LEMMA AppendedSequence ==
  ASSUME NEW s, s \in Seq(ToSet(s)), NEW x
  PROVE  /\ Append(s, x) \in Seq(ToSet(Append(s, x)))
         /\ Len(s) \in Nat /\ DOMAIN s = 1 .. Len(s)
         /\ Len(Append(s, x)) = Len(s) + 1 /\ DOMAIN Append(s, x) = 1 .. Len(s) + 1
         /\ \A i \in 1 .. Len(s) : Append(s, x)[i] = s[i]
         /\ Append(s, x)[Len(s) + 1] = x
         /\ Append(s, x) # <<>>
<1> DEFINE S == ToSet(s) \cup {x}
<1>1. s \in Seq(S)
  OBVIOUS
<1>2. x \in S
  OBVIOUS
<1> HIDE DEF S
<1>3. Append(s, x) \in Seq(S)
  BY <1>1, <1>2
<1>4. /\ Len(s) \in Nat /\ DOMAIN s = 1 .. Len(s)
      /\ Len(Append(s, x)) = Len(s) + 1 /\ DOMAIN Append(s, x) = 1 .. Len(s) + 1
      /\ \A i \in 1 .. Len(s) : Append(s, x)[i] = s[i]
      /\ Append(s, x)[Len(s) + 1] = x
      /\ Append(s, x) # <<>>
  BY <1>1, <1>2
<1>5. Append(s, x) \in Seq(ToSet(Append(s, x)))
  BY <1>3, IsOfItsElements
<1> QED
  BY <1>4, <1>5

LEMMA ChangedSequence ==
  ASSUME NEW s, s \in Seq(ToSet(s)), NEW x, NEW n \in DOMAIN s
  PROVE  LET u == [s EXCEPT ![n] = x]
         IN  /\ u \in Seq(ToSet(u)) /\ Len(u) = Len(s) /\ DOMAIN u = DOMAIN s
             /\ \A i \in DOMAIN s : i # n => u[i] = s[i]
             /\ u[n] = x
<1> DEFINE S == ToSet(s) \cup {x}
           u == [s EXCEPT ![n] = x]
<1>1. s \in Seq(S)
  OBVIOUS
<1>2. x \in S
  OBVIOUS
<1>3. u \in Seq(S) /\ Len(u) = Len(s)
  <2> HIDE DEF S
  <2> QED
    BY <1>1, <1>2
<1>4. DOMAIN u = DOMAIN s /\ (\A i \in DOMAIN s : i # n => u[i] = s[i]) /\ u[n] = x
  OBVIOUS
<1>5. u \in Seq(ToSet(u))
  <2> HIDE DEF S, u
  <2> QED
    BY <1>3, IsOfItsElements
<1> QED
  BY <1>3, <1>4, <1>5

\* A path that is not empty is its front and its last name.
LEMMA PathParts ==
  ASSUME NEW S, NEW p \in Seq(S), p # <<>>
  PROVE  /\ Front(p) \in Seq(S) /\ Last(p) \in S
         /\ Len(p) \in Nat \ {0} /\ Len(Front(p)) = Len(p) - 1
         /\ p = Append(Front(p), Last(p))
         /\ \A i \in 1 .. Len(p) - 1 : Front(p)[i] = p[i]
         /\ Last(p) = p[Len(p)]
<1> DEFINE f == SubSeq(p, 1, Len(p) - 1)
<1>1. Len(p) \in Nat \ {0} /\ Len(p) - 1 \in Nat /\ \A i \in 1 .. Len(p) : p[i] \in S
  OBVIOUS
<1>2. Front(p) = f /\ Last(p) = p[Len(p)]
  BY DEF Front, Last
<1>3. f \in Seq(S) /\ Len(f) = Len(p) - 1 /\ \A i \in 1 .. Len(p) - 1 : f[i] = p[i]
  <2>1. 1 \in Int /\ Len(p) - 1 \in Int /\ \A i \in 1 .. Len(p) - 1 : p[i] \in S
    BY <1>1
  <2>2. /\ f \in Seq(S)
        /\ Len(f) = IF 1 <= Len(p) - 1 THEN (Len(p) - 1) - 1 + 1 ELSE 0
        /\ \A i \in 1 .. (Len(p) - 1) - 1 + 1 : f[i] = p[1 + i - 1]
    BY <2>1, SubSeqProperties
  <2> HIDE DEF f
  <2>3. /\ (IF 1 <= Len(p) - 1 THEN (Len(p) - 1) - 1 + 1 ELSE 0) = Len(p) - 1
        /\ (Len(p) - 1) - 1 + 1 = Len(p) - 1
    <3>1. ASSUME NEW k \in Nat \ {0}
          PROVE  (IF 1 <= k - 1 THEN (k - 1) - 1 + 1 ELSE 0) = k - 1 /\ (k - 1) - 1 + 1 = k - 1
      OBVIOUS
    <3> QED
      BY <1>1, <3>1
  <2>4. \A i \in 1 .. Len(p) - 1 : 1 + i - 1 = i
    BY <1>1
  <2>5. Len(f) = Len(p) - 1
    BY <2>2, <2>3, Zenon
  <2>6. ASSUME NEW i \in 1 .. Len(p) - 1
        PROVE  f[i] = p[i]
    BY <2>2, <2>3, <2>4, Zenon
  <2> QED
    BY <2>2, <2>5, <2>6
<1> HIDE DEF f
<1> DEFINE q == Append(f, p[Len(p)])
<1>4. q \in Seq(S) /\ Len(q) = Len(p) /\ \A i \in 1 .. Len(q) : q[i] = p[i]
  BY <1>1, <1>3
<1>5. q = p
  <2> HIDE DEF q
  <2> QED
    BY <1>4, SeqEqual
<1> QED
  BY <1>1, <1>2, <1>3, <1>5

LEMMA PathWithName ==
  ASSUME NEW S, NEW p \in Seq(S), NEW x \in S
  PROVE  /\ Append(p, x) \in Seq(S) /\ Append(p, x) # <<>>
         /\ Front(Append(p, x)) = p /\ Last(Append(p, x)) = x
         /\ Len(Append(p, x)) = Len(p) + 1
<1> DEFINE q == Append(p, x)
<1>1. q \in Seq(S) /\ Len(q) = Len(p) + 1 /\ q # <<>> /\ q[Len(p) + 1] = x /\ Len(p) \in Nat
  OBVIOUS
<1>2. \A i \in 1 .. Len(p) : q[i] = p[i]
  OBVIOUS
<1> HIDE DEF q
<1>3. /\ Front(q) \in Seq(S) /\ Len(Front(q)) = Len(p) /\ Last(q) = q[Len(q)]
      /\ \A i \in 1 .. Len(q) - 1 : Front(q)[i] = q[i]
  <2>1. /\ Front(q) \in Seq(S) /\ Len(Front(q)) = Len(q) - 1 /\ Last(q) = q[Len(q)]
        /\ \A i \in 1 .. Len(q) - 1 : Front(q)[i] = q[i]
    <3>1. q \in Seq(S) /\ q # <<>>
      BY <1>1
    <3> QED
      BY <3>1, PathParts, Zenon
  <2> QED
    BY <1>1, <2>1
<1>4. Front(q) = p
  <2> DEFINE f == Front(q)
  <2>1. f \in Seq(S) /\ Len(f) = Len(p) /\ \A i \in 1 .. Len(f) : f[i] = p[i]
    BY <1>1, <1>2, <1>3
  <2> HIDE DEF f
  <2>2. f = p
    BY <2>1, SeqEqual
  <2> QED
    BY <2>2 DEF f
<1> QED
  BY <1>1, <1>3, <1>4 DEF q

-----------------------------------------------------------------------------
(* The tree of rules.                                                      *)

LEMMA LeastExists ==
  ASSUME NEW S \in SUBSET Nat, S # {}
  PROVE  Min(S) \in S /\ \A y \in S : Min(S) <= y
<1> DEFINE Less == OpToRel(<, Nat)
<1>1. IsWellFoundedOn(Less, Nat)
  BY NatLessThanWellFounded
<1>2. PICK x \in S : \A y \in S : ~(<<y, x>> \in Less)
  <2> HIDE DEF Less
  <2> QED
    BY <1>1, WFMin
<1>3. ASSUME NEW y \in S PROVE x <= y
  <2>1. x \in Nat /\ y \in Nat
    OBVIOUS
  <2>2. y < x => <<y, x>> \in Less
    BY <2>1 DEF OpToRel
  <2>3. ~(y < x)
    BY <1>2, <2>2, Zenon
  <2> QED
    BY <2>1, <2>3
<1>4. \E z \in S : \A y \in S : z <= y
  BY <1>3
<1> QED
  BY <1>4 DEF Min

LEMMA RulesAreTyped ==
  ASSUME NEW t, IsRuleTree(t)
  PROVE  /\ Len(t) \in Nat \ {0} /\ DOMAIN t = 1 .. Len(t) /\ Root \in DOMAIN t
         /\ DOMAIN t \subseteq Nat /\ NoRule \notin DOMAIN t
         /\ \A r \in DOMAIN t : IsRule(t[r])
<1>1. t \in Seq(ToSet(t)) /\ t # <<>>
  BY DEF IsRuleTree
<1>2. Len(t) \in Nat \ {0}
  <2> DEFINE S == ToSet(t)
  <2>1. t \in Seq(S) /\ t # <<>>
    BY <1>1
  <2> HIDE DEF S
  <2> QED
    BY <2>1, PathParts, Zenon
<1>3. DOMAIN t = 1 .. Len(t)
  BY <1>1
<1> QED
  BY <1>2, <1>3 DEF IsRuleTree, Root, NoRule

\* The child with a name, if there is one, is a rule below that has it.
LEMMA ChildIsBelow ==
  ASSUME NEW t, IsRuleTree(t), NEW r \in Nat, NEW name, Child(t, r, name) # NoRule
  PROVE  LET c == Child(t, r, name)
         IN  /\ r # NoRule /\ c \in DOMAIN t /\ c # Root
             /\ t[c].parent = r /\ RuleName(t[c]) = name
             /\ \A i \in DOMAIN t : t[i].parent = r /\ RuleName(t[i]) = name => c <= i
<1> DEFINE named == {i \in DOMAIN t : t[i].parent = r /\ RuleName(t[i]) = name}
<1>1. DOMAIN t \subseteq Nat
  BY RulesAreTyped
<1>2. r # NoRule /\ named # {} /\ Child(t, r, name) = Min(named)
  BY DEF Child
<1>3. named \in SUBSET Nat
  BY <1>1
<1>4. Min(named) \in named /\ \A i \in named : Min(named) <= i
  <2> HIDE DEF named
  <2> QED
    BY <1>2, <1>3, LeastExists
<1>5. t[Root].parent = NoRule
  BY DEF IsRuleTree
<1> QED
  BY <1>2, <1>4, <1>5

LEMMA ChildIsFound ==
  ASSUME NEW t, IsRuleTree(t), NEW r \in DOMAIN t, NEW c \in DOMAIN t, t[c].parent = r
  PROVE  Child(t, r, RuleName(t[c])) # NoRule
<1> DEFINE name == RuleName(t[c])
           named == {i \in DOMAIN t : t[i].parent = r /\ RuleName(t[i]) = name}
<1>1. DOMAIN t \subseteq Nat /\ NoRule \notin DOMAIN t
  BY RulesAreTyped
<1>2. c \in named /\ named \in SUBSET Nat
  BY <1>1
<1>3. Child(t, r, name) = Min(named)
  BY <1>1, <1>2 DEF Child
<1>4. Min(named) \in named
  <2> HIDE DEF named
  <2> QED
    BY <1>2, LeastExists
<1> QED
  BY <1>1, <1>3, <1>4

\* Nothing is below no rule.
LEMMA NoChildOfNoRule ==
  ASSUME NEW t, NEW name
  PROVE  Child(t, NoRule, name) = NoRule
BY DEF Child

LEMMA ChildIsTyped ==
  ASSUME NEW t, IsRuleTree(t), NEW r \in Nat, NEW name
  PROVE  Child(t, r, name) \in DOMAIN t \cup {NoRule} /\ Child(t, r, name) \in Nat
<1>1. DOMAIN t \subseteq Nat /\ NoRule \in Nat
  BY RulesAreTyped DEF NoRule
<1> QED
  BY <1>1, ChildIsBelow

\* Rules are only added behind others, and keep their names and parents.
IsLater(old, new) ==
  /\ IsRuleTree(old) /\ IsRuleTree(new)
  /\ Len(old) <= Len(new)
  /\ \A r \in DOMAIN old : new[r].path = old[r].path /\ new[r].parent = old[r].parent

LEMMA ChildStays ==
  ASSUME NEW old, NEW new, IsLater(old, new)
  PROVE  \A r \in Nat : \A name : Child(old, r, name) # NoRule => Child(new, r, name) = Child(old, r, name)
<1> SUFFICES ASSUME NEW r \in Nat, NEW name, Child(old, r, name) # NoRule
             PROVE  Child(new, r, name) = Child(old, r, name)
  OBVIOUS
<1> DEFINE c == Child(old, r, name)
           d == Child(new, r, name)
<1>1. /\ IsRuleTree(old) /\ IsRuleTree(new) /\ Len(old) <= Len(new)
      /\ \A i \in DOMAIN old : new[i].path = old[i].path /\ new[i].parent = old[i].parent
  BY DEF IsLater
<1>2. /\ Len(old) \in Nat /\ DOMAIN old = 1 .. Len(old)
      /\ Len(new) \in Nat /\ DOMAIN new = 1 .. Len(new)
  BY <1>1, RulesAreTyped
<1>3. /\ r # NoRule /\ c \in DOMAIN old /\ c # Root
      /\ old[c].parent = r /\ RuleName(old[c]) = name
      /\ \A i \in DOMAIN old : old[i].parent = r /\ RuleName(old[i]) = name => c <= i
  <2>1. IsRuleTree(old)
    BY <1>1
  <2> QED
    BY <2>1, ChildIsBelow, Zenon
<1>4. \A i \in DOMAIN old : i \in DOMAIN new /\ RuleName(new[i]) = RuleName(old[i])
  <2> TAKE i \in DOMAIN old
  <2>1. i \in DOMAIN new
    BY <1>1, <1>2
  <2>2. new[i].path = old[i].path
    BY <1>1
  <2> QED
    BY <2>1, <2>2, Zenon DEF RuleName
<1>5. c \in DOMAIN new /\ new[c].parent = r /\ RuleName(new[c]) = name
  BY <1>1, <1>3, <1>4
<1> DEFINE named == {i \in DOMAIN new : new[i].parent = r /\ RuleName(new[i]) = name}
<1>6. c \in named /\ named \in SUBSET Nat
  BY <1>2, <1>5
<1>7. d = Min(named)
  BY <1>3, <1>6 DEF Child
<1>8. d \in named /\ \A i \in named : d <= i
  <2> HIDE DEF named, d, c
  <2> QED
    BY <1>6, <1>7, LeastExists
<1>9. d <= c
  <2> HIDE DEF named, d, c
  <2> QED
    BY <1>6, <1>8
<1>10. d \in DOMAIN old /\ old[d].parent = r /\ RuleName(old[d]) = name
  <2> HIDE DEF d, c
  <2>1. d \in DOMAIN old
    BY <1>2, <1>3, <1>8, <1>9
  <2> QED
    BY <1>1, <1>4, <1>8, <2>1
<1>11. c <= d
  BY <1>3, <1>10
<1> QED
  <2> HIDE DEF d, c
  <2>1. c \in Nat /\ d \in Nat
    BY <1>6, <1>8
  <2>2. c = d
    BY <1>9, <1>11, <2>1
  <2> QED
    BY <2>2 DEF c, d

-----------------------------------------------------------------------------
(* The way from the root to a rule.                                        *)

LEMMA WayIsFold ==
  ASSUME NEW t, NEW p
  PROVE  Descendant(t, Root, p) = Fold(Root, p, "way", t)
BY DEF Descendant, Fold

LEMMA WayOfNothing ==
  ASSUME NEW t
  PROVE  Descendant(t, Root, <<>>) = Root
<1>1. "way" \in FoldKinds
  BY DEF FoldKinds
<1>2. Fold(Root, <<>>, "way", t) = Root
  BY <1>1, FoldOfNothing
<1> QED
  BY <1>2, WayIsFold

LEMMA WayToChild ==
  ASSUME NEW t, NEW p \in Seq(STRING), NEW x \in STRING
  PROVE  Descendant(t, Root, Append(p, x)) = Child(t, Descendant(t, Root, p), x)
<1>1. "way" \in FoldKinds
  BY DEF FoldKinds
<1>2. Fold(Root, Append(p, x), "way", t) = Step(Fold(Root, p, "way", t), x, "way", t)
  BY <1>1, FoldOfOneMore
<1>3. ASSUME NEW v
      PROVE  Step(v, x, "way", t) = Child(t, v, x)
  BY DEF Step
<1> QED
  BY <1>2, <1>3, WayIsFold, Zenon

\* Paths are built name by name.
LEMMA PathInduction ==
  ASSUME NEW S, <<>> \in S,
         \A q \in Seq(STRING) : \A x \in STRING : q \in S => Append(q, x) \in S
  PROVE  Seq(STRING) \subseteq S
<1> SUFFICES ASSUME NEW p \in Seq(STRING)
             PROVE  p \in S
  OBVIOUS
<1> DEFINE n == Len(p)
           T == {i \in 0 .. n : \A q \in Seq(STRING) : Len(q) = i => q \in S}
<1>1. n \in Nat
  OBVIOUS
<1> HIDE DEF n
<1>2. 0 \in T
  <2>1. 0 \in 0 .. n
    BY <1>1
  <2>2. \A q \in Seq(STRING) : Len(q) = 0 => q = <<>>
    OBVIOUS
  <2> QED
    BY <2>1, <2>2
<1>3. ASSUME NEW i \in 0 .. n - 1, i \in T
      PROVE  i + 1 \in T
  <2>1. i \in Nat /\ i + 1 \in 0 .. n /\ i + 1 # 0 /\ (i + 1) - 1 = i
    BY <1>1
  <2>2. ASSUME NEW q \in Seq(STRING), Len(q) = i + 1
        PROVE  q \in S
    <3>1. q # <<>>
      BY <2>1, <2>2
    <3>2. Front(q) \in Seq(STRING) /\ Last(q) \in STRING /\ Len(Front(q)) = Len(q) - 1 /\ q = Append(Front(q), Last(q))
      BY <3>1, PathParts, Zenon
    <3>3. Len(Front(q)) = i
      BY <2>1, <2>2, <3>2
    <3>4. Front(q) \in S
      BY <1>3, <3>2, <3>3
    <3> QED
      BY <3>2, <3>4
  <2> QED
    BY <2>1, <2>2
<1> HIDE DEF T
<1>4. \A i \in 0 .. n : i \in T
  BY <1>1, <1>2, <1>3, RangeInduction
<1>5. n \in T
  BY <1>1, <1>4
<1> QED
  BY <1>5 DEF T, n

\* The way along a path leads to a rule with that path, or to none.
LEMMA WayIsPath ==
  ASSUME NEW t, IsRuleTree(t), NEW p \in Seq(STRING)
  PROVE  LET r == Descendant(t, Root, p)
         IN  r \in Nat /\ (r # NoRule => r \in DOMAIN t /\ t[r].path = p)
<1> DEFINE r(q) == Descendant(t, Root, q)
           S == {q \in Seq(STRING) : r(q) \in Nat /\ (r(q) # NoRule => r(q) \in DOMAIN t /\ t[r(q)].path = q)}
<1>1. <<>> \in S
  <2>1. r(<<>>) = Root /\ <<>> \in Seq(STRING)
    BY WayOfNothing
  <2>2. Root \in DOMAIN t /\ t[Root].path = <<>> /\ Root \in Nat
    BY RulesAreTyped DEF IsRuleTree, Root
  <2> QED
    BY <2>1, <2>2
<1>2. ASSUME NEW q \in Seq(STRING), NEW x \in STRING, q \in S
      PROVE  Append(q, x) \in S
  <2> DEFINE u == Append(q, x)
             c == r(u)
             d == r(q)
  <2>1. d \in Nat /\ (d # NoRule => d \in DOMAIN t /\ t[d].path = q)
    BY <1>2
  <2>2. c = Child(t, d, x)
    BY WayToChild
  <2>3. u \in Seq(STRING) /\ Front(u) = q /\ Last(u) = x
    BY PathWithName, Zenon
  <2> HIDE DEF c, d, u
  <2>4. c \in Nat
    BY <2>1, <2>2, ChildIsTyped
  <2>5. ASSUME c # NoRule
        PROVE  c \in DOMAIN t /\ t[c].path = u
    <3>1. d # NoRule /\ c \in DOMAIN t /\ c # Root /\ t[c].parent = d /\ RuleName(t[c]) = x
      <4>1. Child(t, d, x) # NoRule
        BY <2>2, <2>5
      <4> QED
        BY <2>1, <2>2, <4>1, ChildIsBelow
    <3>2. t[c].path \in Seq(STRING) /\ t[c].path # <<>> /\ t[d].path = Front(t[c].path)
      BY <3>1 DEF IsRuleTree, IsRule
    <3>3. Last(t[c].path) = x
      BY <3>1, <3>2, Zenon DEF RuleName
    <3>4. Front(t[c].path) = q
      BY <2>1, <3>1, <3>2
    <3>5. t[c].path = Append(Front(t[c].path), Last(t[c].path))
      BY <3>2, PathParts, Zenon
    <3>6. t[c].path = u
      BY <3>3, <3>4, <3>5, Zenon DEF u
    <3> QED
      BY <3>1, <3>6
  <2> QED
    BY <2>3, <2>4, <2>5 DEF c, u
<1> HIDE DEF S
<1>3. p \in S
  BY <1>1, <1>2, PathInduction
<1> QED
  BY <1>3 DEF S

\* A way that leads to a rule still leads there when other rules have been added.
LEMMA WayStays ==
  ASSUME NEW old, NEW new, IsLater(old, new), NEW p \in Seq(STRING), Descendant(old, Root, p) # NoRule
  PROVE  Descendant(new, Root, p) = Descendant(old, Root, p)
<1> DEFINE r(q) == Descendant(old, Root, q)
           S == {q \in Seq(STRING) : r(q) # NoRule => Descendant(new, Root, q) = r(q)}
<1>1. IsRuleTree(old)
  BY DEF IsLater
<1>stays. \A d \in Nat : \A x : Child(old, d, x) # NoRule => Child(new, d, x) = Child(old, d, x)
  BY ChildStays
<1>2. <<>> \in S
  <2>1. <<>> \in Seq(STRING)
    OBVIOUS
  <2> QED
    BY <2>1, WayOfNothing
<1>3. ASSUME NEW q \in Seq(STRING), NEW x \in STRING, q \in S
      PROVE  Append(q, x) \in S
  <2> DEFINE u == Append(q, x)
             d == r(q)
  <2>1. r(u) = Child(old, d, x) /\ Descendant(new, Root, u) = Child(new, Descendant(new, Root, q), x)
    BY WayToChild
  <2>2. d \in Nat
    BY <1>1, WayIsPath
  <2>3. d # NoRule => Descendant(new, Root, q) = d
    BY <1>3
  <2>4. u \in Seq(STRING)
    BY PathWithName
  <2> HIDE DEF d, u
  <2>5. ASSUME r(u) # NoRule
        PROVE  Descendant(new, Root, u) = r(u)
    <3>1. d # NoRule
      BY <2>1, <2>5, NoChildOfNoRule
    <3>2. Child(old, d, x) # NoRule
      BY <2>1, <2>5
    <3>3. Child(new, d, x) = Child(old, d, x)
      BY <1>stays, <2>2, <3>2
    <3> QED
      BY <2>1, <2>3, <3>1, <3>3
  <2> QED
    BY <2>4, <2>5 DEF u
<1> HIDE DEF S
<1>4. p \in S
  BY <1>2, <1>3, PathInduction
<1> QED
  BY <1>4 DEF S

\* The parent of a path is at the end of the way without the last name.
LEMMA ParentIsOnTheWay ==
  ASSUME NEW t, NEW p \in Seq(STRING), p # <<>>
  PROVE  ParentForPath(t, p) = Descendant(t, Root, Front(p))
<1>1. /\ Front(p) \in Seq(STRING) /\ Len(p) \in Nat \ {0} /\ Len(Front(p)) = Len(p) - 1
  BY PathParts, Zenon
<1>2. CASE Len(p) = 1
  <2>1. Len(Front(p)) = 0
    BY <1>1, <1>2
  <2>2. Front(p) = <<>>
    BY <1>1, <2>1
  <2> QED
    BY <1>2, <2>2, WayOfNothing DEF ParentForPath
<1>3. CASE Len(p) # 1
  <2>1. Len(Front(p)) # 0
    BY <1>1, <1>3
  <2>2. Front(p) # <<>>
    BY <2>1
  <2> QED
    BY <1>3, <2>2, Zenon DEF ParentForPath, RuleForNamePath
<1> QED
  BY <1>2, <1>3

\* The parent stays where it is.
LEMMA ParentStays ==
  ASSUME NEW old, NEW new, IsLater(old, new), NEW p \in Seq(STRING), p # <<>>, HasParent(old, p)
  PROVE  HasParent(new, p)
<1>1. Front(p) \in Seq(STRING)
  BY PathParts, Zenon
<1>2. Descendant(old, Root, Front(p)) # NoRule
  BY ParentIsOnTheWay DEF HasParent
<1>3. Descendant(new, Root, Front(p)) = Descendant(old, Root, Front(p))
  BY <1>1, <1>2, WayStays
<1> QED
  BY <1>2, <1>3, ParentIsOnTheWay DEF HasParent

-----------------------------------------------------------------------------
(* The walk over a document.                                               *)

\* The walk over the first nodes has met those of the set, in their order.
IsVisit(items, doc, nodes, n) ==
  /\ items \in Seq([kind : {"node"}, node : 1 .. n])
  /\ \A k \in DOMAIN items : doc[items[k].node] \in nodes
  /\ \A k, l \in DOMAIN items : k < l => items[k].node < items[l].node
  /\ \A i \in 1 .. n : doc[i] \in nodes => \E k \in DOMAIN items : items[k].node = i

LEMMA VisitIsFold ==
  ASSUME NEW doc, NEW nodes
  PROVE  Visit(doc, nodes) = Fold(<<>>, [i \in DOMAIN doc |-> i], "visit", [doc |-> doc, nodes |-> nodes])
<1> DEFINE of == [doc |-> doc, nodes |-> nodes]
<1>1. of.doc = doc /\ of.nodes = nodes
  OBVIOUS
<1> HIDE DEF of
<1>2. Visit(of.doc, of.nodes) = Fold(<<>>, [i \in DOMAIN of.doc |-> i], "visit", of)
  BY DEF Visit, Fold
<1>3. Visit(doc, nodes) = Fold(<<>>, [i \in DOMAIN doc |-> i], "visit", of)
  BY <1>1, <1>2
<1> QED
  BY <1>3 DEF of

LEMMA VisitIsOrdered ==
  ASSUME NEW doc, doc \in Seq(NodesOf(doc)), NEW nodes
  PROVE  IsVisit(Visit(doc, nodes), doc, nodes, Len(doc))
<1> DEFINE n == Len(doc)
           of == [doc |-> doc, nodes |-> nodes]
           seq == [i \in DOMAIN doc |-> i]
<1>1. n \in Nat /\ DOMAIN doc = 1 .. n /\ DOMAIN seq = 1 .. n /\ \A i \in 1 .. n : seq[i] = i
  OBVIOUS
<1>2. of.doc = doc /\ of.nodes = nodes
  OBVIOUS
<1>3. Visit(doc, nodes) = Fold(<<>>, seq, "visit", of)
  BY VisitIsFold
<1> HIDE DEF n, seq, of
<1>4. "visit" \in FoldKinds
  BY DEF FoldKinds
<1>5. PICK f : IsFold(f, <<>>, seq, n, "visit", of) /\ Visit(doc, nodes) = f[1 .. n]
  <2>1. \E f : IsFold(f, <<>>, seq, n, "visit", of) /\ Fold(<<>>, seq, "visit", of) = f[1 .. n]
    BY <1>1, <1>4, FoldIsLast
  <2> QED
    BY <1>3, <2>1
<1>6. /\ f[{}] = <<>>
      /\ \A i \in 1 .. n : f[1 .. i] = Step(f[1 .. i - 1], seq[i], "visit", of)
  <2>1. n \in Nat /\ IsFold(f, <<>>, seq, n, "visit", of)
    BY <1>1, <1>5, Zenon
  <2>2. PICK nothing : nothing = <<>>
    OBVIOUS
  <2>3. IsFold(f, nothing, seq, n, "visit", of)
    BY <2>1, <2>2
  <2>4. /\ f[{}] = nothing
        /\ \A i \in 1 .. n : f[1 .. i] = Step(f[1 .. i - 1], seq[i], "visit", of)
    BY <2>1, <2>3, FoldOnTheWay
  <2> QED
    BY <2>2, <2>4
<1>7. ASSUME NEW v, NEW i \in 1 .. n
      PROVE  Step(v, i, "visit", of) = IF doc[i] \in nodes THEN Append(v, [kind |-> "node", node |-> i]) ELSE v
  BY <1>2 DEF Step
<1> DEFINE S == {i \in 0 .. n : IsVisit(f[1 .. i], doc, nodes, i)}
<1>8. 0 \in S
  <2>1. 0 \in 0 .. n /\ 1 .. 0 = {} /\ f[1 .. 0] = <<>>
    BY <1>1, <1>6
  <2>2. <<>> \in Seq([kind : {"node"}, node : 1 .. 0]) /\ DOMAIN <<>> = {}
    OBVIOUS
  <2>3. IsVisit(<<>>, doc, nodes, 0)
    BY <2>1, <2>2 DEF IsVisit
  <2> QED
    BY <2>1, <2>3
<1>9. ASSUME NEW i \in 0 .. n - 1, i \in S
      PROVE  i + 1 \in S
  <2> DEFINE v == f[1 .. i]
             w == f[1 .. i + 1]
             item == [kind |-> "node", node |-> i + 1]
  <2>1. i \in Nat /\ i + 1 \in 1 .. n /\ i + 1 \in 0 .. n /\ (i + 1) - 1 = i
    BY <1>1
  <2>2. w = IF doc[i + 1] \in nodes THEN Append(v, item) ELSE v
    <3>1. w = Step(f[1 .. (i + 1) - 1], seq[i + 1], "visit", of)
      BY <1>6, <2>1, Zenon
    <3>2. w = Step(v, i + 1, "visit", of)
      BY <1>1, <2>1, <3>1
    <3>3. Step(v, i + 1, "visit", of) = IF doc[i + 1] \in nodes THEN Append(v, item) ELSE v
      BY <1>7, <2>1, Zenon
    <3> QED
      BY <3>2, <3>3, Zenon
  <2>3. IsVisit(v, doc, nodes, i)
    BY <1>9
  <2> HIDE DEF v, w
  <2>4. /\ v \in Seq([kind : {"node"}, node : 1 .. i])
        /\ \A k \in DOMAIN v : doc[v[k].node] \in nodes
        /\ \A k, l \in DOMAIN v : k < l => v[k].node < v[l].node
        /\ \A j \in 1 .. i : doc[j] \in nodes => \E k \in DOMAIN v : v[k].node = j
    BY <2>3 DEF IsVisit
  <2>5. v \in Seq([kind : {"node"}, node : 1 .. i + 1])
    <3>1. [kind : {"node"}, node : 1 .. i] \subseteq [kind : {"node"}, node : 1 .. i + 1]
      <4>1. 1 .. i \subseteq 1 .. i + 1
        BY <2>1
      <4> QED
        BY <4>1
    <3> DEFINE A == [kind : {"node"}, node : 1 .. i]
               B == [kind : {"node"}, node : 1 .. i + 1]
    <3>2. v \in Seq(A) /\ A \subseteq B
      BY <2>4, <3>1
    <3> HIDE DEF A, B
    <3>3. v \in Seq(B)
      BY <3>2
    <3> QED
      BY <3>3 DEF B
  <2>6. /\ DOMAIN v = 1 .. Len(v) /\ Len(v) \in Nat
        /\ \A k \in DOMAIN v : v[k].node \in 1 .. i
    <3> DEFINE A == [kind : {"node"}, node : 1 .. i]
    <3>1. \A x \in A : x.node \in 1 .. i
      OBVIOUS
    <3>2. v \in Seq(A)
      BY <2>4
    <3> HIDE DEF A
    <3> QED
      BY <3>1, <3>2
  <2>7. CASE doc[i + 1] \in nodes
    <3>1. w = Append(v, item) /\ item.node = i + 1 /\ item.kind = "node"
      BY <2>2, <2>7
    <3>2. item \in [kind : {"node"}, node : 1 .. i + 1]
      BY <2>1
    <3> HIDE DEF item
    <3> DEFINE B == [kind : {"node"}, node : 1 .. i + 1]
    <3>3. /\ w \in Seq(B) /\ Len(w) = Len(v) + 1 /\ DOMAIN w = 1 .. Len(v) + 1
          /\ \A k \in 1 .. Len(v) : w[k] = v[k]
          /\ w[Len(v) + 1] = item
      <4>1. v \in Seq(B) /\ item \in B
        BY <2>5, <3>2
      <4> HIDE DEF B
      <4> QED
        BY <3>1, <4>1
    <3> HIDE DEF B
    <3>4. ASSUME NEW k \in DOMAIN w
          PROVE  /\ doc[w[k].node] \in nodes
                 /\ k \in DOMAIN v \/ k = Len(v) + 1
      BY <2>4, <2>6, <2>7, <3>1, <3>3
    <3>5. ASSUME NEW k \in DOMAIN w, NEW l \in DOMAIN w, k < l
          PROVE  w[k].node < w[l].node
      <4>1. k \in DOMAIN v
        BY <2>6, <3>3, <3>5
      <4>2. CASE l \in DOMAIN v
        BY <2>4, <2>6, <3>3, <3>5, <4>1, <4>2
      <4>3. CASE l = Len(v) + 1
        <5>1. w[k].node \in 1 .. i /\ w[l].node = i + 1
          BY <2>6, <3>1, <3>3, <4>1, <4>3
        <5> QED
          BY <2>1, <5>1
      <4> QED
        BY <3>4, <4>2, <4>3
    <3>6. ASSUME NEW j \in 1 .. i + 1, doc[j] \in nodes
          PROVE  \E k \in DOMAIN w : w[k].node = j
      <4>1. CASE j \in 1 .. i
        <5>1. PICK k \in DOMAIN v : v[k].node = j
          BY <2>4, <3>6, <4>1
        <5> QED
          BY <2>6, <3>3, <5>1
      <4>2. CASE j = i + 1
        <5>1. Len(v) + 1 \in DOMAIN w
          BY <2>6, <3>3
        <5> QED
          BY <3>1, <3>3, <4>2, <5>1
      <4> QED
        BY <2>1, <4>1, <4>2
    <3>7. IsVisit(w, doc, nodes, i + 1)
      BY <3>3, <3>4, <3>5, <3>6 DEF IsVisit, B
    <3> QED
      BY <2>1, <3>7 DEF w
  <2>8. CASE doc[i + 1] \notin nodes
    <3>1. w = v
      BY <2>2, <2>8
    <3>2. ASSUME NEW j \in 1 .. i + 1, doc[j] \in nodes
          PROVE  \E k \in DOMAIN v : v[k].node = j
      <4>1. j \in 1 .. i
        BY <2>1, <2>8, <3>2
      <4> QED
        BY <2>4, <3>2, <4>1
    <3>3. IsVisit(v, doc, nodes, i + 1)
      BY <2>4, <2>5, <3>2 DEF IsVisit
    <3> QED
      BY <2>1, <3>1, <3>3 DEF w
  <2> QED
    BY <2>7, <2>8
<1> HIDE DEF S
<1>10. \A i \in 0 .. n : i \in S
  BY <1>1, <1>8, <1>9, RangeInduction
<1>11. n \in S
  BY <1>1, <1>10
<1> QED
  BY <1>5, <1>11 DEF S, n

-----------------------------------------------------------------------------
(* What the values of a node make of a rule.                               *)

\* The rule has been read further: it still has its path and its parent.
IsRevised(rule, new) ==
  \/ IsFailure(new)
  \/ IsRule(new) /\ new.path = rule.path /\ new.parent = rule.parent

LEMMA RuleIsRevised ==
  ASSUME NEW rule, IsRule(rule), NEW x
  PROVE  /\ IsRevised(rule, rule)
         /\ IsRevised(rule, Failure)
         /\ IsRevised(rule, [rule EXCEPT !.type = x])
         /\ IsRevised(rule, [rule EXCEPT !.optional = x])
         /\ IsRevised(rule, [rule EXCEPT !.secret = x])
         /\ IsRevised(rule, [rule EXCEPT !.caseSensitive = x])
         /\ IsRevised(rule, [rule EXCEPT !.default = x])
         /\ IsRevised(rule, [rule EXCEPT !.constraints = x])
         /\ IsRevised(rule, [rule EXCEPT !.keys = x])
         /\ IsRevised(rule, [rule EXCEPT !.dependencies = x])
         /\ IsRevised(rule, [rule EXCEPT !.versions = x])
         /\ \A y : IsRevised(rule, [rule EXCEPT !.target = x, !.type = y])
<1>1. IsRevised(rule, rule)
  BY DEF IsRevised
<1>2. IsRevised(rule, Failure)
  BY DEF IsRevised, IsFailure, Failure
<1>3. IsRevised(rule, [rule EXCEPT !.type = x])
  BY DEF IsRevised, IsRule
<1>4. IsRevised(rule, [rule EXCEPT !.optional = x])
  BY DEF IsRevised, IsRule
<1>5. IsRevised(rule, [rule EXCEPT !.secret = x])
  BY DEF IsRevised, IsRule
<1>6. IsRevised(rule, [rule EXCEPT !.caseSensitive = x])
  BY DEF IsRevised, IsRule
<1>7. IsRevised(rule, [rule EXCEPT !.default = x])
  BY DEF IsRevised, IsRule
<1>8. IsRevised(rule, [rule EXCEPT !.constraints = x])
  BY DEF IsRevised, IsRule
<1>9. IsRevised(rule, [rule EXCEPT !.keys = x])
  BY DEF IsRevised, IsRule
<1>10. IsRevised(rule, [rule EXCEPT !.dependencies = x])
  BY DEF IsRevised, IsRule
<1>11. IsRevised(rule, [rule EXCEPT !.versions = x])
  BY DEF IsRevised, IsRule
<1>12. ASSUME NEW y
       PROVE  IsRevised(rule, [rule EXCEPT !.target = x, !.type = y])
  <2> DEFINE named == [rule EXCEPT !.target = x]
             new == [named EXCEPT !.type = y]
  <2>1. [rule EXCEPT !.target = x, !.type = y] = new
    OBVIOUS
  <2>2. IsRule(named) /\ named.path = rule.path /\ named.parent = rule.parent
    BY DEF IsRule
  <2> HIDE DEF named
  <2>3. IsRule(new) /\ new.path = rule.path /\ new.parent = rule.parent
    BY <2>2 DEF IsRule
  <2> QED
    BY <2>1, <2>3 DEF IsRevised
<1> QED
  BY <1>1, <1>2, <1>3, <1>4, <1>5, <1>6, <1>7, <1>8, <1>9, <1>10, <1>11, <1>12

LEMMA RevisedAgain ==
  ASSUME NEW rule, NEW new, NEW last, ~IsFailure(new), IsRevised(rule, new), IsRevised(new, last)
  PROVE  IsRevised(rule, last)
BY DEF IsRevised

LEMMA RevisedByValue ==
  ASSUME NEW rule, IsRule(rule), NEW value, NEW fromTemplate
  PROVE  IsRevised(rule, HandleConstraintAndAttributes(rule, value, fromTemplate))
<1> DEFINE result == HandleConstraintAndAttributes(rule, value, fromTemplate)
<1>1. IsRevised(rule, rule) /\ IsRevised(rule, Failure)
  BY RuleIsRevised
<1>2. IsRevised(rule, AddConstraint(rule, value, fromTemplate))
  <2>1. \A x : IsRevised(rule, [rule EXCEPT !.constraints = x])
    BY RuleIsRevised
  <2>2. \A c : IsRevised(rule, AddOrOverwriteConstraint(rule, c))
    <3> TAKE c
    <3>1. \E x : AddOrOverwriteConstraint(rule, c) = [rule EXCEPT !.constraints = x]
      BY Zenon DEF AddOrOverwriteConstraint
    <3> QED
      BY <2>1, <3>1, Zenon
  <2> QED
    BY <1>1, <2>2, Zenon DEF AddConstraint
<1>3. IsRevised(rule, LimitVersions(rule, value))
  <2>1. \A x : IsRevised(rule, [rule EXCEPT !.versions = x])
    BY RuleIsRevised
  <2>2. \E x : LimitVersions(rule, value) = [rule EXCEPT !.versions = x]
    BY Zenon DEF LimitVersions
  <2> QED
    BY <2>1, <2>2, Zenon
<1>4. IsRevised(rule, SetAttribute(rule, value))
  <2>1. \A x : /\ IsRevised(rule, [rule EXCEPT !.optional = x])
               /\ IsRevised(rule, [rule EXCEPT !.secret = x])
               /\ IsRevised(rule, [rule EXCEPT !.default = x])
    BY RuleIsRevised
  <2>2. \/ SetAttribute(rule, value) = Failure
        \/ SetAttribute(rule, value) = rule
        \/ SetAttribute(rule, value) = [rule EXCEPT !.optional = value.content]
        \/ SetAttribute(rule, value) = [rule EXCEPT !.secret = value.content]
        \/ SetAttribute(rule, value) = [rule EXCEPT !.default = [type |-> value.type, content |-> value.content]]
    BY DEF SetAttribute
  <2> QED
    BY <1>1, <2>1, <2>2, Zenon
<1>5. \/ result = rule \/ result = Failure
      \/ result = AddConstraint(rule, value, fromTemplate)
      \/ result = LimitVersions(rule, value)
      \/ result = SetAttribute(rule, value)
  BY DEF HandleConstraintAndAttributes
<1> QED
  BY <1>1, <1>2, <1>3, <1>4, <1>5, Zenon

LEMMA RevisedByValues ==
  ASSUME NEW rule, IsRule(rule), NEW values, values \in Seq(ToSet(values)), NEW fromTemplate
  PROVE  IsRevised(rule, Fold(rule, values, "values", fromTemplate))
<1> DEFINE n == Len(values)
           result == Fold(rule, values, "values", fromTemplate)
<1>1. n \in Nat /\ DOMAIN values = 1 .. n
  OBVIOUS
<1>2. "values" \in FoldKinds
  BY DEF FoldKinds
<1> HIDE DEF n
<1>3. PICK f : IsFold(f, rule, values, n, "values", fromTemplate) /\ result = f[1 .. n]
  BY <1>1, <1>2, FoldIsLast
<1>4. /\ f[{}] = rule
      /\ \A i \in 1 .. n : f[1 .. i] = Step(f[1 .. i - 1], values[i], "values", fromTemplate)
  BY <1>1, <1>3, FoldOnTheWay
<1> DEFINE S == {i \in 0 .. n : IsRevised(rule, f[1 .. i])}
<1>5. 0 \in S
  <2>1. 0 \in 0 .. n /\ 1 .. 0 = {} /\ f[1 .. 0] = rule
    BY <1>1, <1>4
  <2>2. IsRevised(rule, rule)
    BY RuleIsRevised
  <2> QED
    BY <2>1, <2>2
<1>6. ASSUME NEW i \in 0 .. n - 1, i \in S
      PROVE  i + 1 \in S
  <2> DEFINE v == f[1 .. i]
             w == f[1 .. i + 1]
             value == values[i + 1]
  <2>1. i \in Nat /\ i + 1 \in 1 .. n /\ i + 1 \in 0 .. n /\ (i + 1) - 1 = i
    BY <1>1
  <2>2. w = HandleConstraintAndAttributes(v, value, fromTemplate)
    <3>1. w = Step(f[1 .. (i + 1) - 1], value, "values", fromTemplate)
      BY <1>4, <2>1, Zenon
    <3>2. w = Step(v, value, "values", fromTemplate)
      BY <2>1, <3>1
    <3>3. \A r, x : Step(r, x, "values", fromTemplate) = HandleConstraintAndAttributes(r, x, fromTemplate)
      BY DEF Step
    <3> QED
      BY <3>2, <3>3, Zenon
  <2>3. IsRevised(rule, v)
    BY <1>6
  <2> HIDE DEF v, w
  <2>4. IsRevised(rule, w)
    <3>1. CASE IsFailure(v)
      <4>1. w = v
        BY <2>2, <3>1, Zenon DEF HandleConstraintAndAttributes
      <4> QED
        BY <2>3, <4>1
    <3>2. CASE ~IsFailure(v)
      <4>1. IsRule(v)
        BY <2>3, <3>2 DEF IsRevised
      <4>2. IsRevised(v, w)
        BY <2>2, <4>1, RevisedByValue
      <4> QED
        BY <2>3, <3>2, <4>2, RevisedAgain
    <3> QED
      BY <3>1, <3>2
  <2> QED
    BY <2>1, <2>4 DEF w
<1> HIDE DEF S
<1>7. \A i \in 0 .. n : i \in S
  BY <1>1, <1>5, <1>6, RangeInduction
<1>8. n \in S
  BY <1>1, <1>7
<1> HIDE DEF result
<1>9. IsRevised(rule, result)
  BY <1>3, <1>8 DEF S
<1> QED
  BY <1>9 DEF result

LEMMA RevisedByNode ==
  ASSUME NEW rule, IsRule(rule), NEW doc, NEW node, node.values \in Seq(ToSet(node.values))
  PROVE  IsRevised(rule, WithOwnValues(doc, node, rule))
<1> DEFINE prepared == HandleCaseSensitive(doc, node, rule)
           values == node.values
           fromTemplate == IsTemplate(node)
           handled == Fold(prepared, values, "values", fromTemplate)
<1>1. IsRevised(rule, Failure)
  BY RuleIsRevised
<1>2. IsRevised(rule, prepared)
  <2>1. \/ prepared = rule \/ prepared = Failure
        \/ \E x : prepared = [rule EXCEPT !.caseSensitive = x]
    BY Zenon DEF HandleCaseSensitive
  <2>2. \A x : IsRevised(rule, [rule EXCEPT !.caseSensitive = x]) /\ IsRevised(rule, rule)
    BY RuleIsRevised
  <2> QED
    BY <1>1, <2>1, <2>2, Zenon
<1>3. CASE IsFailure(prepared)
  <2>1. WithOwnValues(doc, node, rule) = Failure
    BY <1>3, Zenon DEF WithOwnValues
  <2> QED
    BY <1>1, <2>1
<1>4. CASE ~IsFailure(prepared)
  <2>1. WithOwnValues(doc, node, rule) = ProcessCommonNodeRules(doc, node, prepared)
    BY <1>4, Zenon DEF WithOwnValues
  <2>2. IsRule(prepared)
    BY <1>2, <1>4, Zenon DEF IsRevised
  <2>3. IsRevised(prepared, handled)
    <3> HIDE DEF prepared, values, fromTemplate
    <3>1. values \in Seq(ToSet(values))
      BY DEF values
    <3> QED
      BY <2>2, <3>1, RevisedByValues
  <2>4. ProcessCommonNodeRules(doc, node, prepared) = handled \/ ProcessCommonNodeRules(doc, node, prepared) = Failure
    <3>1. \/ ProcessCommonNodeRules(doc, node, prepared) =
              FoldLeft(LAMBDA r, v : HandleConstraintAndAttributes(r, v, fromTemplate), prepared, values)
          \/ ProcessCommonNodeRules(doc, node, prepared) = Failure
      <4> HIDE DEF prepared
      <4> QED
        BY DEF ProcessCommonNodeRules
    <3> HIDE DEF prepared, fromTemplate, values
    <3>2. FoldLeft(LAMBDA r, v : HandleConstraintAndAttributes(r, v, fromTemplate), prepared, values) = handled
      BY DEF Fold
    <3> QED
      BY <3>1, <3>2
  <2>5. IsRevised(rule, handled)
    <3> HIDE DEF prepared, handled
    <3> QED
      BY <1>2, <1>4, <2>3, RevisedAgain
  <2> QED
    <3> HIDE DEF prepared, handled
    <3> QED
      BY <1>1, <2>1, <2>4, <2>5
<1> QED
  BY <1>3, <1>4

-----------------------------------------------------------------------------
(* The constraints of a rule: what the values of a node make of them.      *)

\* The constraints that are written in a node, and those of a rule: their type, whether
\* they are negated, and whether they come from a template.
Written(node) == {v \in ToSet(node.values) : v.base \in ConstraintNames /\ ~v.error}
Kinds(written, fromTemplate) == {<<v.base, v.negated, fromTemplate>> : v \in written}
KindsOf(rule) == {<<c.type, c.negated, c.fromTemplate>> : c \in ToSet(rule.constraints)}
NotOverridden(kinds, written) == {k \in kinds : k[1] \notin {v.base : v \in written}}

HasKinds(rule, kinds) ==
  rule.constraints \in Seq(ToSet(rule.constraints)) /\ KindsOf(rule) = kinds

\* What the written constraints make of those that the rule had.
Merged(kinds, written, fromTemplate) == NotOverridden(kinds, written) \cup Kinds(written, fromTemplate)

\* A created constraint has the type of its name.
LEMMA CreatedIsOfType ==
  ASSUME NEW base \in ConstraintNames \ {"key"}, NEW ruleType, NEW caseSensitive, NEW value,
         ~IsFailure(CreateConstraint(base, ruleType, caseSensitive, value))
  PROVE  \E form, operands : CreateConstraint(base, ruleType, caseSensitive, value) = Constraint(base, form, operands)
<1> DEFINE IsMade(c, type) == IsFailure(c) \/ \E form, operands : c = Constraint(type, form, operands)
<1>1. \A type : IsMade(Failure, type)
  BY DEF IsFailure, Failure
<1>2. \A type, form, operands : IsMade(Constraint(type, form, operands), type)
  OBVIOUS
<1>3. \A type, t, node : IsMade(CreateOfType(type, t, node), type)
  <2> TAKE type, t, node
  <2>1. \/ CreateOfType(type, t, node) = Failure
        \/ \E form : CreateOfType(type, t, node) = Constraint(type, form, <<node.content>>)
    BY Zenon DEF CreateOfType
  <2> HIDE DEF IsMade
  <2> QED
    BY <1>1, <1>2, <2>1, Zenon
<1>4. \A type, node : IsMade(CreateForMatrix(type, node), type)
  <2> TAKE type, node
  <2>1. \/ CreateForMatrix(type, node) = Failure
        \/ \E operands : CreateForMatrix(type, node) = Constraint(type, "Matrix", operands)
    BY Zenon DEF CreateForMatrix
  <2> HIDE DEF IsMade
  <2> QED
    BY <1>1, <1>2, <2>1, Zenon
<1> HIDE DEF IsMade
<1>5. \A type, t, node : IsMade(CreateMinMax(type, t, node), type)
  BY <1>1, <1>3, <1>4, Zenon DEF CreateMinMax
<1>6. \A t, node : IsMade(CreateEquals(t, node), "equals")
  BY <1>1, <1>2, <1>3, <1>4, Zenon DEF CreateEquals
<1>7. \A t, node : IsMade(CreateMultiple(t, node), "multiple")
  <2> TAKE t, node
  <2>1. \/ CreateMultiple(t, node) = Failure
        \/ CreateMultiple(t, node) = CreateForMatrix("multiple", node)
        \/ CreateMultiple(t, node) = CreateOfType("multiple", t, node)
    BY Zenon DEF CreateMultiple
  <2> QED
    BY <1>1, <1>3, <1>4, <2>1, Zenon
<1>8. \A t, s, node : IsMade(CreateIn(t, s, node), "in")
  <2> TAKE t, s, node
  <2>1. \/ CreateIn(t, s, node) = Failure
        \/ \E operands : CreateIn(t, s, node) = Constraint("in", t, operands)
    BY Zenon DEF CreateIn
  <2> QED
    BY <1>1, <1>2, <2>1, Zenon
<1>9. \A type, t, node : IsMade(CreateTextPart(type, t, node), type)
  <2> TAKE type, t, node
  <2>1. \/ CreateTextPart(type, t, node) = Failure
        \/ \E operands : CreateTextPart(type, t, node) = Constraint(type, "Text", operands)
    BY Zenon DEF CreateTextPart
  <2> QED
    BY <1>1, <1>2, <2>1, Zenon
<1>10. \A t, node : IsMade(CreateChars(t, node), "chars")
  <2> TAKE t, node
  <2>1. \/ CreateChars(t, node) = Failure
        \/ \E operands : CreateChars(t, node) = Constraint("chars", "Text", operands)
    BY Zenon DEF CreateChars
  <2> QED
    BY <1>1, <1>2, <2>1, Zenon
<1>11. \A t, node : IsMade(CreateMatches(t, node), "matches")
  <2> TAKE t, node
  <2>1. \/ CreateMatches(t, node) = Failure
        \/ \E operands : CreateMatches(t, node) = Constraint("matches", "Text", operands)
    BY Zenon DEF CreateMatches
  <2> QED
    BY <1>1, <1>2, <2>1, Zenon
<1>12. IsMade(CreateConstraint(base, ruleType, caseSensitive, value), base)
  <2> DEFINE c == CreateConstraint(base, ruleType, caseSensitive, value)
  <2>1. CASE base \in {"minimum", "maximum"}
    <3>1. c = CreateMinMax(base, ruleType, value)
      BY <2>1 DEF CreateConstraint
    <3> QED
      BY <1>5, <3>1
  <2>2. CASE base = "equals"
    <3>1. c = CreateEquals(ruleType, value)
      BY <2>2 DEF CreateConstraint
    <3> QED
      BY <1>6, <2>2, <3>1
  <2>3. CASE base = "multiple"
    <3>1. c = CreateMultiple(ruleType, value)
      BY <2>3 DEF CreateConstraint
    <3> QED
      BY <1>7, <2>3, <3>1
  <2>4. CASE base = "in"
    <3>1. c = CreateIn(ruleType, caseSensitive, value)
      BY <2>4 DEF CreateConstraint
    <3> QED
      BY <1>8, <2>4, <3>1
  <2>5. CASE base \in {"starts", "ends", "contains"}
    <3>1. c = CreateTextPart(base, ruleType, value)
      BY <2>5 DEF CreateConstraint
    <3> QED
      BY <1>9, <3>1
  <2>6. CASE base = "chars"
    <3>1. c = CreateChars(ruleType, value)
      BY <2>6 DEF CreateConstraint
    <3> QED
      BY <1>10, <2>6, <3>1
  <2>7. CASE base = "matches"
    <3>1. c = CreateMatches(ruleType, value)
      BY <2>7 DEF CreateConstraint
    <3> QED
      BY <1>11, <2>7, <3>1
  <2> QED
    BY <2>1, <2>2, <2>3, <2>4, <2>5, <2>6, <2>7 DEF ConstraintNames
<1> QED
  BY <1>12 DEF IsMade

LEMMA CreatedFromValue ==
  ASSUME NEW rule, NEW value, value.base \in ConstraintNames, ~IsFailure(ConstraintFrom(rule, value))
  PROVE  \E form, operands : ConstraintFrom(rule, value) = Constraint(value.base, form, operands)
<1>1. CASE value.base = "key"
  <2>1. ConstraintFrom(rule, value) = CreateKey(value)
    BY <1>1 DEF ConstraintFrom
  <2>2. CreateKey(value) = Failure \/ CreateKey(value) = Constraint("key", "Key", ListOf(value, "Text"))
    BY Zenon DEF CreateKey
  <2>3. IsFailure(Failure)
    BY DEF IsFailure, Failure
  <2> QED
    BY <1>1, <2>1, <2>2, <2>3, Zenon
<1>2. CASE value.base # "key"
  <2>1. ConstraintFrom(rule, value) = CreateConstraint(value.base, rule.type, rule.caseSensitive, value)
    BY <1>2, Zenon DEF ConstraintFrom
  <2> QED
    BY <1>2, <2>1, CreatedIsOfType
<1> QED
  BY <1>1, <1>2

LEMMA KindsOfAdded ==
  ASSUME NEW old, NEW new, NEW c, ToSet(new.constraints) = {d \in ToSet(old.constraints) : d.type # c.type} \cup {c}
  PROVE  KindsOf(new) = {k \in KindsOf(old) : k[1] # c.type} \cup {<<c.type, c.negated, c.fromTemplate>>}
<1> DEFINE Kind(d) == <<d.type, d.negated, d.fromTemplate>>
           S == ToSet(old.constraints)
           T == ToSet(new.constraints)
<1>1. KindsOf(new) = {Kind(d) : d \in T} /\ KindsOf(old) = {Kind(d) : d \in S}
  BY DEF KindsOf
<1>2. \A d : Kind(d)[1] = d.type
  OBVIOUS
<1> HIDE DEF Kind, S, T
<1>3. T = {d \in S : d.type # c.type} \cup {c}
  BY DEF S, T
<1>4. {Kind(d) : d \in T} = {k \in {Kind(d) : d \in S} : k[1] # c.type} \cup {Kind(c)}
  BY <1>2, <1>3
<1> QED
  BY <1>1, <1>4 DEF Kind

\* A constraint is added, or replaces those of its type.
LEMMA ListOfAdded ==
  ASSUME NEW rule, IsRule(rule), rule.constraints \in Seq(ToSet(rule.constraints)), NEW c
  PROVE  LET new == AddOrOverwriteConstraint(rule, c)
         IN  /\ new.constraints \in Seq(ToSet(new.constraints))
             /\ ToSet(new.constraints) = {d \in ToSet(rule.constraints) : d.type # c.type} \cup {c}
             /\ new.type = rule.type /\ new.keys = rule.keys
<1> DEFINE old == rule.constraints
           replaced == [i \in DOMAIN old |-> IF old[i].type = c.type THEN c ELSE old[i]]
           list == IF HasConstraint(rule, c.type) THEN replaced ELSE Append(old, c)
           new == AddOrOverwriteConstraint(rule, c)
           n == Len(old)
           S == ToSet(old) \cup {c}
<1>1. new.constraints = list /\ new.type = rule.type /\ new.keys = rule.keys
  BY DEF AddOrOverwriteConstraint, IsRule
<1>2. n \in Nat /\ DOMAIN old = 1 .. n /\ \A i \in 1 .. n : old[i] \in S
  BY DEF ToSet
<1>3. CASE HasConstraint(rule, c.type)
  <2>1. list = replaced
    BY <1>3
  <2>2. PICK i \in DOMAIN old : old[i].type = c.type
    BY <1>3 DEF HasConstraint
  <2>3. replaced \in Seq(S)
    BY <1>2
  <2>4. replaced \in Seq(ToSet(replaced))
    <3> HIDE DEF replaced, S
    <3> QED
      BY <2>3, IsOfItsElements
  <2>5. ToSet(replaced) = {d \in ToSet(old) : d.type # c.type} \cup {c}
    BY <2>2 DEF ToSet
  <2> HIDE DEF replaced, new, list
  <2> QED
    BY <1>1, <2>1, <2>4, <2>5 DEF new
<1>4. CASE ~HasConstraint(rule, c.type)
  <2>1. list = Append(old, c)
    BY <1>4
  <2>2. /\ Append(old, c) \in Seq(ToSet(Append(old, c)))
        /\ DOMAIN Append(old, c) = 1 .. n + 1
        /\ \A i \in 1 .. n : Append(old, c)[i] = old[i]
        /\ Append(old, c)[n + 1] = c
    BY AppendedSequence
  <2>3. \A d \in ToSet(old) : d.type # c.type
    BY <1>4 DEF HasConstraint, ToSet
  <2> DEFINE more == Append(old, c)
  <2> HIDE DEF more, n
  <2>4. ToSet(more) = ToSet(old) \cup {c}
    <3>1. 1 .. n + 1 = (1 .. n) \cup {n + 1}
      BY <1>2
    <3>2. ToSet(more) = {more[i] : i \in 1 .. n + 1} /\ ToSet(old) = {old[i] : i \in 1 .. n}
      BY <1>2, <2>2 DEF ToSet, more
    <3>3. (\A i \in 1 .. n : more[i] = old[i]) /\ more[n + 1] = c
      BY <2>2 DEF more
    <3>4. {more[i] : i \in (1 .. n) \cup {n + 1}} = {old[i] : i \in 1 .. n} \cup {c}
      BY <3>3
    <3> QED
      BY <3>1, <3>2, <3>4, Zenon
  <2>5. ToSet(more) = {d \in ToSet(old) : d.type # c.type} \cup {c}
    BY <2>3, <2>4
  <2>6. list = more /\ more \in Seq(ToSet(more))
    BY <2>1, <2>2 DEF more
  <2> HIDE DEF new, list
  <2> QED
    BY <1>1, <2>5, <2>6 DEF new
<1> QED
  BY <1>3, <1>4

LEMMA ConstraintIsAdded ==
  ASSUME NEW rule, IsRule(rule), rule.constraints \in Seq(ToSet(rule.constraints)), NEW c
  PROVE  LET new == AddOrOverwriteConstraint(rule, c)
         IN  HasKinds(new, {k \in KindsOf(rule) : k[1] # c.type} \cup {<<c.type, c.negated, c.fromTemplate>>})
BY ListOfAdded, KindsOfAdded DEF HasKinds

\* The constraint replaces those of its type, of which one comes from the other place.
WithKind(kinds, value, fromTemplate) ==
  {k \in kinds : k[1] # value.base} \cup {<<value.base, value.negated, fromTemplate>>}
CanOverwrite(kinds, value, fromTemplate) ==
  (\E k \in kinds : k[1] = value.base) => \E k \in kinds : k[1] = value.base /\ k[3] # fromTemplate

\* A constraint of a type that the rule has from the same place is refused.
LEMMA KindsOfConstraint ==
  ASSUME NEW rule, IsRule(rule), rule.constraints \in Seq(ToSet(rule.constraints)), NEW value,
         value.base \in ConstraintNames, NEW fromTemplate,
         NEW new, new = AddConstraint(rule, value, fromTemplate), ~IsFailure(new)
  PROVE  HasKinds(new, WithKind(KindsOf(rule), value, fromTemplate)) /\ CanOverwrite(KindsOf(rule), value, fromTemplate)
<1> DEFINE created == ConstraintFrom(rule, value)
           c == [type |-> created.type, form |-> created.form, operands |-> created.operands,
                 negated |-> value.negated, fromTemplate |-> fromTemplate]
           conflict == /\ HasConstraint(rule, created.type)
                       /\ ConstraintOf(rule, created.type).fromTemplate = fromTemplate
<1>1. IsFailure(Failure)
  BY DEF IsFailure, Failure
<1>2. ~IsFailure(created) /\ ~conflict /\ new = AddOrOverwriteConstraint(rule, c)
  <2>1. new =
          IF IsFailure(created) THEN Failure
          ELSE IF conflict THEN Failure ELSE AddOrOverwriteConstraint(rule, c)
    BY Zenon DEF AddConstraint
  <2> HIDE DEF created, conflict, c
  <2> QED
    BY <1>1, <2>1, Zenon
<1>3. PICK form, operands : created = Constraint(value.base, form, operands)
  BY <1>2, CreatedFromValue
<1>4. created.type = value.base
  BY <1>3 DEF Constraint
<1>5. c.type = value.base /\ c.negated = value.negated /\ c.fromTemplate = fromTemplate
  <2> HIDE DEF created
  <2> QED
    BY <1>4
<1> HIDE DEF created, c
<1>6. HasKinds(AddOrOverwriteConstraint(rule, c),
               {k \in KindsOf(rule) : k[1] # value.base} \cup {<<value.base, value.negated, fromTemplate>>})
  <2>1. HasKinds(AddOrOverwriteConstraint(rule, c),
                 {k \in KindsOf(rule) : k[1] # c.type} \cup {<<c.type, c.negated, c.fromTemplate>>})
    BY ConstraintIsAdded
  <2> QED
    BY <1>5, <2>1, Zenon
<1>7. ASSUME NEW k \in KindsOf(rule), k[1] = value.base
      PROVE  \E j \in KindsOf(rule) : j[1] = value.base /\ j[3] # fromTemplate
  <2> DEFINE list == rule.constraints
  <2>1. PICK d \in ToSet(list) : k = <<d.type, d.negated, d.fromTemplate>>
    BY DEF KindsOf
  <2>2. PICK i \in DOMAIN list : list[i].type = value.base
    BY <1>7, <2>1 DEF ToSet
  <2>3. HasConstraint(rule, value.base)
    BY <2>2 DEF HasConstraint
  <2> DEFINE i0 == CHOOSE j \in DOMAIN list : list[j].type = value.base
  <2>4. i0 \in DOMAIN list /\ list[i0].type = value.base
    BY <2>2
  <2>5. list[i0].fromTemplate # fromTemplate
    <3>1. ConstraintOf(rule, value.base) = list[i0]
      BY DEF ConstraintOf
    <3> HIDE DEF i0
    <3> QED
      BY <1>2, <1>4, <2>3, <3>1
  <2> HIDE DEF i0
  <2>6. list[i0] \in ToSet(list)
    BY <2>4 DEF ToSet
  <2> DEFINE j == <<list[i0].type, list[i0].negated, list[i0].fromTemplate>>
  <2>7. j \in KindsOf(rule) /\ j[1] = value.base /\ j[3] # fromTemplate
    BY <2>4, <2>5, <2>6 DEF KindsOf
  <2> QED
    BY <2>7
<1> QED
  BY <1>2, <1>6, <1>7 DEF WithKind, CanOverwrite

\* Another value changes no constraint.
LEMMA KindsOfValue ==
  ASSUME NEW rule, IsRule(rule), NEW value, NEW fromTemplate,
         ~IsFailure(HandleConstraintAndAttributes(rule, value, fromTemplate))
  PROVE  IF value.base \in ConstraintNames /\ ~value.error
         THEN HandleConstraintAndAttributes(rule, value, fromTemplate) = AddConstraint(rule, value, fromTemplate)
         ELSE HandleConstraintAndAttributes(rule, value, fromTemplate).constraints = rule.constraints
<1> DEFINE new == HandleConstraintAndAttributes(rule, value, fromTemplate)
<1>1. IsFailure(Failure) /\ ~IsFailure(rule)
  BY DEF IsFailure, Failure, IsRule
<1>2. CASE value.base \in ConstraintNames /\ ~value.error
  <2>1. ~IsHandledBefore(value)
    BY <1>2 DEF IsHandledBefore, HandledBefore, ConstraintNames
  <2>2. new = Failure \/ new = AddConstraint(rule, value, fromTemplate)
    BY <1>1, <1>2, <2>1, Zenon DEF HandleConstraintAndAttributes
  <2> QED
    BY <1>1, <1>2, <2>2, Zenon
<1>3. CASE ~(value.base \in ConstraintNames /\ ~value.error)
  <2>1. LimitVersions(rule, value).constraints = rule.constraints
    <3>1. \A x : [rule EXCEPT !.versions = x].constraints = rule.constraints
      BY DEF IsRule
    <3>2. \E x : LimitVersions(rule, value) = [rule EXCEPT !.versions = x]
      BY Zenon DEF LimitVersions
    <3> QED
      BY <3>1, <3>2, Zenon
  <2>2. SetAttribute(rule, value) = Failure \/ SetAttribute(rule, value).constraints = rule.constraints
    <3>1. \A x : /\ [rule EXCEPT !.optional = x].constraints = rule.constraints
                 /\ [rule EXCEPT !.secret = x].constraints = rule.constraints
                 /\ [rule EXCEPT !.default = x].constraints = rule.constraints
      BY DEF IsRule
    <3>2. \/ SetAttribute(rule, value) = Failure
          \/ SetAttribute(rule, value) = rule
          \/ SetAttribute(rule, value) = [rule EXCEPT !.optional = value.content]
          \/ SetAttribute(rule, value) = [rule EXCEPT !.secret = value.content]
          \/ SetAttribute(rule, value) = [rule EXCEPT !.default = [type |-> value.type, content |-> value.content]]
      BY DEF SetAttribute
    <3> DEFINE default == [type |-> value.type, content |-> value.content]
    <3>3. [rule EXCEPT !.default = default].constraints = rule.constraints
      BY <3>1
    <3> HIDE DEF default
    <3>4. SetAttribute(rule, value) = [rule EXCEPT !.default = default] =>
            SetAttribute(rule, value).constraints = rule.constraints
      BY <3>3, Zenon
    <3>5. SetAttribute(rule, value) = [rule EXCEPT !.optional = value.content] =>
            SetAttribute(rule, value).constraints = rule.constraints
      BY <3>1, Zenon
    <3>6. SetAttribute(rule, value) = [rule EXCEPT !.secret = value.content] =>
            SetAttribute(rule, value).constraints = rule.constraints
      BY <3>1, Zenon
    <3> QED
      BY <3>2, <3>4, <3>5, <3>6, Zenon DEF default
  <2>3. new = rule \/ new = Failure \/ new = LimitVersions(rule, value) \/ new = SetAttribute(rule, value)
    BY <1>3, Zenon DEF HandleConstraintAndAttributes
  <2> HIDE DEF new
  <2>4. new.constraints = rule.constraints
    <3>1. ~IsFailure(new)
      BY DEF new
    <3> QED
      BY <1>1, <2>1, <2>2, <2>3, <3>1, Zenon
  <2> QED
    BY <1>3, <2>4 DEF new
<1> QED
  BY <1>2, <1>3

LEMMA MergedWithOne ==
  ASSUME NEW kinds, NEW written, NEW value, NEW fromTemplate,
         CanOverwrite(Merged(kinds, written, fromTemplate), value, fromTemplate)
  PROVE  WithKind(Merged(kinds, written, fromTemplate), value, fromTemplate)
           = Merged(kinds, written \cup {value}, fromTemplate)
<1> DEFINE Kind(v) == <<v.base, v.negated, fromTemplate>>
           M == Merged(kinds, written, fromTemplate)
<1>1. \A v : Kind(v)[1] = v.base /\ Kind(v)[3] = fromTemplate
  OBVIOUS
<1>2. \A W : Merged(kinds, W, fromTemplate) = {k \in kinds : \A v \in W : k[1] # v.base} \cup {Kind(v) : v \in W}
  BY DEF Merged, NotOverridden, Kinds
<1> HIDE DEF Kind
<1>3. M = {k \in kinds : \A v \in written : k[1] # v.base} \cup {Kind(v) : v \in written}
  BY <1>2, Zenon
<1> HIDE DEF M
<1>4. ASSUME NEW v \in written, v.base = value.base
      PROVE  FALSE
  <2>1. Kind(v) \in M /\ Kind(v)[1] = value.base
    BY <1>1, <1>3, <1>4
  <2>2. PICK k \in M : k[1] = value.base /\ k[3] # fromTemplate
    BY <2>1 DEF M, CanOverwrite
  <2>3. CASE \A w \in written : k[1] # w.base
    BY <1>4, <2>2, <2>3
  <2>4. CASE \E w \in written : k = Kind(w)
    BY <1>1, <2>2, <2>4
  <2> QED
    BY <1>3, <2>2, <2>3, <2>4
<1>5. {k \in M : k[1] # value.base} \cup {Kind(value)}
        = {k \in kinds : \A v \in written \cup {value} : k[1] # v.base} \cup {Kind(v) : v \in written \cup {value}}
  BY <1>1, <1>3, <1>4
<1>6. Merged(kinds, written \cup {value}, fromTemplate)
        = {k \in kinds : \A v \in written \cup {value} : k[1] # v.base} \cup {Kind(v) : v \in written \cup {value}}
  BY <1>2, Zenon
<1> QED
  BY <1>5, <1>6 DEF Kind, M, WithKind

IsWritten(value) == value.base \in ConstraintNames /\ ~value.error

\* The written constraints replace those of their types.
LEMMA KindsOfValues ==
  ASSUME NEW rule, IsRule(rule), rule.constraints \in Seq(ToSet(rule.constraints)),
         NEW values, values \in Seq(ToSet(values)), NEW fromTemplate,
         ~IsFailure(Fold(rule, values, "values", fromTemplate))
  PROVE  HasKinds(Fold(rule, values, "values", fromTemplate),
                  Merged(KindsOf(rule), {v \in ToSet(values) : IsWritten(v)}, fromTemplate))
<1> DEFINE n == Len(values)
           result == Fold(rule, values, "values", fromTemplate)
           kinds == KindsOf(rule)
           W(i) == {v \in {values[j] : j \in 1 .. i} : IsWritten(v)}
<1>1. n \in Nat /\ DOMAIN values = 1 .. n
  OBVIOUS
<1>2. "values" \in FoldKinds
  BY DEF FoldKinds
<1>3. W(n) = {v \in ToSet(values) : IsWritten(v)}
  BY <1>1 DEF ToSet
<1> HIDE DEF n
<1>4. PICK f : IsFold(f, rule, values, n, "values", fromTemplate) /\ result = f[1 .. n]
  BY <1>1, <1>2, FoldIsLast
<1>5. /\ f[{}] = rule
      /\ \A i \in 1 .. n : f[1 .. i] = Step(f[1 .. i - 1], values[i], "values", fromTemplate)
  BY <1>1, <1>4, FoldOnTheWay
<1> DEFINE P(r, i) == IsFailure(r) \/ (IsRule(r) /\ HasKinds(r, Merged(kinds, W(i), fromTemplate)))
           S == {i \in 0 .. n : P(f[1 .. i], i)}
<1>6. 0 \in S
  <2>1. 0 \in 0 .. n /\ 1 .. 0 = {} /\ f[1 .. 0] = rule
    BY <1>1, <1>5
  <2>2. W(0) = {}
    BY <2>1
  <2>3. Merged(kinds, {}, fromTemplate) = kinds
    BY DEF Merged, NotOverridden, Kinds
  <2> HIDE DEF W
  <2> QED
    BY <2>1, <2>2, <2>3 DEF HasKinds
<1>7. ASSUME NEW i \in 0 .. n - 1, i \in S
      PROVE  i + 1 \in S
  <2> DEFINE v == f[1 .. i]
             w == f[1 .. i + 1]
             value == values[i + 1]
  <2>1. i \in Nat /\ i + 1 \in 1 .. n /\ i + 1 \in 0 .. n /\ (i + 1) - 1 = i
    BY <1>1
  <2>2. w = HandleConstraintAndAttributes(v, value, fromTemplate)
    <3>1. w = Step(f[1 .. (i + 1) - 1], value, "values", fromTemplate)
      BY <1>5, <2>1, Zenon
    <3>2. w = Step(v, value, "values", fromTemplate)
      BY <2>1, <3>1
    <3>3. \A r, x : Step(r, x, "values", fromTemplate) = HandleConstraintAndAttributes(r, x, fromTemplate)
      BY DEF Step
    <3> QED
      BY <3>2, <3>3, Zenon
  <2>3. P(v, i)
    BY <1>7
  <2>4. W(i + 1) = IF IsWritten(value) THEN W(i) \cup {value} ELSE W(i)
    <3>1. 1 .. i + 1 = (1 .. i) \cup {i + 1}
      BY <2>1
    <3>2. {values[j] : j \in 1 .. i + 1} = {values[j] : j \in 1 .. i} \cup {value}
      BY <3>1
    <3> QED
      BY <3>2
  <2> HIDE DEF v, w, W, value
  <2>5. P(w, i + 1)
    <3>1. CASE IsFailure(v)
      <4>1. w = v
        BY <2>2, <3>1, Zenon DEF HandleConstraintAndAttributes
      <4> QED
        BY <3>1, <4>1
    <3>2. CASE IsFailure(w)
      BY <3>2
    <3>3. CASE ~IsFailure(v) /\ ~IsFailure(w)
      <4>1. IsRule(v) /\ HasKinds(v, Merged(kinds, W(i), fromTemplate))
        BY <2>3, <3>3
      <4>2. IsRule(w)
        <5>1. IsRevised(v, w)
          BY <2>2, <4>1, RevisedByValue
        <5> QED
          BY <3>3, <5>1 DEF IsRevised
      <4>3. v.constraints \in Seq(ToSet(v.constraints)) /\ KindsOf(v) = Merged(kinds, W(i), fromTemplate)
        BY <4>1 DEF HasKinds
      <4>4. CASE IsWritten(value)
        <5>1. value.base \in ConstraintNames /\ ~value.error
          BY <4>4 DEF IsWritten
        <5>2. w = AddConstraint(v, value, fromTemplate)
          BY <2>2, <3>3, <4>1, <5>1, KindsOfValue
        <5>3. HasKinds(w, WithKind(KindsOf(v), value, fromTemplate)) /\ CanOverwrite(KindsOf(v), value, fromTemplate)
          BY <3>3, <4>1, <4>3, <5>1, <5>2, KindsOfConstraint
        <5>4. WithKind(KindsOf(v), value, fromTemplate) = Merged(kinds, W(i) \cup {value}, fromTemplate)
          BY <4>3, <5>3, MergedWithOne
        <5> QED
          BY <2>4, <4>2, <4>4, <5>3, <5>4
      <4>5. CASE ~IsWritten(value)
        <5>1. w.constraints = v.constraints
          BY <2>2, <3>3, <4>1, <4>5, KindsOfValue DEF IsWritten
        <5>2. HasKinds(w, Merged(kinds, W(i), fromTemplate))
          BY <4>1, <5>1 DEF HasKinds, KindsOf
        <5> QED
          BY <2>4, <4>2, <4>5, <5>2
      <4> QED
        BY <4>4, <4>5
    <3> QED
      BY <3>1, <3>2, <3>3
  <2> QED
    BY <2>1, <2>5 DEF w
<1> HIDE DEF S
<1>8. \A i \in 0 .. n : i \in S
  BY <1>1, <1>6, <1>7, RangeInduction
<1>9. n \in S
  BY <1>1, <1>8
<1> HIDE DEF result, W
<1>10. P(result, n)
  BY <1>4, <1>9 DEF S
<1>11. ~IsFailure(result)
  BY DEF result
<1> QED
  BY <1>3, <1>10, <1>11 DEF result

LEMMA KindsOfNode ==
  ASSUME NEW rule, IsRule(rule), rule.constraints \in Seq(ToSet(rule.constraints)),
         NEW doc, NEW node, node.values \in Seq(ToSet(node.values)), ~IsFailure(WithOwnValues(doc, node, rule))
  PROVE  HasKinds(WithOwnValues(doc, node, rule), Merged(KindsOf(rule), Written(node), IsTemplate(node)))
<1> DEFINE prepared == HandleCaseSensitive(doc, node, rule)
           values == node.values
           fromTemplate == IsTemplate(node)
           handled == Fold(prepared, values, "values", fromTemplate)
           result == WithOwnValues(doc, node, rule)
<1>1. IsFailure(Failure)
  BY DEF IsFailure, Failure
<1>2. ~IsFailure(prepared) /\ result = ProcessCommonNodeRules(doc, node, prepared)
  BY <1>1, Zenon DEF WithOwnValues
<1>3. IsRule(prepared) /\ prepared.constraints = rule.constraints
  <2>1. \/ prepared = rule \/ prepared = Failure
        \/ \E x : prepared = [rule EXCEPT !.caseSensitive = x]
    BY Zenon DEF HandleCaseSensitive
  <2>2. \A x : [rule EXCEPT !.caseSensitive = x].constraints = rule.constraints
    BY DEF IsRule
  <2>3. \A x : IsRevised(rule, [rule EXCEPT !.caseSensitive = x])
    BY RuleIsRevised
  <2> HIDE DEF prepared
  <2>4. ASSUME NEW x, prepared = [rule EXCEPT !.caseSensitive = x]
        PROVE  IsRule(prepared) /\ prepared.constraints = rule.constraints
    BY <1>2, <2>2, <2>3, <2>4, Zenon DEF IsRevised
  <2>5. CASE prepared = rule
    BY <2>5
  <2> QED
    BY <1>1, <1>2, <2>1, <2>4, <2>5, Zenon
<1>4. result = handled
  <2>1. \/ ProcessCommonNodeRules(doc, node, prepared) =
             FoldLeft(LAMBDA r, v : HandleConstraintAndAttributes(r, v, fromTemplate), prepared, values)
        \/ ProcessCommonNodeRules(doc, node, prepared) = Failure
    <3> HIDE DEF prepared
    <3> QED
      BY DEF ProcessCommonNodeRules
  <2>2. FoldLeft(LAMBDA r, v : HandleConstraintAndAttributes(r, v, fromTemplate), prepared, values) = handled
    <3> HIDE DEF prepared, fromTemplate, values
    <3> QED
      BY DEF Fold
  <2> HIDE DEF prepared, handled
  <2>3. ~IsFailure(result)
    OBVIOUS
  <2> HIDE DEF result
  <2> QED
    BY <1>1, <1>2, <2>1, <2>2, <2>3
<1> HIDE DEF prepared, fromTemplate, result
<1>5. ~IsFailure(handled)
  <2> HIDE DEF handled
  <2> QED
    BY <1>4 DEF result
<1>6. HasKinds(handled, Merged(KindsOf(prepared), {v \in ToSet(values) : IsWritten(v)}, fromTemplate))
  <2> HIDE DEF values
  <2>1. values \in Seq(ToSet(values))
    BY DEF values
  <2> QED
    BY <1>3, <1>5, <2>1, KindsOfValues
<1>7. KindsOf(prepared) = KindsOf(rule) /\ {v \in ToSet(values) : IsWritten(v)} = Written(node)
  BY <1>3 DEF KindsOf, IsWritten, Written
<1> QED
  BY <1>4, <1>6, <1>7 DEF result, fromTemplate

-----------------------------------------------------------------------------
(* The soundness of a rule: its type, the classes of its limits and the    *)
(* paths of its keys.                                                      *)

LimitNames == {"minimum", "maximum"}
LimitsFit(rule) ==
  \A c \in ToSet(rule.constraints) : c.type \in LimitNames => c.form = LimitForm(rule.type)
KeysArePaths(keys) ==
  keys \in Seq(ToSet(keys)) /\ \A i \in DOMAIN keys : \A n \in DOMAIN keys[i].keys : keys[i].keys[n] \in Seq(STRING)

IsSound(rule) ==
  /\ rule.type # Undefined
  /\ rule.constraints \in Seq(ToSet(rule.constraints)) /\ LimitsFit(rule)
  /\ KeysArePaths(rule.keys)

\* A limit is created with the class that the type of the rule calls for.
LEMMA LimitHasForm ==
  ASSUME NEW type \in LimitNames, NEW ruleType, NEW node, ~IsFailure(CreateMinMax(type, ruleType, node))
  PROVE  CreateMinMax(type, ruleType, node).form = LimitForm(ruleType)
<1>1. IsFailure(Failure)
  BY DEF IsFailure, Failure
<1>2. \A form, operands : Constraint(type, form, operands).form = form
  BY DEF Constraint
<1>3. CASE ruleType = "ValueMatrix"
  <2>1. CreateMinMax(type, ruleType, node) = CreateForMatrix(type, node)
    BY <1>3 DEF CreateMinMax
  <2>2. CreateForMatrix(type, node) = Failure \/ \E operands : CreateForMatrix(type, node) = Constraint(type, "Matrix", operands)
    BY Zenon DEF CreateForMatrix
  <2>3. LimitForm(ruleType) = "Matrix"
    BY <1>3 DEF LimitForm, CountedTypes
  <2> QED
    BY <1>1, <1>2, <2>1, <2>2, <2>3, Zenon
<1>4. CASE ruleType \in CountedTypes \cup {"Integer", "Float", "Date", "DateTime"}
  <2> DEFINE expected == IF ruleType \in CountedTypes THEN "Integer" ELSE ruleType
  <2>1. CreateMinMax(type, ruleType, node) = CreateOfType(type, ruleType, node)
    BY <1>4 DEF CreateMinMax, CountedTypes
  <2>2. \/ CreateOfType(type, ruleType, node) = Failure
        \/ CreateOfType(type, ruleType, node) = Constraint(type, expected, <<node.content>>)
    BY Zenon DEF CreateOfType
  <2>3. LimitForm(ruleType) = expected
    BY <1>4 DEF LimitForm, CountedTypes
  <2> HIDE DEF expected
  <2> QED
    BY <1>1, <1>2, <2>1, <2>2, <2>3, Zenon
<1>5. CASE ruleType \notin CountedTypes \cup {"ValueMatrix", "Integer", "Float", "Date", "DateTime"}
  <2>1. CreateMinMax(type, ruleType, node) = Failure
    BY <1>5 DEF CreateMinMax
  <2> QED
    BY <1>1, <2>1
<1> QED
  BY <1>3, <1>4, <1>5

\* What is read is sound, unless it is refused.
IsSoundResult(result) == IsFailure(result) \/ (IsRule(result) /\ IsSound(result))

IsBare(rule) == rule.constraints = <<>> /\ rule.keys = <<>>

LEMMA BareIsSound ==
  ASSUME NEW rule, IsRule(rule), IsBare(rule), NEW type, type # Undefined
  PROVE  /\ IsSoundResult([rule EXCEPT !.type = type])
         /\ \A target : IsSoundResult([rule EXCEPT !.target = target, !.type = type])
<1>1. ASSUME NEW new, IsRule(new), new.type = type, IsBare(new)
      PROVE  IsSoundResult(new)
  <2>1. <<>> \in Seq(ToSet(<<>>)) /\ ToSet(<<>>) = {} /\ DOMAIN <<>> = {}
    BY DEF ToSet
  <2> QED
    BY <1>1, <2>1 DEF IsSoundResult, IsSound, LimitsFit, KeysArePaths, IsBare
<1>2. IsSoundResult([rule EXCEPT !.type = type])
  <2> DEFINE new == [rule EXCEPT !.type = type]
  <2>1. IsRule(new) /\ new.type = type /\ IsBare(new)
    BY DEF IsRule, IsBare
  <2> HIDE DEF new
  <2>2. IsSoundResult(new)
    BY <1>1, <2>1
  <2> QED
    BY <2>2 DEF new
<1>3. ASSUME NEW target
      PROVE  IsSoundResult([rule EXCEPT !.target = target, !.type = type])
  <2> DEFINE named == [rule EXCEPT !.target = target]
             new == [named EXCEPT !.type = type]
  <2>1. [rule EXCEPT !.target = target, !.type = type] = new
    OBVIOUS
  <2>2. IsRule(named) /\ IsBare(named)
    BY DEF IsRule, IsBare
  <2> HIDE DEF named
  <2>3. IsRule(new) /\ new.type = type /\ IsBare(new)
    BY <2>2 DEF IsRule, IsBare
  <2> HIDE DEF new
  <2>4. IsSoundResult(new)
    BY <1>1, <2>3
  <2> QED
    BY <2>1, <2>4
<1> QED
  BY <1>2, <1>3

\* A value that is read leaves the rule sound.
LEMMA SoundByConstraint ==
  ASSUME NEW rule, IsRule(rule), IsSound(rule), NEW value, value.base \in ConstraintNames, NEW fromTemplate,
         NEW new, new = AddConstraint(rule, value, fromTemplate), ~IsFailure(new)
  PROVE  IsSound(new)
<1> DEFINE created == ConstraintFrom(rule, value)
           c == [type |-> created.type, form |-> created.form, operands |-> created.operands,
                 negated |-> value.negated, fromTemplate |-> fromTemplate]
<1>1. ~IsFailure(created) /\ new = AddOrOverwriteConstraint(rule, c)
  <2> DEFINE conflict == /\ HasConstraint(rule, created.type)
                         /\ ConstraintOf(rule, created.type).fromTemplate = fromTemplate
  <2>1. new =
          IF IsFailure(created) THEN Failure
          ELSE IF conflict THEN Failure ELSE AddOrOverwriteConstraint(rule, c)
    BY Zenon DEF AddConstraint
  <2>2. IsFailure(Failure)
    BY DEF IsFailure, Failure
  <2> HIDE DEF created, conflict, c
  <2> QED
    BY <2>1, <2>2, Zenon
<1>2. PICK form, operands : created = Constraint(value.base, form, operands)
  BY <1>1, CreatedFromValue
<1>3. created.type = value.base
  BY <1>2 DEF Constraint
<1>4. value.base \in LimitNames => created.form = LimitForm(rule.type)
  <2> SUFFICES ASSUME value.base \in LimitNames
               PROVE  created.form = LimitForm(rule.type)
    OBVIOUS
  <2>1. created = CreateConstraint(value.base, rule.type, rule.caseSensitive, value)
    BY Zenon DEF ConstraintFrom, LimitNames
  <2>2. created = CreateMinMax(value.base, rule.type, value)
    BY <2>1 DEF CreateConstraint, LimitNames
  <2> HIDE DEF created
  <2> QED
    BY <1>1, <2>2, LimitHasForm
<1>5. c.type = value.base /\ c.form = created.form
  <2> HIDE DEF created
  <2> QED
    BY <1>3
<1> HIDE DEF created, c
<1>6. /\ new.constraints \in Seq(ToSet(new.constraints))
      /\ ToSet(new.constraints) = {d \in ToSet(rule.constraints) : d.type # c.type} \cup {c}
      /\ new.type = rule.type /\ new.keys = rule.keys
  <2> DEFINE result == AddOrOverwriteConstraint(rule, c)
  <2>1. rule.constraints \in Seq(ToSet(rule.constraints))
    BY DEF IsSound
  <2>2. /\ result.constraints \in Seq(ToSet(result.constraints))
        /\ ToSet(result.constraints) = {d \in ToSet(rule.constraints) : d.type # c.type} \cup {c}
        /\ result.type = rule.type /\ result.keys = rule.keys
    BY <2>1, ListOfAdded
  <2>3. new = result
    BY <1>1
  <2> HIDE DEF result
  <2> QED
    BY <2>2, <2>3
<1> QED
  BY <1>4, <1>5, <1>6 DEF IsSound, LimitsFit

LEMMA SoundByValue ==
  ASSUME NEW rule, IsRule(rule), IsSound(rule), NEW value, NEW fromTemplate,
         NEW new, new = HandleConstraintAndAttributes(rule, value, fromTemplate), ~IsFailure(new)
  PROVE  IsSound(new)
<1>1. IsFailure(Failure) /\ ~IsFailure(rule)
  BY DEF IsFailure, Failure, IsRule
<1>2. CASE value.base \in ConstraintNames /\ ~value.error
  <2>1. new = AddConstraint(rule, value, fromTemplate)
    BY <1>2, KindsOfValue
  <2> QED
    BY <1>2, <2>1, SoundByConstraint
<1>3. CASE ~(value.base \in ConstraintNames /\ ~value.error)
  <2> DEFINE IsSame(r) == r.type = rule.type /\ r.keys = rule.keys /\ r.constraints = rule.constraints
  <2>1. IsSame(rule)
    OBVIOUS
  <2>2. \A x : /\ IsSame([rule EXCEPT !.versions = x]) /\ IsSame([rule EXCEPT !.optional = x])
               /\ IsSame([rule EXCEPT !.secret = x]) /\ IsSame([rule EXCEPT !.default = x])
    BY DEF IsRule
  <2> HIDE DEF IsSame
  <2>3. IsSame(LimitVersions(rule, value))
    <3>1. \E x : LimitVersions(rule, value) = [rule EXCEPT !.versions = x]
      BY Zenon DEF LimitVersions
    <3> QED
      BY <2>2, <3>1, Zenon
  <2>4. SetAttribute(rule, value) = Failure \/ IsSame(SetAttribute(rule, value))
    <3>1. \/ SetAttribute(rule, value) = Failure
          \/ SetAttribute(rule, value) = rule
          \/ SetAttribute(rule, value) = [rule EXCEPT !.optional = value.content]
          \/ SetAttribute(rule, value) = [rule EXCEPT !.secret = value.content]
          \/ SetAttribute(rule, value) = [rule EXCEPT !.default = [type |-> value.type, content |-> value.content]]
      BY DEF SetAttribute
    <3> QED
      BY <2>1, <2>2, <3>1, Zenon
  <2>5. new = rule \/ new = Failure \/ new = LimitVersions(rule, value) \/ new = SetAttribute(rule, value)
    BY <1>3, Zenon DEF HandleConstraintAndAttributes
  <2>6. IsSame(new)
    BY <1>1, <2>1, <2>3, <2>4, <2>5, Zenon
  <2> QED
    BY <2>6 DEF IsSame, IsSound, LimitsFit
<1> QED
  BY <1>2, <1>3

LEMMA SoundByValues ==
  ASSUME NEW rule, IsRule(rule), IsSound(rule), NEW values, values \in Seq(ToSet(values)), NEW fromTemplate
  PROVE  IsSoundResult(Fold(rule, values, "values", fromTemplate))
<1> DEFINE n == Len(values)
           result == Fold(rule, values, "values", fromTemplate)
<1>1. n \in Nat /\ DOMAIN values = 1 .. n
  OBVIOUS
<1>2. "values" \in FoldKinds
  BY DEF FoldKinds
<1> HIDE DEF n
<1>3. PICK f : IsFold(f, rule, values, n, "values", fromTemplate) /\ result = f[1 .. n]
  BY <1>1, <1>2, FoldIsLast
<1>4. /\ f[{}] = rule
      /\ \A i \in 1 .. n : f[1 .. i] = Step(f[1 .. i - 1], values[i], "values", fromTemplate)
  BY <1>1, <1>3, FoldOnTheWay
<1> DEFINE S == {i \in 0 .. n : IsSoundResult(f[1 .. i])}
<1>5. 0 \in S
  <2>1. 0 \in 0 .. n /\ 1 .. 0 = {} /\ f[1 .. 0] = rule
    BY <1>1, <1>4
  <2> QED
    BY <2>1 DEF IsSoundResult
<1>6. ASSUME NEW i \in 0 .. n - 1, i \in S
      PROVE  i + 1 \in S
  <2> DEFINE v == f[1 .. i]
             w == f[1 .. i + 1]
             value == values[i + 1]
  <2>1. i \in Nat /\ i + 1 \in 1 .. n /\ i + 1 \in 0 .. n /\ (i + 1) - 1 = i
    BY <1>1
  <2>2. w = HandleConstraintAndAttributes(v, value, fromTemplate)
    <3>1. w = Step(f[1 .. (i + 1) - 1], value, "values", fromTemplate)
      BY <1>4, <2>1, Zenon
    <3>2. w = Step(v, value, "values", fromTemplate)
      BY <2>1, <3>1
    <3>3. \A r, x : Step(r, x, "values", fromTemplate) = HandleConstraintAndAttributes(r, x, fromTemplate)
      BY DEF Step
    <3> QED
      BY <3>2, <3>3, Zenon
  <2>3. IsSoundResult(v)
    BY <1>6
  <2> HIDE DEF v, w, value
  <2>4. IsSoundResult(w)
    <3>1. CASE IsFailure(v)
      <4>1. w = v
        BY <2>2, <3>1, Zenon DEF HandleConstraintAndAttributes
      <4> QED
        BY <2>3, <4>1
    <3>2. CASE IsFailure(w)
      BY <3>2 DEF IsSoundResult
    <3>3. CASE ~IsFailure(v) /\ ~IsFailure(w)
      <4>1. IsRule(v) /\ IsSound(v)
        BY <2>3, <3>3 DEF IsSoundResult
      <4>2. IsRevised(v, w)
        BY <2>2, <4>1, RevisedByValue
      <4>3. IsRule(w)
        BY <3>3, <4>2 DEF IsRevised
      <4>4. IsSound(w)
        BY <2>2, <3>3, <4>1, SoundByValue
      <4> QED
        BY <4>3, <4>4 DEF IsSoundResult
    <3> QED
      BY <3>1, <3>2, <3>3
  <2> QED
    BY <2>1, <2>4 DEF w
<1> HIDE DEF S
<1>7. \A i \in 0 .. n : i \in S
  BY <1>1, <1>5, <1>6, RangeInduction
<1>8. n \in S
  BY <1>1, <1>7
<1> HIDE DEF result
<1>9. IsSoundResult(result)
  BY <1>3, <1>8 DEF S
<1> QED
  BY <1>9 DEF result

LEMMA SoundByNode ==
  ASSUME NEW rule, IsRule(rule), IsSound(rule), NEW doc, NEW node, node.values \in Seq(ToSet(node.values))
  PROVE  IsSoundResult(WithOwnValues(doc, node, rule))
<1> DEFINE prepared == HandleCaseSensitive(doc, node, rule)
           values == node.values
           fromTemplate == IsTemplate(node)
           handled == Fold(prepared, values, "values", fromTemplate)
           result == WithOwnValues(doc, node, rule)
<1>1. IsSoundResult(Failure)
  BY DEF IsSoundResult, IsFailure, Failure
<1>2. IsSoundResult(prepared)
  <2>1. \/ prepared = rule \/ prepared = Failure
        \/ \E x : prepared = [rule EXCEPT !.caseSensitive = x]
    BY Zenon DEF HandleCaseSensitive
  <2>2. \A x : IsSoundResult([rule EXCEPT !.caseSensitive = x])
    <3> TAKE x
    <3> DEFINE new == [rule EXCEPT !.caseSensitive = x]
    <3>1. IsRule(new) /\ new.type = rule.type /\ new.constraints = rule.constraints /\ new.keys = rule.keys
      BY DEF IsRule
    <3> HIDE DEF new
    <3>2. IsSound(new)
      BY <3>1 DEF IsSound, LimitsFit
    <3> QED
      BY <3>1, <3>2 DEF IsSoundResult, new
  <2>3. IsSoundResult(rule)
    BY DEF IsSoundResult
  <2> QED
    BY <1>1, <2>1, <2>2, <2>3, Zenon
<1>3. CASE IsFailure(prepared)
  <2>1. result = Failure
    BY <1>3, Zenon DEF WithOwnValues
  <2> HIDE DEF result
  <2>2. IsSoundResult(result)
    BY <1>1, <2>1
  <2> QED
    BY <2>2 DEF result
<1>4. CASE ~IsFailure(prepared)
  <2>1. result = ProcessCommonNodeRules(doc, node, prepared)
    BY <1>4, Zenon DEF WithOwnValues
  <2>2. IsRule(prepared) /\ IsSound(prepared)
    BY <1>2, <1>4, Zenon DEF IsSoundResult
  <2>3. IsSoundResult(handled)
    <3> HIDE DEF prepared, values, fromTemplate
    <3>1. values \in Seq(ToSet(values))
      BY DEF values
    <3> QED
      BY <2>2, <3>1, SoundByValues
  <2>4. ProcessCommonNodeRules(doc, node, prepared) = handled \/ ProcessCommonNodeRules(doc, node, prepared) = Failure
    <3>1. \/ ProcessCommonNodeRules(doc, node, prepared) =
              FoldLeft(LAMBDA r, v : HandleConstraintAndAttributes(r, v, fromTemplate), prepared, values)
          \/ ProcessCommonNodeRules(doc, node, prepared) = Failure
      <4> HIDE DEF prepared
      <4> QED
        BY DEF ProcessCommonNodeRules
    <3> HIDE DEF prepared, fromTemplate, values
    <3>2. FoldLeft(LAMBDA r, v : HandleConstraintAndAttributes(r, v, fromTemplate), prepared, values) = handled
      BY DEF Fold
    <3> QED
      BY <3>1, <3>2
  <2> HIDE DEF prepared, handled, result
  <2>5. IsSoundResult(result)
    BY <1>1, <2>1, <2>3, <2>4
  <2> QED
    BY <2>5 DEF result
<1> QED
  BY <1>3, <1>4

-----------------------------------------------------------------------------
(* The tree grows.                                                         *)

PathsOfTree(t) == {t[r].path : r \in 2 .. Len(t)}

\* One rule was added, for this path.
HasGrownBy(old, new, path) ==
  /\ IsLater(old, new)
  /\ Descendant(new, Root, path) # NoRule
  /\ PathsOfTree(new) = PathsOfTree(old) \cup {path}

\* Rules were read further, none was added.
HasSamePaths(old, new) == IsLater(old, new) /\ PathsOfTree(new) = PathsOfTree(old)

LEMMA LaterIsTransitive ==
  ASSUME NEW a, NEW b, NEW c, IsLater(a, b), IsLater(b, c)
  PROVE  IsLater(a, c)
<1>1. /\ IsRuleTree(a) /\ IsRuleTree(b) /\ IsRuleTree(c) /\ Len(a) <= Len(b) /\ Len(b) <= Len(c)
      /\ \A r \in DOMAIN a : b[r].path = a[r].path /\ b[r].parent = a[r].parent
      /\ \A r \in DOMAIN b : c[r].path = b[r].path /\ c[r].parent = b[r].parent
  BY DEF IsLater
<1>2. DOMAIN a = 1 .. Len(a) /\ Len(a) \in Nat
  BY <1>1, RulesAreTyped
<1>3. DOMAIN b = 1 .. Len(b) /\ Len(b) \in Nat
  BY <1>1, RulesAreTyped
<1>4. Len(c) \in Nat
  BY <1>1, RulesAreTyped
<1>5. Len(a) <= Len(c) /\ DOMAIN a \subseteq DOMAIN b
  BY <1>1, <1>2, <1>3, <1>4
<1> QED
  BY <1>1, <1>5 DEF IsLater

LEMMA NewRuleIsRule ==
  ASSUME NEW path \in Seq(STRING), NEW target, NEW type
  PROVE  IsRule(NewRule(path, target, type)) /\ NewRule(path, target, type).path = path
BY DEF IsRule, NewRule, NoRule

LEMMA AddedRule ==
  ASSUME NEW t, IsRuleTree(t), NEW rule, IsRule(rule), rule.path # <<>>, HasParent(t, rule.path)
  PROVE  LET added == [rule EXCEPT !.parent = ParentForPath(t, rule.path)]
         IN  /\ IsRule(added) /\ added.path = rule.path
             /\ added.parent = ParentForPath(t, rule.path)
             /\ added.parent \in DOMAIN t /\ t[added.parent].path = Front(rule.path)
<1> DEFINE parent == ParentForPath(t, rule.path)
           added == [rule EXCEPT !.parent = parent]
<1>1. rule.path \in Seq(STRING)
  BY DEF IsRule
<1>2. Front(rule.path) \in Seq(STRING)
  BY <1>1, PathParts, Zenon
<1>3. parent = Descendant(t, Root, Front(rule.path)) /\ parent # NoRule
  BY <1>1, ParentIsOnTheWay DEF HasParent
<1>4. parent \in Nat /\ parent \in DOMAIN t /\ t[parent].path = Front(rule.path)
  BY <1>2, <1>3, WayIsPath
<1> HIDE DEF parent
<1>5. IsRule(added) /\ added.path = rule.path /\ added.parent = parent
  BY <1>4 DEF IsRule
<1> QED
  BY <1>4, <1>5 DEF parent

LEMMA TreeGrows ==
  ASSUME NEW t, IsRuleTree(t), NEW rule, IsRule(rule), rule.path # <<>>,
         Last(rule.path) \notin {"vr_key", "vr_dependency"}, HasParent(t, rule.path)
  PROVE  LET u == AddRule(t, rule)
         IN  /\ HasGrownBy(t, u, rule.path)
             /\ Len(u) \in DOMAIN u /\ IsRule(u[Len(u)]) /\ u[Len(u)].path = rule.path
<1> DEFINE parent == ParentForPath(t, rule.path)
           added == [rule EXCEPT !.parent = parent]
           u == Append(t, added)
           n == Len(t) + 1
<1>1. /\ IsRule(added) /\ added.path = rule.path /\ added.parent = parent
      /\ added.parent \in DOMAIN t /\ t[added.parent].path = Front(rule.path)
  BY AddedRule
<1>2. u = AddRule(t, rule)
  BY DEF AddRule
<1>3. /\ t \in Seq(ToSet(t)) /\ t # <<>>
      /\ \A r \in DOMAIN t : IsRule(t[r])
      /\ t[Root].path = <<>> /\ t[Root].parent = NoRule
      /\ \A r \in DOMAIN t \ {Root} :
           /\ t[r].path # <<>> /\ Last(t[r].path) \notin {"vr_key", "vr_dependency"}
           /\ t[r].parent \in DOMAIN t /\ t[t[r].parent].path = Front(t[r].path)
  BY DEF IsRuleTree
<1> HIDE DEF parent, added
<1>4. /\ u \in Seq(ToSet(u)) /\ u # <<>>
      /\ Len(t) \in Nat /\ DOMAIN t = 1 .. Len(t)
      /\ Len(u) = n /\ DOMAIN u = 1 .. n
      /\ \A i \in 1 .. Len(t) : u[i] = t[i]
      /\ u[n] = added
  BY <1>3, AppendedSequence
<1>5. Len(t) \in Nat \ {0} /\ Root \in DOMAIN t
  BY RulesAreTyped
<1>6. n \in Nat /\ n - 1 = Len(t) /\ n \in 1 .. n /\ n # Root /\ n \notin DOMAIN t /\ 1 .. n = DOMAIN t \cup {n}
  BY <1>4, <1>5 DEF Root
<1> HIDE DEF u, n
<1>7. IsRuleTree(u)
  <2>1. \A r \in DOMAIN u : IsRule(u[r])
    BY <1>1, <1>3, <1>4, <1>6
  <2>2. u[Root].path = <<>> /\ u[Root].parent = NoRule
    BY <1>3, <1>4, <1>5
  <2>3. ASSUME NEW r \in DOMAIN u \ {Root}
        PROVE  /\ u[r].path # <<>> /\ Last(u[r].path) \notin {"vr_key", "vr_dependency"}
               /\ u[r].parent \in DOMAIN u /\ u[u[r].parent].path = Front(u[r].path)
    <3>1. CASE r \in DOMAIN t
      <4>1. u[r] = t[r] /\ t[r].parent \in DOMAIN t /\ t[r].parent \in DOMAIN u
        BY <1>3, <1>4, <1>6, <3>1
      <4>2. u[t[r].parent] = t[t[r].parent]
        BY <1>4, <4>1
      <4> QED
        BY <1>3, <3>1, <4>1, <4>2
    <3>2. CASE r = n
      <4>1. u[r] = added /\ added.parent \in DOMAIN u
        BY <1>1, <1>4, <1>6, <3>2
      <4>2. u[added.parent] = t[added.parent]
        BY <1>1, <1>4
      <4> QED
        BY <1>1, <4>1, <4>2
    <3> QED
      BY <1>4, <1>6, <3>1, <3>2
  <2> QED
    BY <1>4, <2>1, <2>2, <2>3 DEF IsRuleTree
<1>8. IsLater(t, u)
  <2>1. Len(t) <= Len(u)
    BY <1>4, <1>6
  <2>2. \A r \in DOMAIN t : u[r] = t[r]
    BY <1>4
  <2> QED
    BY <1>7, <2>1, <2>2 DEF IsLater
<1>9. Descendant(u, Root, rule.path) # NoRule
  <2> DEFINE p == rule.path
  <2>1. p \in Seq(STRING) /\ p # <<>>
    BY DEF IsRule
  <2>2. Front(p) \in Seq(STRING) /\ Last(p) \in STRING /\ p = Append(Front(p), Last(p))
    BY <2>1, PathParts, Zenon
  <2>3. parent = Descendant(t, Root, Front(p)) /\ parent # NoRule
    BY <2>1, ParentIsOnTheWay DEF HasParent, parent
  <2>4. Descendant(u, Root, Front(p)) = parent
    BY <1>8, <2>2, <2>3, WayStays
  <2> HIDE DEF p
  <2>5. Descendant(u, Root, p) = Child(u, parent, Last(p))
    <3>1. Descendant(u, Root, Append(Front(p), Last(p))) = Child(u, Descendant(u, Root, Front(p)), Last(p))
      BY <2>2, WayToChild
    <3> QED
      BY <2>2, <2>4, <3>1
  <2>6. parent \in DOMAIN u /\ n \in DOMAIN u /\ u[n].parent = parent /\ RuleName(u[n]) = Last(p)
    <3>1. parent \in DOMAIN u /\ n \in DOMAIN u /\ u[n].parent = parent
      BY <1>1, <1>4, <1>6
    <3>2. u[n].path = p
      BY <1>1, <1>4 DEF p
    <3>3. RuleName(u[n]) = Last(p)
      BY <2>1, <3>2, Zenon DEF RuleName, p
    <3> QED
      BY <3>1, <3>3
  <2>7. Child(u, parent, Last(p)) # NoRule
    BY <1>7, <2>6, ChildIsFound
  <2> QED
    BY <2>5, <2>7 DEF p
<1>10. PathsOfTree(u) = PathsOfTree(t) \cup {rule.path}
  <2>1. \A r \in 2 .. Len(t) : u[r] = t[r]
    BY <1>4
  <2>2. 2 .. Len(u) = (2 .. Len(t)) \cup {n}
    BY <1>4, <1>5, <1>6
  <2>3. u[n].path = rule.path
    BY <1>1, <1>4
  <2> QED
    BY <2>1, <2>2, <2>3 DEF PathsOfTree
<1>11. Len(u) \in DOMAIN u /\ IsRule(u[Len(u)]) /\ u[Len(u)].path = rule.path
  BY <1>1, <1>4, <1>6
<1>12. HasGrownBy(t, u, rule.path)
  BY <1>8, <1>9, <1>10 DEF HasGrownBy
<1> QED
  BY <1>2, <1>11, <1>12

LEMMA TreeIsRevised ==
  ASSUME NEW t, IsRuleTree(t), NEW n \in DOMAIN t, NEW rule, IsRevised(t[n], rule), ~IsFailure(rule)
  PROVE  HasSamePaths(t, [t EXCEPT ![n] = rule])
<1> DEFINE u == [t EXCEPT ![n] = rule]
<1>1. IsRule(rule) /\ rule.path = t[n].path /\ rule.parent = t[n].parent
  BY DEF IsRevised
<1>2. /\ t \in Seq(ToSet(t)) /\ t # <<>>
      /\ \A r \in DOMAIN t : IsRule(t[r])
      /\ t[Root].path = <<>> /\ t[Root].parent = NoRule
      /\ \A r \in DOMAIN t \ {Root} :
           /\ t[r].path # <<>> /\ Last(t[r].path) \notin {"vr_key", "vr_dependency"}
           /\ t[r].parent \in DOMAIN t /\ t[t[r].parent].path = Front(t[r].path)
  BY DEF IsRuleTree
<1>3. /\ u \in Seq(ToSet(u)) /\ Len(u) = Len(t) /\ DOMAIN u = DOMAIN t
      /\ \A i \in DOMAIN t : i # n => u[i] = t[i]
      /\ u[n] = rule
  BY <1>2, ChangedSequence
<1>4. Len(t) \in Nat \ {0} /\ DOMAIN t = 1 .. Len(t) /\ Root \in DOMAIN t
  BY RulesAreTyped
<1> HIDE DEF u
<1>5. \A r \in DOMAIN t : IsRule(u[r]) /\ u[r].path = t[r].path /\ u[r].parent = t[r].parent
  BY <1>1, <1>2, <1>3
<1>6. u # <<>>
  BY <1>3, <1>4
<1>7. IsRuleTree(u)
  BY <1>2, <1>3, <1>4, <1>5, <1>6 DEF IsRuleTree
<1>8. IsLater(t, u)
  BY <1>3, <1>4, <1>5, <1>7 DEF IsLater
<1>9. PathsOfTree(u) = PathsOfTree(t)
  <2>1. 2 .. Len(t) \subseteq DOMAIN t /\ Len(u) = Len(t)
    BY <1>3, <1>4
  <2>2. \A r \in 2 .. Len(t) : u[r].path = t[r].path
    BY <1>5, <2>1
  <2> QED
    BY <2>1, <2>2 DEF PathsOfTree
<1> QED
  BY <1>8, <1>9 DEF HasSamePaths, u

LEMMA TreeIsFinished ==
  ASSUME NEW t, IsRuleTree(t), NEW rule, IsRule(rule), rule.path # <<>>,
         Last(rule.path) \notin {"vr_key", "vr_dependency"}, HasParent(t, rule.path),
         NEW read, IsRevised(Last(AddRule(t, rule)), read), ~IsFailure(read)
  PROVE  LET u == AddRule(t, rule)
         IN  HasGrownBy(t, [u EXCEPT ![Len(u)] = read], rule.path) /\ Len(u) \in DOMAIN u
<1> DEFINE u == AddRule(t, rule)
           new == [u EXCEPT ![Len(u)] = read]
<1>1. HasGrownBy(t, u, rule.path) /\ Len(u) \in DOMAIN u
  BY TreeGrows
<1>2. IsLater(t, u) /\ Descendant(u, Root, rule.path) # NoRule /\ PathsOfTree(u) = PathsOfTree(t) \cup {rule.path}
  BY <1>1 DEF HasGrownBy
<1>3. IsRuleTree(u)
  BY <1>2 DEF IsLater
<1>4. Last(u) = u[Len(u)]
  BY DEF Last
<1> HIDE DEF u
<1>5. IsRevised(u[Len(u)], read)
  BY <1>4 DEF u
<1>6. IsLater(u, new) /\ PathsOfTree(new) = PathsOfTree(u)
  <2>1. HasSamePaths(u, new)
    BY <1>1, <1>3, <1>5, TreeIsRevised
  <2> QED
    BY <2>1 DEF HasSamePaths
<1>7. IsLater(t, new)
  BY <1>2, <1>6, LaterIsTransitive
<1>8. rule.path \in Seq(STRING)
  BY DEF IsRule
<1>9. Descendant(new, Root, rule.path) # NoRule
  BY <1>2, <1>6, <1>8, WayStays
<1>10. HasGrownBy(t, new, rule.path)
  BY <1>2, <1>6, <1>7, <1>9 DEF HasGrownBy
<1> QED
  BY <1>1, <1>10 DEF u

-----------------------------------------------------------------------------
(* Paths in a document.                                                    *)

LEMMA PrefixIsPointwise ==
  ASSUME NEW S, NEW p \in Seq(S), NEW q \in Seq(S)
  PROVE  IsPrefix(p, q) <=> Len(p) <= Len(q) /\ \A i \in 1 .. Len(p) : p[i] = q[i]
<1> DEFINE n == Len(p)
<1>1. n \in Nat /\ Len(q) \in Nat
  OBVIOUS
<1>2. SubSeq(p, 1, n) = p
  BY SMT
<1>3. ASSUME n <= Len(q)
      PROVE  /\ SubSeq(q, 1, n) \in Seq(S) /\ Len(SubSeq(q, 1, n)) = n
             /\ \A i \in 1 .. n : SubSeq(q, 1, n)[i] = q[i]
  BY <1>1, <1>3
<1>4. ASSUME n <= Len(q), \A i \in 1 .. n : p[i] = q[i]
      PROVE  SubSeq(q, 1, n) = p
  <2> DEFINE s == SubSeq(q, 1, n)
  <2>1. s \in Seq(S) /\ Len(s) = n /\ \A i \in 1 .. Len(s) : s[i] = p[i]
    BY <1>3, <1>4
  <2> HIDE DEF s
  <2>2. s = p
    BY <2>1, SeqEqual
  <2> QED
    BY <2>2 DEF s
<1>5. IsPrefix(p, q) <=> n <= Len(q) /\ SubSeq(q, 1, n) = p
  BY <1>2 DEF IsPrefix
<1> HIDE DEF n
<1> QED
  BY <1>1, <1>3, <1>4, <1>5 DEF n

\* Below a section are its children, and what is below them.
LEMMA BelowIsAbove ==
  ASSUME NEW S, NEW p \in Seq(S), NEW q \in Seq(S), q # <<>>
  PROVE  /\ Len(p) < Len(q) /\ IsPrefix(p, q) <=> Front(q) = p \/ (Len(p) < Len(Front(q)) /\ IsPrefix(p, Front(q)))
         /\ Len(q) = Len(p) + 1 /\ IsPrefix(p, q) <=> Front(q) = p
<1>1. /\ Front(q) \in Seq(S) /\ Len(q) \in Nat \ {0} /\ Len(Front(q)) = Len(q) - 1
      /\ \A i \in 1 .. Len(q) - 1 : Front(q)[i] = q[i]
  BY PathParts, Zenon
<1> DEFINE f == Front(q)
<1>2. Len(p) \in Nat /\ Len(f) \in Nat
  BY <1>1
<1>3. IsPrefix(p, q) <=> Len(p) <= Len(q) /\ \A i \in 1 .. Len(p) : p[i] = q[i]
  BY PrefixIsPointwise
<1>4. IsPrefix(p, f) <=> Len(p) <= Len(f) /\ \A i \in 1 .. Len(p) : p[i] = f[i]
  <2>1. f \in Seq(S)
    BY <1>1
  <2> HIDE DEF f
  <2> QED
    BY <2>1, PrefixIsPointwise
<1> HIDE DEF f
<1>5. f \in Seq(S) /\ Len(f) = Len(q) - 1 /\ \A i \in 1 .. Len(f) : f[i] = q[i]
  BY <1>1 DEF f
<1>6. Len(p) <= Len(f) /\ IsPrefix(p, q) => IsPrefix(p, f)
  BY <1>1, <1>2, <1>3, <1>4, <1>5
<1>7. IsPrefix(p, f) => IsPrefix(p, q) /\ Len(p) < Len(q)
  BY <1>1, <1>2, <1>3, <1>4, <1>5
<1>8. Len(p) = Len(f) /\ IsPrefix(p, f) => f = p
  BY <1>1, <1>4, <1>5, SeqEqual
<1>9. f = p => IsPrefix(p, f) /\ Len(p) = Len(f)
  BY <1>2, <1>4
<1>10. Len(p) < Len(q) <=> Len(p) <= Len(f)
  BY <1>1, <1>2, <1>5
<1>11. Len(q) = Len(p) + 1 <=> Len(p) = Len(f)
  BY <1>1, <1>2, <1>5
<1>12. Len(p) <= Len(f) <=> Len(p) < Len(f) \/ Len(p) = Len(f)
  BY <1>2
<1>13. Len(p) = Len(f) => Len(p) <= Len(f)
  BY <1>2
<1> QED
  BY <1>6, <1>7, <1>8, <1>9, <1>10, <1>11, <1>12, <1>13, Zenon DEF f

\* A section that is skipped is skipped with everything below it.
LEMMA SkippedWithAll ==
  ASSUME NEW node, node.path \in Seq(STRING), node.path # <<>>, ~IsSkipped(node),
         NEW around, around.path = Front(node.path), around.path # <<>>
  PROVE  ~IsSkipped(around)
<1> DEFINE p == node.path
           f == around.path
           names == {"vr_key", "vr_dependency"}
<1>1. /\ f \in Seq(STRING) /\ Len(p) \in Nat \ {0} /\ Len(f) = Len(p) - 1
      /\ \A i \in 1 .. Len(p) - 1 : f[i] = p[i]
  BY PathParts, Zenon
<1>2. ~IsTemplate(node) /\ ~ \E prefix \in {SubSeq(p, 1, n) : n \in 1 .. Len(p)} : IsListedIn([path |-> prefix], names)
  BY DEF IsSkipped
<1>3. f[1] = p[1]
  <2>1. Len(f) \in Nat
    BY <1>1
  <2>2. Len(f) # 0
    BY <1>1
  <2>3. 1 \in 1 .. Len(p) - 1
    BY <1>1, <2>1, <2>2
  <2> QED
    BY <1>1, <2>3, Zenon
<1>4. ~IsTemplate(around)
  BY <1>2, <1>3 DEF IsTemplate
<1>5. ASSUME NEW n \in 1 .. Len(f)
      PROVE  SubSeq(f, 1, n) = SubSeq(p, 1, n) /\ n \in 1 .. Len(p)
  <2> DEFINE a == SubSeq(f, 1, n)
             b == SubSeq(p, 1, n)
  <2>1. n \in Nat /\ n <= Len(f) /\ n <= Len(p) /\ n \in 1 .. Len(p) /\ \A i \in 1 .. n : f[i] = p[i]
    BY <1>1
  <2>2. a \in Seq(STRING) /\ Len(a) = n /\ \A i \in 1 .. n : a[i] = f[i]
    BY <1>1, <2>1
  <2>3. b \in Seq(STRING) /\ Len(b) = n /\ \A i \in 1 .. n : b[i] = p[i]
    BY <1>1, <2>1
  <2> HIDE DEF a, b
  <2>4. a = b
    BY <2>1, <2>2, <2>3, SeqEqual
  <2> QED
    BY <2>1, <2>4 DEF a, b
<1> HIDE DEF p, f, names
<1>6. ~ \E prefix \in {SubSeq(f, 1, n) : n \in 1 .. Len(f)} : IsListedIn([path |-> prefix], names)
  BY <1>2, <1>5
<1> QED
  BY <1>4, <1>6 DEF IsSkipped, f, names

\* What is read is not an entry of a list of keys or dependencies.
LEMMA EntriesAreSkipped ==
  ASSUME NEW node, node.path \in Seq(STRING), ~IsSkipped(node)
  PROVE  node.path # <<>> /\ ~IsTemplate(node) /\ ~IsListedIn(node, {"vr_key", "vr_dependency"})
<1> DEFINE p == node.path
           names == {"vr_key", "vr_dependency"}
<1>1. /\ p # <<>> /\ ~IsTemplate(node)
      /\ ~ \E prefix \in {SubSeq(p, 1, n) : n \in 1 .. Len(p)} : IsListedIn([path |-> prefix], names)
  BY DEF IsSkipped
<1>2. Len(p) \in 1 .. Len(p) /\ SubSeq(p, 1, Len(p)) = p
  <2>1. Len(p) \in Nat \ {0}
    BY <1>1, PathParts, Zenon
  <2>2. SubSeq(p, 1, Len(p)) = p
    BY SMT
  <2>3. Len(p) \in 1 .. Len(p)
    BY <2>1
  <2> QED
    BY <2>2, <2>3
<1>3. ~IsListedIn([path |-> p], names)
  <2> HIDE DEF p, names
  <2> QED
    BY <1>1, <1>2
<1>4. ~IsListedIn(node, names)
  BY <1>3 DEF IsListedIn
<1> QED
  BY <1>1, <1>4

Moved(base, path) == base \o SubSeq(path, 3, Len(path))

\* A path is moved with everything below it: only the names of the template are replaced.
LEMMA PathIsMoved ==
  ASSUME NEW base \in Seq(STRING), NEW path \in Seq(STRING), Len(path) > 2
  PROVE  /\ Moved(base, path) \in Seq(STRING) /\ Moved(base, path) # <<>>
         /\ Last(Moved(base, path)) = Last(path)
         /\ Front(Moved(base, path)) = IF Len(path) = 3 THEN base ELSE Moved(base, Front(path))
<1> DEFINE n == Len(path)
           f == Front(path)
           moved == Moved(base, path)
<1>1. n \in Nat /\ path # <<>> /\ n > 2 /\ n - 2 \in Nat /\ n - 3 \in Nat
  OBVIOUS
<1>2. /\ f \in Seq(STRING) /\ Len(f) = n - 1 /\ Last(path) \in STRING
      /\ path = Append(f, Last(path))
  <2>1. /\ f \in Seq(STRING) /\ Last(path) \in STRING /\ Len(path) \in Nat \ {0} /\ Len(f) = Len(path) - 1
        /\ path = Append(f, Last(path))
    BY <1>1, PathParts, Zenon
  <2> QED
    BY <2>1
<1> DEFINE tail == SubSeq(path, 3, n)
           front == SubSeq(f, 3, n - 1)
           x == Last(path)
<1>3. /\ tail \in Seq(STRING) /\ Len(tail) = n - 2
      /\ \A i \in 1 .. n - 2 : tail[i] = path[i + 2]
  <2>1. /\ tail \in Seq(STRING)
        /\ Len(tail) = IF 3 <= n THEN n - 3 + 1 ELSE 0
        /\ \A i \in 1 .. n - 3 + 1 : tail[i] = path[3 + i - 1]
    <3>1. \A i \in 3 .. n : path[i] \in STRING
      BY <1>1
    <3> QED
      BY <1>1, <3>1, SubSeqProperties
  <2> HIDE DEF tail, n
  <2>2. n - 3 + 1 = n - 2 /\ 3 <= n /\ \A i \in 1 .. n - 2 : 3 + i - 1 = i + 2
    BY <1>1
  <2> QED
    BY <2>1, <2>2
<1>4. /\ front \in Seq(STRING) /\ Len(front) = n - 3
      /\ \A i \in 1 .. n - 3 : front[i] = f[i + 2]
  <2> HIDE DEF n, f
  <2>1. \A i \in 3 .. n - 1 : f[i] \in STRING
    BY <1>1, <1>2
  <2>2. 3 \in Int /\ n - 1 \in Int
    BY <1>1
  <2>3. /\ front \in Seq(STRING)
        /\ Len(front) = IF 3 <= n - 1 THEN (n - 1) - 3 + 1 ELSE 0
        /\ \A i \in 1 .. (n - 1) - 3 + 1 : front[i] = f[3 + i - 1]
    BY <2>1, <2>2, SubSeqProperties
  <2> HIDE DEF front
  <2>4. (n - 1) - 3 + 1 = n - 3 /\ (3 <= n - 1 \/ n - 3 = 0) /\ \A i \in 1 .. n - 3 : 3 + i - 1 = i + 2
    BY <1>1
  <2> QED
    BY <2>3, <2>4
<1>5. tail = Append(front, x)
  <2> DEFINE g == Append(front, x)
  <2>1. /\ g \in Seq(STRING) /\ Len(g) = (n - 3) + 1
        /\ \A i \in 1 .. n - 3 : g[i] = front[i]
        /\ g[(n - 3) + 1] = x
    <3> HIDE DEF front, x
    <3> QED
      BY <1>2, <1>4 DEF x
  <2>2. /\ \A i \in 1 .. n - 1 : path[i] = f[i]
        /\ path[n] = x
    <3> DEFINE q == Append(f, x)
    <3>1. \A i \in 1 .. n - 1 : q[i] = f[i]
      BY <1>1, <1>2
    <3>2. q[(n - 1) + 1] = x
      BY <1>1, <1>2
    <3>3. q = path /\ (n - 1) + 1 = n
      BY <1>1, <1>2
    <3> HIDE DEF q, n, f, x
    <3> QED
      BY <3>1, <3>2, <3>3
  <2> HIDE DEF g, tail, front, n, f, x
  <2>3. (n - 3) + 1 = n - 2 /\ (n - 2) + 2 = n /\ \A i \in 1 .. n - 2 : i \in 1 .. n - 3 \/ i = n - 2
    BY <1>1
  <2>4. ASSUME NEW i \in 1 .. n - 3
        PROVE  tail[i] = g[i]
    <3>1. i + 2 \in 1 .. n - 1 /\ i \in 1 .. n - 2
      BY <1>1
    <3> QED
      BY <1>3, <1>4, <2>1, <2>2, <3>1
  <2>5. tail[n - 2] = g[n - 2]
    <3>1. n - 2 \in 1 .. n - 2
      BY <1>1
    <3> QED
      BY <1>3, <2>1, <2>2, <2>3, <3>1
  <2>6. \A i \in 1 .. n - 2 : tail[i] = g[i]
    BY <2>3, <2>4, <2>5
  <2>7. tail = g
    BY <1>3, <2>1, <2>3, <2>6, SeqEqual
  <2> QED
    BY <2>7 DEF g
<1>6. moved = base \o tail /\ Moved(base, f) = base \o front
  BY <1>2 DEF Moved
<1> HIDE DEF tail, front, n, f, x, moved
<1>7. base \o Append(front, x) = Append(base \o front, x) /\ base \o front \in Seq(STRING)
  BY <1>2, <1>4 DEF x
<1>8. moved = Append(base \o front, x)
  BY <1>5, <1>6, <1>7
<1>9. moved \in Seq(STRING) /\ moved # <<>> /\ Front(moved) = base \o front /\ Last(moved) = x
  <2> DEFINE b == base \o front
  <2>1. b \in Seq(STRING) /\ x \in STRING /\ moved = Append(b, x)
    BY <1>2, <1>7, <1>8 DEF x
  <2> HIDE DEF b
  <2>2. /\ Append(b, x) \in Seq(STRING) /\ Append(b, x) # <<>>
        /\ Front(Append(b, x)) = b /\ Last(Append(b, x)) = x
    BY <2>1, PathWithName, Zenon
  <2> QED
    BY <2>1, <2>2 DEF b
<1>10. n = 3 => base \o front = base
  <2>1. n = 3 => Len(front) = 0
    BY <1>1, <1>4
  <2>2. Len(front) = 0 => front = <<>>
    BY <1>4
  <2>3. base \o <<>> = base
    OBVIOUS
  <2> QED
    BY <2>1, <2>2, <2>3
<1> QED
  BY <1>6, <1>9, <1>10 DEF moved, n, f, x

-----------------------------------------------------------------------------
(* The work that is left.                                                  *)

LEMMA DocumentIsTyped ==
  ASSUME definition \in Definitions
  PROVE  /\ IsDocument(definition)
         /\ definition \in Seq(NodesOf(definition))
         /\ DOMAIN definition = 1 .. Len(definition) /\ Len(definition) \in Nat
         /\ \A i \in DOMAIN definition :
              definition[i].path \in Seq(STRING) /\ definition[i].values \in Seq(ToSet(definition[i].values))
<1>1. IsDocument(definition)
  BY DefinitionsAssumption
<1>2. definition \in Seq(NodesOf(definition))
  BY <1>1 DEF IsDocument
<1>3. DOMAIN definition = 1 .. Len(definition) /\ Len(definition) \in Nat
  BY <1>2
<1>4. \A i \in DOMAIN definition :
        definition[i].path \in Seq(STRING) /\ definition[i].values \in Seq(ToSet(definition[i].values))
  BY <1>1 DEF IsDocument
<1> QED
  BY <1>1, <1>2, <1>3, <1>4

LEMMA WorkIsTyped ==
  ASSUME WorkIsOrdered
  PROVE  /\ Len(work) \in Nat /\ DOMAIN work = 1 .. Len(work)
         /\ work # <<>> => 1 \in DOMAIN work /\ Head(work) = work[1]
         /\ \A k \in DOMAIN work :
              /\ k \in Nat /\ work[k].node \in DOMAIN definition
              /\ k \in Items \/ k \in Markers
              /\ ~(k \in Items /\ k \in Markers)
         /\ \A k \in Items : k \in DOMAIN work /\ work[k] \in NodeItems
         /\ \A k \in Markers : k \in DOMAIN work /\ work[k] \in TemplateItems
<1> DEFINE S == NodeItems \cup TemplateItems
<1>1. work \in Seq(S)
  BY DEF WorkIsOrdered
<1>2. /\ \A x \in NodeItems : x.kind = "node" /\ x.node \in DOMAIN definition
      /\ \A x \in TemplateItems : x.kind = "template" /\ x.node \in DOMAIN definition
  BY DEF NodeItems, TemplateItems
<1>3. \A x \in S : x \in NodeItems \/ x \in TemplateItems
  OBVIOUS
<1> HIDE DEF S
<1>4. /\ Len(work) \in Nat /\ DOMAIN work = 1 .. Len(work)
      /\ work # <<>> => 1 \in DOMAIN work /\ Head(work) = work[1]
      /\ \A k \in DOMAIN work : k \in Nat /\ work[k] \in S
  BY <1>1
<1>5. "node" # "template"
  OBVIOUS
<1> QED
  BY <1>2, <1>3, <1>4, <1>5 DEF Items, Markers

LEMMA ItemsAreTyped ==
  ASSUME definition \in Definitions, WorkIsOrdered, NEW k \in Items
  PROVE  /\ work[k].node \in DOMAIN definition /\ ItemNode(k) \in NodesOf(definition)
         /\ ItemNode(k).path \in Seq(STRING) /\ ItemNode(k).path # <<>>
         /\ ItemNode(k).values \in Seq(ToSet(ItemNode(k).values))
         /\ RulePath(ItemNode(k)) \in Seq(STRING) /\ RulePath(ItemNode(k)) # <<>>
         /\ Last(RulePath(ItemNode(k))) = Last(ItemNode(k).path)
<1> DEFINE node == ItemNode(k)
<1>1. work[k].node \in DOMAIN definition
  BY WorkIsTyped
<1>2. node \in NodesOf(definition) /\ node.path \in Seq(STRING) /\ node.values \in Seq(ToSet(node.values))
  BY <1>1, DocumentIsTyped DEF ItemNode, NodesOf
<1>3. CASE IsTemplate(node)
  <2>1. Len(node.path) > 2 /\ node.path # <<>>
    BY <1>3 DEF WorkIsOrdered, IsTemplate
  <2>2. templatePath \in Seq(STRING) /\ RulePath(node) = Moved(templatePath, node.path)
    BY <1>3 DEF WorkIsOrdered, RulePath, Moved
  <2>3. /\ Moved(templatePath, node.path) \in Seq(STRING) /\ Moved(templatePath, node.path) # <<>>
        /\ Last(Moved(templatePath, node.path)) = Last(node.path)
    BY <1>2, <2>1, <2>2, PathIsMoved
  <2> QED
    BY <1>1, <1>2, <2>1, <2>2, <2>3
<1>4. CASE ~IsTemplate(node)
  <2>1. node.path # <<>>
    BY <1>4 DEF WorkIsOrdered, IsSkipped
  <2>2. RulePath(node) = node.path
    BY <1>4 DEF RulePath
  <2> QED
    BY <1>1, <1>2, <2>1, <2>2
<1> QED
  BY <1>3, <1>4

\* The rule for the section around a node is the parent of the node's rule.
LEMMA ParentOfItem ==
  ASSUME definition \in Definitions, WorkIsOrdered, NEW k \in Items, NEW l \in Items,
         ItemNode(l).path = Front(ItemNode(k).path)
  PROVE  /\ RulePath(ItemNode(l)) = Front(RulePath(ItemNode(k)))
         /\ IsTemplate(ItemNode(k)) <=> IsTemplate(ItemNode(l))
         /\ IsTemplate(ItemNode(k)) => Len(ItemNode(k).path) > 3
<1> DEFINE p == ItemNode(k).path
           f == ItemNode(l).path
<1>1. p \in Seq(STRING) /\ p # <<>> /\ f \in Seq(STRING) /\ f # <<>>
  BY ItemsAreTyped
<1>2. Len(p) \in Nat \ {0} /\ Len(f) = Len(p) - 1 /\ \A i \in 1 .. Len(p) - 1 : f[i] = p[i]
  <2> HIDE DEF p, f
  <2>1. f = Front(p)
    BY DEF f, p
  <2>2. Len(p) \in Nat \ {0} /\ Len(Front(p)) = Len(p) - 1 /\ \A i \in 1 .. Len(p) - 1 : Front(p)[i] = p[i]
    BY <1>1, PathParts, Zenon
  <2> QED
    BY <2>1, <2>2
<1>3. f[1] = p[1]
  <2> HIDE DEF p, f
  <2>1. Len(f) \in Nat /\ Len(f) # 0
    BY <1>1
  <2>2. 1 \in 1 .. Len(p) - 1
    BY <1>2, <2>1
  <2> QED
    BY <1>2, <2>2
<1>4. IsTemplate(ItemNode(k)) <=> IsTemplate(ItemNode(l))
  BY <1>1, <1>3, Zenon DEF IsTemplate
<1>5. CASE IsTemplate(ItemNode(k))
  <2>1. Len(p) > 2 /\ Len(f) > 2
    BY <1>4, <1>5 DEF WorkIsOrdered
  <2>2. Len(p) > 3 /\ Len(p) # 3
    <3> HIDE DEF p, f
    <3> QED
      BY <1>2, <2>1
  <2>3. templatePath \in Seq(STRING)
    BY DEF WorkIsOrdered
  <2>4. RulePath(ItemNode(k)) = Moved(templatePath, p) /\ RulePath(ItemNode(l)) = Moved(templatePath, f)
    BY <1>4, <1>5, Zenon DEF RulePath, Moved
  <2>5. Front(Moved(templatePath, p)) = IF Len(p) = 3 THEN templatePath ELSE Moved(templatePath, Front(p))
    <3> HIDE DEF p, f
    <3> QED
      BY <1>1, <2>1, <2>3, PathIsMoved
  <2> QED
    BY <1>4, <2>2, <2>4, <2>5
<1>6. CASE ~IsTemplate(ItemNode(k))
  <2>1. RulePath(ItemNode(k)) = p /\ RulePath(ItemNode(l)) = f
    BY <1>4, <1>6, Zenon DEF RulePath
  <2> QED
    BY <1>4, <1>6, <2>1
<1> QED
  BY <1>5, <1>6

\* The first item is done.
LEMMA RestOfWork ==
  ASSUME WorkIsOrdered, work # <<>>, work' = Tail(work), definition' = definition
  PROVE  /\ Len(work) \in Nat \ {0} /\ DOMAIN work' = 1 .. Len(work) - 1
         /\ \A k \in DOMAIN work' : k \in Nat /\ k + 1 \in DOMAIN work /\ k + 1 # 1 /\ work'[k] = work[k + 1]
         /\ \A k \in DOMAIN work :
              k # 1 => k - 1 \in DOMAIN work' /\ work'[k - 1] = work[k] /\ (k - 1) + 1 = k
<1>1. work \in Seq(NodeItems \cup TemplateItems)
  BY DEF WorkIsOrdered
<1> DEFINE S == NodeItems \cup TemplateItems
           n == Len(work)
           rest == Tail(work)
<1> HIDE DEF S
<1>2. n \in Nat \ {0} /\ DOMAIN work = 1 .. n /\ Len(rest) = n - 1 /\ rest \in Seq(S)
      /\ \A k \in 1 .. n - 1 : rest[k] = work[k + 1]
  BY <1>1 DEF S
<1>3. DOMAIN rest = 1 .. n - 1
  BY <1>2
<1> HIDE DEF n, rest
<1>4. \A k \in 1 .. n - 1 : k \in Nat /\ k + 1 \in 1 .. n /\ k + 1 # 1
  BY <1>2
<1>5. \A k \in 1 .. n : k # 1 => k - 1 \in 1 .. n - 1 /\ (k - 1) + 1 = k
  BY <1>2
<1>6. work' = rest
  BY DEF rest
<1> QED
  BY <1>2, <1>3, <1>4, <1>5, <1>6 DEF n

LEMMA RestOfItems ==
  ASSUME WorkIsOrdered, work # <<>>, work' = Tail(work), definition' = definition
  PROVE  /\ \A k \in Items' : k \in Nat /\ k + 1 \in Items /\ k + 1 # 1 /\ ItemNode(k)' = ItemNode(k + 1)
                              /\ work'[k] = work[k + 1]
         /\ \A k \in Items : k # 1 => k - 1 \in Items' /\ ItemNode(k - 1)' = ItemNode(k) /\ (k - 1) + 1 = k
                                      /\ work'[k - 1] = work[k]
         /\ \A k \in Markers' : k \in Nat /\ k + 1 \in Markers /\ k + 1 # 1
         /\ \A k \in Markers : k # 1 => k - 1 \in Markers' /\ (k - 1) + 1 = k
<1>1. /\ \A k \in DOMAIN work' : k \in Nat /\ k + 1 \in DOMAIN work /\ k + 1 # 1 /\ work'[k] = work[k + 1]
      /\ \A k \in DOMAIN work :
           k # 1 => k - 1 \in DOMAIN work' /\ work'[k - 1] = work[k] /\ (k - 1) + 1 = k
  BY RestOfWork
<1>2. /\ Items' = {k \in DOMAIN work' : work'[k].kind = "node"}
      /\ Markers' = {k \in DOMAIN work' : work'[k].kind = "template"}
      /\ \A k : ItemNode(k)' = definition[work'[k].node]
  BY DEF Items, Markers, ItemNode
<1> QED
  BY <1>1, <1>2 DEF Items, Markers, ItemNode

-----------------------------------------------------------------------------
(* One item is done.                                                       *)

\* The first item was taken from the work.
IsTaken ==
  /\ work # <<>> /\ work' = Tail(work)
  /\ definition' = definition
  /\ IsLater(rules, rules')
  /\ templatePath' \in Seq(STRING)
  /\ 1 \in Items => templatePath' = templatePath

LEMMA NoTemplateBehindMarker ==
  ASSUME WorkIsOrdered, 1 \in Markers
  PROVE  Markers = {1} /\ \A k \in Items : ~IsTemplate(ItemNode(k)) /\ k # 1
<1>1. Markers = {1}
  BY DEF WorkIsOrdered
<1>2. ASSUME NEW k \in Items
      PROVE  ~IsTemplate(ItemNode(k)) /\ k # 1
  <2>1. k \in Nat \ {0} /\ k # 1
    BY <1>1, WorkIsTyped
  <2>2. IsTemplate(ItemNode(k)) => \E m \in Markers : k < m
    BY DEF WorkIsOrdered
  <2> QED
    BY <1>1, <2>1, <2>2
<1> QED
  BY <1>1, <1>2

LEMMA OrderStays ==
  ASSUME definition \in Definitions, WorkIsOrdered, IsTaken
  PROVE  WorkIsOrdered'
<1>1. work # <<>> /\ work' = Tail(work) /\ definition' = definition /\ templatePath' \in Seq(STRING)
  BY DEF IsTaken
<1>2. /\ \A k \in Items' : k \in Nat /\ k + 1 \in Items /\ k + 1 # 1 /\ ItemNode(k)' = ItemNode(k + 1)
      /\ \A k \in Markers' : k \in Nat /\ k + 1 \in Markers /\ k + 1 # 1
      /\ \A k \in Markers : k # 1 => k - 1 \in Markers' /\ (k - 1) + 1 = k
  BY <1>1, RestOfItems
<1>3. work' \in Seq(NodeItems' \cup TemplateItems')
  <2> DEFINE S == NodeItems \cup TemplateItems
             T == NodeItems' \cup TemplateItems'
  <2>1. DOMAIN rules \subseteq DOMAIN rules'
    <3>1. IsRuleTree(rules) /\ IsRuleTree(rules') /\ Len(rules) <= Len(rules')
      BY DEF IsTaken, IsLater
    <3>2. DOMAIN rules = 1 .. Len(rules) /\ Len(rules) \in Nat
      BY <3>1, RulesAreTyped
    <3>3. DOMAIN rules' = 1 .. Len(rules') /\ Len(rules') \in Nat
      BY <3>1, RulesAreTyped
    <3> QED
      BY <3>1, <3>2, <3>3
  <2>2. S \subseteq T
    BY <1>1, <2>1 DEF NodeItems, TemplateItems
  <2>3. work \in Seq(S)
    BY DEF WorkIsOrdered
  <2> HIDE DEF S, T
  <2>4. work' \in Seq(S)
    BY <1>1, <2>3
  <2>5. work' \in Seq(T)
    BY <2>2, <2>4
  <2> QED
    BY <2>5 DEF T
<1>4. \A m \in Markers' : templatePath' # <<>> /\ Markers' = {m}
  <2> TAKE m \in Markers'
  <2>1. m + 1 \in Markers /\ m + 1 # 1
    BY <1>2
  <2>2. templatePath # <<>> /\ Markers = {m + 1}
    BY <2>1 DEF WorkIsOrdered
  <2>3. 1 \in Items
    BY <1>1, <2>1, <2>2, WorkIsTyped
  <2>4. templatePath' # <<>>
    BY <2>2, <2>3 DEF IsTaken
  <2>5. \A o \in Markers' : o = m
    BY <1>2, <2>1, <2>2
  <2> QED
    BY <2>4, <2>5
<1>5. ASSUME NEW k \in Items'
      PROVE  IF IsTemplate(ItemNode(k)')
             THEN Len(ItemNode(k)'.path) > 2 /\ \E m \in Markers' : k < m
             ELSE ~IsSkipped(ItemNode(k)') /\ \A m \in Markers' : m < k
  <2>1. k \in Nat /\ k + 1 \in Items /\ ItemNode(k)' = ItemNode(k + 1)
    BY <1>2
  <2>2. IF IsTemplate(ItemNode(k + 1))
        THEN Len(ItemNode(k + 1).path) > 2 /\ \E m \in Markers : k + 1 < m
        ELSE ~IsSkipped(ItemNode(k + 1)) /\ \A m \in Markers : m < k + 1
    BY <2>1 DEF WorkIsOrdered
  <2>3. \A m \in Markers : m \in Nat
    BY WorkIsTyped
  <2>4. CASE IsTemplate(ItemNode(k + 1))
    <3>1. PICK m \in Markers : k + 1 < m
      BY <2>2, <2>4
    <3>2. m # 1 /\ m - 1 \in Markers' /\ k < m - 1
      BY <1>2, <2>1, <2>3, <3>1
    <3> QED
      BY <2>1, <2>2, <2>4, <3>2
  <2>5. CASE ~IsTemplate(ItemNode(k + 1))
    <3>1. ASSUME NEW m \in Markers'
          PROVE  m < k
      <4>1. m \in Nat /\ m + 1 \in Markers
        BY <1>2
      <4>2. m + 1 < k + 1
        BY <2>2, <2>5, <4>1
      <4> QED
        BY <2>1, <4>1, <4>2
    <3> QED
      BY <2>1, <2>2, <2>5, <3>1
  <2> QED
    BY <2>4, <2>5
<1> QED
  BY <1>1, <1>3, <1>4, <1>5 DEF WorkIsOrdered

LEMMA ChildrenStayBehind ==
  ASSUME WorkIsOrdered, IsTaken, \A k \in Items : HasChildrenBehind(k)
  PROVE  \A k \in Items' : HasChildrenBehind(k)'
<1> TAKE k \in Items'
<1>1. work # <<>> /\ work' = Tail(work) /\ definition' = definition
  BY DEF IsTaken
<1>2. /\ k \in Nat /\ k + 1 \in Items /\ ItemNode(k)' = ItemNode(k + 1)
      /\ \A l \in Items : l # 1 => l - 1 \in Items' /\ work'[l - 1] = work[l]
  BY <1>1, RestOfItems
<1>3. IsTemplate(ItemNode(k + 1)) =>
        \A i \in DOMAIN definition :
          definition[i].path # <<>> /\ Front(definition[i].path) = ItemNode(k + 1).path =>
            \E l \in Items : k + 1 < l /\ work[l].node = i
  BY <1>2 DEF HasChildrenBehind
<1>4. ASSUME IsTemplate(ItemNode(k)'), NEW i \in DOMAIN definition,
             definition[i].path # <<>>, Front(definition[i].path) = ItemNode(k)'.path
      PROVE  \E l \in Items' : k < l /\ work'[l].node = i
  <2>1. PICK l \in Items : k + 1 < l /\ work[l].node = i
    BY <1>2, <1>3, <1>4
  <2>2. l \in Nat
    BY <2>1, WorkIsTyped
  <2>3. l # 1 /\ k < l - 1
    BY <1>2, <2>1, <2>2
  <2> QED
    BY <1>2, <2>1, <2>3
<1> QED
  BY <1>1, <1>4 DEF HasChildrenBehind

LEMMA RulePathStays ==
  ASSUME definition \in Definitions, WorkIsOrdered, IsTaken
  PROVE  \A k \in Items' : RulePath(ItemNode(k))' = RulePath(ItemNode(k + 1))
<1> TAKE k \in Items'
<1>1. work # <<>> /\ work' = Tail(work) /\ definition' = definition
  BY DEF IsTaken
<1>2. k + 1 \in Items /\ ItemNode(k)' = ItemNode(k + 1)
  BY <1>1, RestOfItems
<1>3. 1 \in Items \/ 1 \in Markers
  BY <1>1, WorkIsTyped
<1>4. IsTemplate(ItemNode(k + 1)) => templatePath' = templatePath
  BY <1>2, <1>3, NoTemplateBehindMarker DEF IsTaken
<1> QED
  BY <1>2, <1>4 DEF RulePath

LEMMA SupportStays ==
  ASSUME definition \in Definitions, WorkIsOrdered, IsTaken, \A k \in Items : IsSupported(k),
         \A k \in Items : 1 \in Items /\ ItemNode(1).path = Front(ItemNode(k).path) =>
           \/ HasParent(rules', RulePath(ItemNode(k)))
           \/ IsTemplate(ItemNode(k)) /\ IsListedIn(ItemNode(k), {"vr_key", "vr_dependency"})
  PROVE  \A k \in Items' : IsSupported(k)'
<1> TAKE k \in Items'
<1> DEFINE node == ItemNode(k + 1)
           IsEntry == IsTemplate(node) /\ IsListedIn(node, {"vr_key", "vr_dependency"})
<1>1. work # <<>> /\ work' = Tail(work) /\ definition' = definition /\ IsLater(rules, rules')
  BY DEF IsTaken
<1>2. /\ k \in Nat /\ k + 1 \in Items /\ ItemNode(k)' = node
      /\ \A l \in Items : l # 1 => l - 1 \in Items' /\ ItemNode(l - 1)' = ItemNode(l)
  BY <1>1, RestOfItems
<1>3. RulePath(ItemNode(k))' = RulePath(node)
  BY RulePathStays
<1>4. IsSupported(k)' <=> \/ HasParent(rules', RulePath(node)) \/ IsEntry
                          \/ \E l \in Items' : l < k /\ ItemNode(l)'.path = Front(node.path)
  BY <1>2, <1>3 DEF IsSupported
<1>5. \/ HasParent(rules, RulePath(node)) \/ IsEntry
      \/ \E l \in Items : l < k + 1 /\ ItemNode(l).path = Front(node.path)
  BY <1>2 DEF IsSupported
<1>6. CASE HasParent(rules, RulePath(node))
  <2>1. RulePath(node) \in Seq(STRING) /\ RulePath(node) # <<>>
    BY <1>2, ItemsAreTyped
  <2> HIDE DEF node
  <2>2. HasParent(rules', RulePath(node))
    BY <1>1, <1>6, <2>1, ParentStays
  <2> QED
    BY <1>4, <2>2
<1>7. ASSUME NEW l \in Items, l < k + 1, ItemNode(l).path = Front(node.path)
      PROVE  IsSupported(k)'
  <2>1. CASE l = 1
    BY <1>2, <1>4, <1>7, <2>1
  <2>2. CASE l # 1
    <3>1. l \in Nat
      BY WorkIsTyped
    <3>2. l - 1 \in Items' /\ ItemNode(l - 1)' = ItemNode(l) /\ l - 1 < k
      BY <1>2, <1>7, <2>2, <3>1
    <3> QED
      BY <1>4, <1>7, <3>2
  <2> QED
    BY <2>1, <2>2
<1> QED
  BY <1>4, <1>5, <1>6, <1>7

\* The rule that was added is the parent of what is in its section.
LEMMA ParentIsRead ==
  ASSUME definition \in Definitions, WorkIsOrdered, 1 \in Items, IsLater(rules, rules'),
         Descendant(rules', Root, RulePath(ItemNode(1))) # NoRule,
         NEW k \in Items, ItemNode(1).path = Front(ItemNode(k).path)
  PROVE  HasParent(rules', RulePath(ItemNode(k)))
<1>1. RulePath(ItemNode(1)) = Front(RulePath(ItemNode(k)))
  BY ParentOfItem
<1>2. RulePath(ItemNode(k)) \in Seq(STRING) /\ RulePath(ItemNode(k)) # <<>>
  BY ItemsAreTyped
<1>3. ParentForPath(rules', RulePath(ItemNode(k))) = Descendant(rules', Root, RulePath(ItemNode(1)))
  BY <1>1, <1>2, ParentIsOnTheWay
<1> QED
  BY <1>3 DEF HasParent

-----------------------------------------------------------------------------
(* Nothing is forgotten.                                                   *)

LEMMA DoomStays ==
  ASSUME WorkIsOrdered, IsTaken, NEW k \in Items, k # 1, IsDoomed(k)
  PROVE  \E l \in Items' : IsDoomed(l)'
<1>1. k - 1 \in Items' /\ ItemNode(k - 1)' = ItemNode(k)
  BY RestOfItems DEF IsTaken
<1>2. IsDoomed(k - 1)'
  BY <1>1 DEF IsDoomed
<1> QED
  BY <1>1, <1>2

\* The entry of a list of keys or dependencies has no parent: the list has no rule.
LEMMA DoomedHasNoParent ==
  ASSUME definition \in Definitions, WorkIsOrdered, IsRuleTree(rules), NEW k \in Items, IsDoomed(k)
  PROVE  ~HasParent(rules, RulePath(ItemNode(k)))
<1> DEFINE p == ItemNode(k).path
           q == RulePath(ItemNode(k))
           f == Front(p)
<1>1. p \in Seq(STRING) /\ p # <<>> /\ q \in Seq(STRING) /\ q # <<>>
  BY ItemsAreTyped
<1>2. /\ IsTemplate(ItemNode(k)) /\ Len(p) > 3
      /\ Last(Front(p)) \in {"vr_key", "vr_dependency"}
  BY DEF IsDoomed, IsListedIn
<1>3. templatePath \in Seq(STRING) /\ q = Moved(templatePath, p)
  BY <1>2 DEF WorkIsOrdered, RulePath, Moved
<1> HIDE DEF p, q
<1>4. f \in Seq(STRING) /\ Len(f) = Len(p) - 1 /\ Len(p) \in Nat
  BY <1>1, PathParts, Zenon
<1>5. Len(p) > 2 /\ Len(p) # 3 /\ Len(f) > 2
  <2>1. \A n \in Nat : n > 3 => n > 2 /\ n # 3 /\ n - 1 > 2
    OBVIOUS
  <2>2. Len(p) > 3
    BY <1>2
  <2> QED
    BY <1>4, <2>1, <2>2, Zenon
<1>6. Front(q) = Moved(templatePath, f)
  BY <1>1, <1>3, <1>5, PathIsMoved
<1> HIDE DEF f
<1>7. Last(Front(q)) = Last(f) /\ Front(q) \in Seq(STRING) /\ Front(q) # <<>>
  BY <1>3, <1>4, <1>5, <1>6, PathIsMoved
<1>8. Last(Front(q)) \in {"vr_key", "vr_dependency"}
  BY <1>2, <1>7 DEF f
<1> DEFINE r == Descendant(rules, Root, Front(q))
<1>9. r = NoRule
  <2>1. r # NoRule => r \in DOMAIN rules /\ rules[r].path = Front(q)
    BY <1>7, WayIsPath
  <2> HIDE DEF r
  <2>2. r # NoRule => r # Root
    BY <1>7, <2>1 DEF IsRuleTree
  <2> QED
    BY <1>8, <2>1, <2>2 DEF IsRuleTree
<1>10. ParentForPath(rules, q) = NoRule
  BY <1>1, <1>9, ParentIsOnTheWay
<1> QED
  BY <1>10 DEF HasParent, q

LEMMA DefinitionStays ==
  ASSUME definition' = definition
  PROVE  /\ OwnPaths' = OwnPaths
         /\ \A user : MovedPaths(user)' = MovedPaths(user)
         /\ \A user : UsesTemplate(user)' <=> UsesTemplate(user)
         /\ AllMovedPaths' = AllMovedPaths
<1>1. OwnPaths' = OwnPaths
  BY Zenon DEF OwnPaths
<1>2. \A user : TemplateOf(user)' = TemplateOf(user)
  BY Zenon DEF TemplateOf, TemplateNodes
<1>3. \A user : MovedPaths(user)' = MovedPaths(user)
  <2> TAKE user
  <2>1. TemplateOf(user)' = TemplateOf(user)
    BY <1>2
  <2> QED
    BY <2>1, Zenon DEF MovedPaths
<1>4. \A user : UsesTemplate(user)' <=> UsesTemplate(user)
  BY Zenon DEF UsesTemplate
<1>5. AllMovedPaths' = AllMovedPaths
  BY <1>3, <1>4 DEF AllMovedPaths
<1> QED
  BY <1>1, <1>3, <1>4, <1>5

LEMMA PendingStays ==
  ASSUME definition \in Definitions, WorkIsOrdered, IsTaken
  PROVE  LET node == ItemNode(1)
         IN  /\ PendingPaths = PendingPaths' \cup
                  (IF 1 \in Items /\ (IsTemplate(node) \/ BecomesRule(node)) THEN {RulePath(node)} ELSE {})
             /\ PendingMoves = PendingMoves' \cup
                  (IF 1 \in Items /\ UsesTemplate(node) THEN MovedPaths(node) ELSE {})
<1> DEFINE Counts(k) == IsTemplate(ItemNode(k)) \/ BecomesRule(ItemNode(k))
<1>1. work # <<>> /\ work' = Tail(work) /\ definition' = definition
  BY DEF IsTaken
<1>2. /\ \A k \in Items' : k + 1 \in Items /\ k + 1 # 1 /\ ItemNode(k)' = ItemNode(k + 1)
      /\ \A k \in Items : k # 1 => k - 1 \in Items' /\ ItemNode(k - 1)' = ItemNode(k) /\ (k - 1) + 1 = k
  BY <1>1, RestOfItems
<1>3. \A k \in Items' : RulePath(ItemNode(k))' = RulePath(ItemNode(k + 1))
  BY RulePathStays
<1>4. PendingPaths = PendingPaths' \cup
        (IF 1 \in Items /\ Counts(1) THEN {RulePath(ItemNode(1))} ELSE {})
  <2>1. PendingPaths' = {RulePath(ItemNode(k))' : k \in {l \in Items' : Counts(l)'}}
    BY DEF PendingPaths
  <2>2. PendingPaths = {RulePath(ItemNode(k)) : k \in {l \in Items : Counts(l)}}
    BY DEF PendingPaths
  <2>3. \A k \in Items' : Counts(k)' <=> Counts(k + 1)
    BY <1>2 DEF IsTemplate, BecomesRule
  <2> HIDE DEF Counts
  <2>4. \A k \in Items : k # 1 /\ Counts(k) => RulePath(ItemNode(k)) \in PendingPaths'
    BY <1>2, <1>3, <2>1, <2>3
  <2>5. \A k \in Items' : Counts(k)' => RulePath(ItemNode(k))' \in PendingPaths
    BY <1>2, <1>3, <2>2, <2>3
  <2> QED
    BY <2>1, <2>2, <2>4, <2>5
<1>5. PendingMoves = PendingMoves' \cup
        (IF 1 \in Items /\ UsesTemplate(ItemNode(1)) THEN MovedPaths(ItemNode(1)) ELSE {})
  <2>1. /\ \A user : MovedPaths(user)' = MovedPaths(user)
        /\ \A user : UsesTemplate(user)' <=> UsesTemplate(user)
    BY <1>1, DefinitionStays
  <2> DEFINE Users == {l \in Items : UsesTemplate(ItemNode(l))}
             Later == {l \in Items' : UsesTemplate(ItemNode(l + 1))}
  <2>2. \A k \in Items' : UsesTemplate(ItemNode(k))' <=> UsesTemplate(ItemNode(k + 1))
    BY <1>2, <2>1 DEF UsesTemplate
  <2>3. \A k \in Items' : MovedPaths(ItemNode(k))' = MovedPaths(ItemNode(k + 1))
    <3> TAKE k \in Items'
    <3>1. ItemNode(k)' = ItemNode(k + 1)
      BY <1>2
    <3>2. TemplateOf(ItemNode(k))' = TemplateOf(ItemNode(k + 1))
      BY <1>1, <3>1, Zenon DEF TemplateOf, TemplateNodes
    <3> QED
      BY <1>1, <3>1, <3>2, Zenon DEF MovedPaths
  <2>4. PendingMoves' = UNION {MovedPaths(ItemNode(k))' : k \in {l \in Items' : UsesTemplate(ItemNode(l))'}}
    BY DEF PendingMoves
  <2>5. PendingMoves = UNION {MovedPaths(ItemNode(k)) : k \in Users}
    BY DEF PendingMoves
  <2>6. PendingMoves' = UNION {MovedPaths(ItemNode(k + 1)) : k \in Later}
    BY <2>2, <2>3, <2>4
  <2>7. \A k \in Later : k + 1 \in Users
    BY <1>2
  <2>8. \A k \in Users : k # 1 => k - 1 \in Later /\ (k - 1) + 1 = k
    BY <1>2
  <2>9. 1 \in Users <=> 1 \in Items /\ UsesTemplate(ItemNode(1))
    OBVIOUS
  <2> HIDE DEF Users, Later
  <2>10. PendingMoves = PendingMoves' \cup (IF 1 \in Users THEN MovedPaths(ItemNode(1)) ELSE {})
    BY <2>5, <2>6, <2>7, <2>8
  <2> QED
    BY <2>9, <2>10
<1> QED
  BY <1>4, <1>5

LEMMA HeadIsItem ==
  ASSUME WorkIsOrdered, IsAt("node")
  PROVE  1 \in Items /\ Node = ItemNode(1) /\ work # <<>>
BY WorkIsTyped DEF IsAt, Node, Items, ItemNode

LEMMA HeadIsMarker ==
  ASSUME WorkIsOrdered, IsAt("template")
  PROVE  /\ 1 \in Markers /\ 1 \notin Items /\ Node = ItemNode(1) /\ work # <<>>
         /\ Head(work).rule \in DOMAIN rules /\ Head(work).node \in DOMAIN definition
<1>1. 1 \in Markers /\ 1 \notin Items /\ Node = ItemNode(1) /\ work # <<>> /\ Head(work) = work[1]
  BY WorkIsTyped DEF IsAt, Node, Markers, ItemNode
<1>2. work[1] \in TemplateItems
  BY <1>1, WorkIsTyped
<1>3. \A x \in TemplateItems : x.rule \in DOMAIN rules /\ x.node \in DOMAIN definition
  BY DEF TemplateItems
<1> QED
  BY <1>1, <1>2, <1>3

\* The node became a rule, which no template is read for.
LEMMA NodeIsRead ==
  ASSUME ReadSoFar, IsAt("node"), BecomesRule(Node), ~UsesTemplate(Node), HasParent(rules, RulePath(Node)),
         definition' = definition, templatePath' = templatePath, work' = Tail(work),
         HasGrownBy(rules, rules', RulePath(Node))
  PROVE  ReadSoFar'
<1>1. /\ definition \in Definitions /\ IsRuleTree(rules) /\ WorkIsOrdered
      /\ \A k \in Items : IsSupported(k)
      /\ \A k \in Items : HasChildrenBehind(k)
      /\ NothingIsForgotten
  BY DEF ReadSoFar
<1>2. 1 \in Items /\ Node = ItemNode(1) /\ work # <<>>
  BY <1>1, HeadIsItem
<1>3. /\ IsLater(rules, rules') /\ Descendant(rules', Root, RulePath(Node)) # NoRule
      /\ PathsOfTree(rules') = PathsOfTree(rules) \cup {RulePath(Node)}
  BY DEF HasGrownBy
<1>4. IsTaken
  BY <1>1, <1>2, <1>3 DEF IsTaken, WorkIsOrdered
<1>5. IsRuleTree(rules')
  BY <1>3 DEF IsLater
<1>6. \A k \in Items : ItemNode(1).path = Front(ItemNode(k).path) => HasParent(rules', RulePath(ItemNode(k)))
  BY <1>1, <1>2, <1>3, ParentIsRead
<1>7. \A k \in Items' : IsSupported(k)'
  BY <1>1, <1>4, <1>6, SupportStays
<1>8. \A k \in Items' : HasChildrenBehind(k)'
  BY <1>1, <1>4, ChildrenStayBehind
<1>9. WorkIsOrdered'
  BY <1>1, <1>4, OrderStays
<1>10. NothingIsForgotten'
  <2>1. CASE \E k \in Items : IsDoomed(k)
    <3>1. PICK k \in Items : IsDoomed(k)
      BY <2>1
    <3>2. ~HasParent(rules, RulePath(ItemNode(k)))
      BY <1>1, <3>1, DoomedHasNoParent
    <3>3. k # 1
      BY <1>2, <3>2
    <3>4. \E l \in Items' : IsDoomed(l)'
      BY <1>1, <1>4, <3>1, <3>3, DoomStays
    <3> QED
      BY <3>4 DEF NothingIsForgotten
  <2>2. CASE ReadPaths \cup PendingPaths \cup PendingMoves = OwnPaths \cup AllMovedPaths
    <3>1. PendingPaths = PendingPaths' \cup {RulePath(Node)}
      BY <1>1, <1>2, <1>4, PendingStays
    <3>2. PendingMoves = PendingMoves'
      BY <1>1, <1>2, <1>4, PendingStays
    <3>3. ReadPaths' = ReadPaths \cup {RulePath(Node)}
      BY <1>3, Zenon DEF ReadPaths, PathsOfTree
    <3>4. OwnPaths' = OwnPaths /\ AllMovedPaths' = AllMovedPaths
      BY DefinitionStays
    <3>5. ReadPaths' \cup PendingPaths' \cup PendingMoves' = OwnPaths' \cup AllMovedPaths'
      BY <2>2, <3>1, <3>2, <3>3, <3>4
    <3> QED
      BY <3>5, Zenon DEF NothingIsForgotten
  <2> QED
    BY <1>1, <2>1, <2>2 DEF NothingIsForgotten
<1> QED
  BY <1>1, <1>5, <1>7, <1>8, <1>9, <1>10 DEF ReadSoFar

LEMMA NothingHappens ==
  ASSUME ReadSoFar, UNCHANGED <<definition, rules, work, templatePath>>
  PROVE  ReadSoFar'
<1>1. /\ Items' = Items /\ Markers' = Markers /\ NodeItems' = NodeItems /\ TemplateItems' = TemplateItems
      /\ ReadPaths' = ReadPaths
  BY Zenon DEF Items, Markers, NodeItems, TemplateItems, ReadPaths
<1>2. \A k : ItemNode(k)' = ItemNode(k)
  BY Zenon DEF ItemNode
<1>3. \A k : RulePath(ItemNode(k))' = RulePath(ItemNode(k))
  BY <1>2, Zenon DEF RulePath
<1>4. WorkIsOrdered' <=> WorkIsOrdered
  BY <1>1, <1>2 DEF WorkIsOrdered
<1>5. \A k : IsSupported(k)' <=> IsSupported(k)
  BY <1>1, <1>2, <1>3 DEF IsSupported
<1>6. \A k : HasChildrenBehind(k)' <=> HasChildrenBehind(k)
  BY <1>1, <1>2 DEF HasChildrenBehind
<1>7. OwnPaths' = OwnPaths /\ AllMovedPaths' = AllMovedPaths
  BY DefinitionStays
<1>8. PendingPaths' = PendingPaths
  BY <1>1, <1>2, <1>3 DEF PendingPaths
<1>9. PendingMoves' = PendingMoves
  <2>1. \A k : UsesTemplate(ItemNode(k))' <=> UsesTemplate(ItemNode(k))
    BY <1>2, Zenon DEF UsesTemplate
  <2>2. \A k : MovedPaths(ItemNode(k))' = MovedPaths(ItemNode(k))
    <3> TAKE k
    <3>1. TemplateOf(ItemNode(k))' = TemplateOf(ItemNode(k))
      BY <1>2, Zenon DEF TemplateOf, TemplateNodes
    <3> QED
      BY <1>2, <3>1, Zenon DEF MovedPaths
  <2> QED
    BY <1>1, <2>1, <2>2 DEF PendingMoves
<1>10. \A k : IsDoomed(k)' <=> IsDoomed(k)
  BY <1>2 DEF IsDoomed
<1>11. NothingIsForgotten' <=> NothingIsForgotten
  BY <1>1, <1>7, <1>8, <1>9, <1>10 DEF NothingIsForgotten
<1> QED
  BY <1>1, <1>4, <1>5, <1>6, <1>11 DEF ReadSoFar

\* The rule that a node starts has no constraints and no keys.
LEMMA RuleIsStarted ==
  ASSUME ReadSoFar, IsAt("node"), BecomesRule(Node), HasParent(rules, RulePath(Node))
  PROVE  /\ Len(Started) = Len(rules) + 1 /\ DOMAIN Started = 1 .. Len(rules) + 1
         /\ Started \in Seq(ToSet(Started))
         /\ \A r \in DOMAIN rules : Started[r] = rules[r]
         /\ DOMAIN rules = 1 .. Len(rules) /\ Len(rules) \in Nat
         /\ StartedRule = Started[Len(Started)] /\ IsRule(StartedRule)
         /\ StartedRule.path = RulePath(Node) /\ IsBare(StartedRule)
<1> DEFINE new == NewRule(RulePath(Node), TargetPath(Node), Undefined)
           added == [new EXCEPT !.parent = ParentForPath(rules, new.path)]
<1>1. IsRuleTree(rules) /\ WorkIsOrdered /\ definition \in Definitions
  BY DEF ReadSoFar
<1>2. RulePath(Node) \in Seq(STRING) /\ RulePath(Node) # <<>>
  BY <1>1, HeadIsItem, ItemsAreTyped
<1>3. IsRule(new) /\ new.path = RulePath(Node)
  BY <1>2, NewRuleIsRule
<1>4. new.constraints = <<>> /\ new.keys = <<>>
  BY DEF NewRule
<1>5. IsRule(added) /\ added.path = RulePath(Node)
  <2> HIDE DEF new
  <2> QED
    BY <1>1, <1>2, <1>3, AddedRule
<1>6. added.constraints = <<>> /\ added.keys = <<>>
  <2> HIDE DEF new
  <2> QED
    BY <1>3, <1>4 DEF IsRule
<1>7. Started = Append(rules, added)
  BY DEF Started, AddRule
<1> HIDE DEF added
<1>8. rules \in Seq(ToSet(rules))
  BY <1>1 DEF IsRuleTree
<1>9. /\ Started \in Seq(ToSet(Started))
      /\ Len(rules) \in Nat /\ DOMAIN rules = 1 .. Len(rules)
      /\ Len(Started) = Len(rules) + 1 /\ DOMAIN Started = 1 .. Len(rules) + 1
      /\ \A i \in 1 .. Len(rules) : Started[i] = rules[i]
      /\ Started[Len(rules) + 1] = added
  BY <1>7, <1>8, AppendedSequence
<1>10. StartedRule = Started[Len(Started)]
  BY DEF StartedRule, Last
<1> QED
  BY <1>5, <1>6, <1>9, <1>10 DEF IsBare

\* The node becomes this rule, if that is one.
BecomesThis(rule) ==
  /\ IsAt("node") /\ BecomesRule(Node) /\ ~UsesTemplate(Node) /\ HasParent(rules, RulePath(Node))
  /\ IsRule(StartedRule) => IsRevised(StartedRule, rule)
  /\ IsRule(StartedRule) /\ IsBare(StartedRule) => IsSoundResult(rule)
  /\ FinishRule(Started, rule, Tail(work))

\* The steps that add a rule for a node, as they end.
LEMMA RuleIsFinished ==
  ASSUME ReadSoFar, NEW rule, BecomesThis(rule), ~Refuse
  PROVE  /\ rules' = [Started EXCEPT ![Len(Started)] = rule] /\ rule.path = RulePath(Node)
         /\ work' = Tail(work) /\ templatePath' = templatePath /\ definition' = definition
         /\ HasGrownBy(rules, rules', RulePath(Node)) /\ IsSound(rule)
<1>0. /\ IsAt("node") /\ BecomesRule(Node) /\ ~UsesTemplate(Node) /\ HasParent(rules, RulePath(Node))
      /\ IsRule(StartedRule) => IsRevised(StartedRule, rule)
      /\ IsRule(StartedRule) /\ IsBare(StartedRule) => IsSoundResult(rule)
      /\ FinishRule(Started, rule, Tail(work))
  BY DEF BecomesThis
<1>1. ~IsFailure(rule)
  BY <1>0 DEF FinishRule
<1> DEFINE new == NewRule(RulePath(Node), TargetPath(Node), Undefined)
<1>2. IsRuleTree(rules) /\ WorkIsOrdered /\ definition \in Definitions
  BY DEF ReadSoFar
<1>3. RulePath(Node) \in Seq(STRING) /\ RulePath(Node) # <<>> /\ Last(RulePath(Node)) = Last(Node.path)
  BY <1>0, <1>2, HeadIsItem, ItemsAreTyped
<1>4. IsRule(new) /\ new.path = RulePath(Node)
  BY <1>3, NewRuleIsRule
<1>5. Last(new.path) \notin {"vr_key", "vr_dependency"}
  BY <1>0, <1>3, <1>4 DEF BecomesRule
<1>6. Started = AddRule(rules, new)
  BY DEF Started
<1> HIDE DEF new
<1>7. HasGrownBy(rules, Started, new.path) /\ IsRule(Started[Len(Started)]) /\ Started[Len(Started)].path = new.path
  BY <1>0, <1>2, <1>3, <1>4, <1>5, <1>6, TreeGrows
<1>8. StartedRule = Started[Len(Started)]
  BY DEF StartedRule, Last
<1>9. IsRevised(StartedRule, rule)
  BY <1>0, <1>7, <1>8
<1>10. IsRevised(Last(AddRule(rules, new)), rule)
  BY <1>6, <1>9 DEF StartedRule
<1>11. HasGrownBy(rules, [Started EXCEPT ![Len(Started)] = rule], new.path)
  BY <1>0, <1>1, <1>2, <1>3, <1>4, <1>5, <1>6, <1>10, TreeIsFinished
<1>12. /\ rules' = [Started EXCEPT ![Len(Started)] = rule]
       /\ work' = Tail(work) /\ templatePath' = templatePath /\ definition' = definition
  BY <1>0, <1>1 DEF FinishRule, Continue
<1>13. rule.path = RulePath(Node)
  BY <1>1, <1>4, <1>7, <1>8, <1>9 DEF IsRevised
<1>14. HasGrownBy(rules, rules', RulePath(Node))
  BY <1>4, <1>11, <1>12
<1>15. IsSound(rule)
  <2>1. IsRule(StartedRule) /\ IsBare(StartedRule)
    BY <1>0, RuleIsStarted
  <2> QED
    BY <1>0, <1>1, <2>1 DEF IsSoundResult
<1> QED
  BY <1>12, <1>13, <1>14, <1>15

LEMMA NodeIsFinished ==
  ASSUME ReadSoFar, NEW rule, BecomesThis(rule)
  PROVE  ReadSoFar'
<1>1. CASE Refuse
  BY <1>1, NothingHappens DEF Refuse
<1>2. CASE ~Refuse
  <2>1. IsAt("node") /\ BecomesRule(Node) /\ ~UsesTemplate(Node) /\ HasParent(rules, RulePath(Node))
    BY DEF BecomesThis
  <2> QED
    BY <1>2, <2>1, RuleIsFinished, NodeIsRead
<1> QED
  BY <1>1, <1>2

LEMMA StructureIsFinished ==
  ASSUME ReadSoFar, ProcessStructure
  PROVE  \E rule : BecomesThis(rule)
<1> DEFINE rule == [StartedRule EXCEPT !.type = IF Node.type = "SectionList" THEN "Alternatives" ELSE "Section"]
<1>1. /\ IsAt("node") /\ BecomesRule(Node) /\ HasParent(rules, RulePath(Node))
      /\ Node.type \in {"SectionList", "IntermediateSection"}
      /\ FinishRule(Started, rule, Tail(work))
  BY DEF ProcessStructure, IsRegularNode, BecomesRule
<1>2. ~UsesTemplate(Node)
  BY <1>1 DEF UsesTemplate
<1>3. IsRule(StartedRule) => IsRevised(StartedRule, rule)
  BY RuleIsRevised
<1>4. IsRule(StartedRule) /\ IsBare(StartedRule) => IsSoundResult(rule)
  <2>1. "Alternatives" # Undefined /\ "Section" # Undefined
    BY DEF Undefined
  <2> QED
    BY <2>1, BareIsSound
<1> HIDE DEF rule
<1>5. BecomesThis(rule)
  BY <1>1, <1>2, <1>3, <1>4 DEF BecomesThis
<1> QED
  BY <1>5

LEMMA TypedNodeIsFinished ==
  ASSUME ReadSoFar, ProcessTypedNode, ~Refuse
  PROVE  \E rule : BecomesThis(rule)
<1> DEFINE type == ValueOf(definition, Node, "type")
           started == [StartedRule EXCEPT !.type = type.content]
           rule == WithOwnValues(definition, Node, started)
<1>1. /\ IsAt("node") /\ BecomesRule(Node) /\ HasParent(rules, RulePath(Node))
      /\ Node.type = "SectionWithNames" /\ type # Missing
      /\ Refuse \/ (type.content \in WrittenTypes /\ FinishRule(Started, rule, Tail(work)))
  BY DEF ProcessTypedNode, IsRegularNode, BecomesRule
<1>2. ~UsesTemplate(Node)
  BY <1>1 DEF UsesTemplate
<1>3. ASSUME IsRule(StartedRule)
      PROVE  IsRevised(StartedRule, rule)
  <2>1. IsRule(started) /\ started.path = StartedRule.path /\ started.parent = StartedRule.parent
    BY <1>3 DEF IsRule
  <2>2. Node.values \in Seq(ToSet(Node.values))
    BY <1>1, HeadIsItem, ItemsAreTyped DEF ReadSoFar
  <2> HIDE DEF started
  <2>3. IsRevised(started, rule)
    BY <2>1, <2>2, RevisedByNode
  <2> HIDE DEF rule
  <2> QED
    BY <2>1, <2>3 DEF IsRevised
<1>4. ASSUME IsRule(StartedRule), IsBare(StartedRule)
      PROVE  IsSoundResult(rule)
  <2>1. type.content # Undefined
    BY <1>1 DEF WrittenTypes, RuleTypeNames, ScalarTypes, Undefined
  <2>2. IsSoundResult(started)
    BY <1>4, <2>1, BareIsSound
  <2>3. Node.values \in Seq(ToSet(Node.values))
    BY <1>1, HeadIsItem, ItemsAreTyped DEF ReadSoFar
  <2>4. ~IsFailure(started)
    BY <1>4 DEF IsFailure, IsRule
  <2> HIDE DEF started
  <2>5. IsRule(started) /\ IsSound(started)
    BY <2>2, <2>4 DEF IsSoundResult
  <2> QED
    BY <2>3, <2>5, SoundByNode
<1> HIDE DEF rule
<1>5. BecomesThis(rule)
  BY <1>1, <1>2, <1>3, <1>4 DEF BecomesThis
<1> QED
  BY <1>5

LEMMA NameNodeIsFinished ==
  ASSUME ReadSoFar, ProcessNameNode, ~Refuse
  PROVE  \E rule : BecomesThis(rule)
<1> DEFINE started == [StartedRule EXCEPT !.target = <<>>, !.type = "Text"]
           rule == WithOwnValues(definition, Node, started)
<1>1. /\ IsAt("node") /\ Last(Node.path) = "vr_name" /\ HasParent(rules, RulePath(Node))
      /\ Refuse \/ FinishRule(Started, rule, Tail(work))
  BY DEF ProcessNameNode, IsNode
<1>2. ~UsesTemplate(Node) /\ BecomesRule(Node)
  BY <1>1 DEF UsesTemplate, BecomesRule
<1>3. ASSUME IsRule(StartedRule)
      PROVE  IsRevised(StartedRule, rule)
  <2>1. IsRevised(StartedRule, started)
    BY <1>3, RuleIsRevised
  <2>2. ~IsFailure(started)
    BY <1>3 DEF IsFailure, IsRule
  <2>3. Node.values \in Seq(ToSet(Node.values))
    BY <1>1, HeadIsItem, ItemsAreTyped DEF ReadSoFar
  <2> HIDE DEF started
  <2>4. IsRule(started)
    BY <2>1, <2>2 DEF IsRevised
  <2>5. IsRevised(started, rule)
    BY <2>3, <2>4, RevisedByNode
  <2> HIDE DEF rule
  <2> QED
    BY <2>1, <2>2, <2>5, RevisedAgain
<1>4. ASSUME IsRule(StartedRule), IsBare(StartedRule)
      PROVE  IsSoundResult(rule)
  <2>1. "Text" # Undefined
    BY DEF Undefined
  <2>2. IsSoundResult(started)
    BY <1>4, <2>1, BareIsSound
  <2>3. Node.values \in Seq(ToSet(Node.values))
    BY <1>1, HeadIsItem, ItemsAreTyped DEF ReadSoFar
  <2>4. ~IsFailure(started)
    BY <1>4 DEF IsFailure, IsRule
  <2> HIDE DEF started
  <2>5. IsRule(started) /\ IsSound(started)
    BY <2>2, <2>4 DEF IsSoundResult
  <2> QED
    BY <2>3, <2>5, SoundByNode
<1> HIDE DEF rule
<1>5. BecomesThis(rule)
  BY <1>1, <1>2, <1>3, <1>4 DEF BecomesThis
<1> QED
  BY <1>5

\* What lies in a list of keys or dependencies is an entry of it.
LEMMA EntryOfList ==
  ASSUME definition \in Definitions, NEW i \in DOMAIN definition, NEW j \in DOMAIN definition,
         definition[i].path # <<>>, Front(definition[i].path) = definition[j].path,
         definition[j].path # <<>>, definition[j].type = "SectionList", NEW names, Last(definition[j].path) \in names
  PROVE  IsListedIn(definition[i], names)
<1> DEFINE p == definition[i].path
<1>1. /\ p \in Seq(STRING)
      /\ DOMAIN definition = 1 .. Len(definition) /\ Len(definition) \in Nat
  BY DocumentIsTyped
<1>2. PICK l \in 1 .. i - 1 :
        definition[l].path = Front(p) /\ (IsIndexName(Last(p)) <=> definition[l].type = "SectionList")
  BY DocumentIsTyped DEF IsDocument
<1>3. l \in DOMAIN definition
  BY <1>1, <1>2
<1>4. l = j
  <2>1. \A a, b \in DOMAIN definition : definition[a].path = definition[b].path => a = b
    BY DocumentIsTyped DEF IsDocument
  <2> QED
    BY <1>2, <1>3, <2>1
<1>5. IsIndexName(Last(p)) /\ Last(Front(p)) \in names
  BY <1>2, <1>4
<1>6. Len(p) > 1
  <2> HIDE DEF p
  <2>1. Len(p) \in Nat \ {0} /\ Len(Front(p)) = Len(p) - 1 /\ Front(p) \in Seq(STRING)
    <3>1. p # <<>>
      BY DEF p
    <3> QED
      BY <1>1, <3>1, PathParts, Zenon
  <2>2. Front(p) # <<>>
    BY DEF p
  <2>3. Len(Front(p)) # 0
    BY <2>1, <2>2
  <2> QED
    BY <2>1, <2>3
<1> QED
  BY <1>5, <1>6 DEF IsListedIn

\* Entries of keys and dependencies are added to a rule, which keeps its path.
LEMMA RulesAreExtended ==
  ASSUME ReadSoFar, IsAt("node"), NEW names, NEW refusal,
         AddEntries(ParentForPath(rules, RulePath(Node)), refusal), ~Refuse
  PROVE  /\ Node.type = "SectionList" /\ work' = Tail(work)
         /\ definition' = definition /\ templatePath' = templatePath
         /\ HasSamePaths(rules, rules')
         /\ \E r \in DOMAIN rules : \E rule :
              rules' = [rules EXCEPT ![r] = rule] /\ rule.path = rules[r].path /\ rule.constraints = rules[r].constraints
<1> DEFINE r == ParentForPath(rules, RulePath(Node))
           keys == [i \in DOMAIN Entries |-> KeyDefinition(Entries[i])]
           dependencies == [i \in DOMAIN Entries |-> DependencyDefinition(Entries[i])]
<1>1. IsRuleTree(rules) /\ WorkIsOrdered /\ definition \in Definitions
  BY DEF ReadSoFar
<1>2. RulePath(Node) \in Seq(STRING) /\ RulePath(Node) # <<>>
  BY <1>1, HeadIsItem, ItemsAreTyped
<1>3. /\ Node.type = "SectionList" /\ r # NoRule
      /\ rules' = [rules EXCEPT ![r].keys = @ \o keys] \/ rules' = [rules EXCEPT ![r].dependencies = @ \o dependencies]
      /\ work' = Tail(work) /\ templatePath' = templatePath /\ definition' = definition
  BY DEF AddEntries, Continue
<1>4. r \in DOMAIN rules
  <2>1. Front(RulePath(Node)) \in Seq(STRING)
    BY <1>2, PathParts, Zenon
  <2>2. r = Descendant(rules, Root, Front(RulePath(Node)))
    BY <1>2, ParentIsOnTheWay
  <2> HIDE DEF r
  <2> QED
    BY <1>1, <1>3, <2>1, <2>2, WayIsPath
<1> HIDE DEF r, keys, dependencies
<1>5. IsRule(rules[r])
  BY <1>1, <1>4 DEF IsRuleTree
<1>6. PICK rule : /\ rules' = [rules EXCEPT ![r] = rule] /\ IsRevised(rules[r], rule) /\ ~IsFailure(rule)
                  /\ rule.constraints = rules[r].constraints
  <2> DEFINE a == [rules[r] EXCEPT !.keys = @ \o keys]
             b == [rules[r] EXCEPT !.dependencies = @ \o dependencies]
  <2>1. rules' = [rules EXCEPT ![r] = a] \/ rules' = [rules EXCEPT ![r] = b]
    BY <1>3
  <2>2. IsRevised(rules[r], a) /\ IsRevised(rules[r], b)
    BY <1>5, RuleIsRevised
  <2>3. ~IsFailure(a) /\ ~IsFailure(b)
    BY <1>5 DEF IsFailure, IsRule
  <2>4. a.constraints = rules[r].constraints /\ b.constraints = rules[r].constraints
    BY <1>5 DEF IsRule
  <2> HIDE DEF a, b
  <2> QED
    BY <2>1, <2>2, <2>3, <2>4
<1>7. HasSamePaths(rules, rules')
  BY <1>1, <1>4, <1>6, TreeIsRevised
<1>8. rule.path = rules[r].path
  BY <1>6 DEF IsRevised
<1> QED
  BY <1>3, <1>4, <1>6, <1>7, <1>8

LEMMA EntriesAreRead ==
  ASSUME ReadSoFar, IsAt("node"), Last(Node.path) \in {"vr_key", "vr_dependency"}, NEW refusal,
         AddEntries(ParentForPath(rules, RulePath(Node)), refusal)
  PROVE  ReadSoFar'
<1> DEFINE names == {"vr_key", "vr_dependency"}
<1>1. CASE Refuse
  BY <1>1, NothingHappens DEF Refuse
<1>2. CASE ~Refuse
  <2>1. /\ definition \in Definitions /\ IsRuleTree(rules) /\ WorkIsOrdered
        /\ \A k \in Items : IsSupported(k)
        /\ \A k \in Items : HasChildrenBehind(k)
        /\ NothingIsForgotten
    BY DEF ReadSoFar
  <2>2. 1 \in Items /\ Node = ItemNode(1) /\ work # <<>>
    BY <2>1, HeadIsItem
  <2>3. /\ Node.type = "SectionList" /\ work' = Tail(work)
        /\ definition' = definition /\ templatePath' = templatePath
        /\ HasSamePaths(rules, rules')
    BY <1>2, RulesAreExtended
  <2>4. IsLater(rules, rules') /\ PathsOfTree(rules') = PathsOfTree(rules)
    BY <2>3 DEF HasSamePaths
  <2>5. IsTaken
    BY <2>1, <2>2, <2>3, <2>4 DEF IsTaken, WorkIsOrdered
  <2>6. ASSUME NEW k \in Items, ItemNode(1).path = Front(ItemNode(k).path)
        PROVE  IsTemplate(ItemNode(k)) /\ IsListedIn(ItemNode(k), names)
    <3>1. /\ work[k].node \in DOMAIN definition /\ ItemNode(k) = definition[work[k].node]
          /\ ItemNode(k).path \in Seq(STRING) /\ ItemNode(k).path # <<>>
      BY <2>1, ItemsAreTyped DEF ItemNode
    <3>2. /\ work[1].node \in DOMAIN definition /\ ItemNode(1) = definition[work[1].node]
          /\ ItemNode(1).path # <<>>
      BY <2>1, <2>2, ItemsAreTyped DEF ItemNode
    <3> HIDE DEF names
    <3>3. IsListedIn(ItemNode(k), names)
      BY <2>1, <2>2, <2>3, <2>6, <3>1, <3>2, EntryOfList DEF names
    <3>4. IsTemplate(ItemNode(k))
      BY <2>1, <3>1, <3>3, EntriesAreSkipped DEF WorkIsOrdered, names
    <3> QED
      BY <3>3, <3>4
  <2>7. \A k \in Items' : IsSupported(k)'
    BY <2>1, <2>5, <2>6, SupportStays
  <2>8. \A k \in Items' : HasChildrenBehind(k)'
    BY <2>1, <2>5, ChildrenStayBehind
  <2>9. WorkIsOrdered'
    BY <2>1, <2>5, OrderStays
  <2>10. ASSUME IsTemplate(Node)
         PROVE  NothingIsForgotten'
    <3> DEFINE j == work[1].node
    <3>1. /\ j \in DOMAIN definition /\ Node = definition[j]
          /\ Node.path \in Seq(STRING) /\ Node.path # <<>>
      BY <2>1, <2>2, ItemsAreTyped DEF ItemNode
    <3> HIDE DEF j
    <3>2. PICK i \in DOMAIN definition : IsChild(definition[i], Node.path)
      <4>1. \A m \in DOMAIN definition :
              definition[m].type = "SectionList" => \E n \in NodesOf(definition) : IsChild(n, definition[m].path)
        BY <2>1, DocumentIsTyped DEF IsDocument
      <4>2. \E n \in NodesOf(definition) : IsChild(n, Node.path)
        BY <2>3, <3>1, <4>1
      <4> QED
        BY <4>2 DEF NodesOf
    <3> DEFINE p == definition[i].path
    <3>3. p \in Seq(STRING) /\ p # <<>> /\ Front(p) = Node.path
      <4>1. p \in Seq(STRING)
        BY <2>1, DocumentIsTyped
      <4>2. Len(Node.path) < Len(p) /\ IsPrefix(Node.path, p) /\ Len(p) = Len(Node.path) + 1
        BY <3>2 DEF IsChild, IsBelow
      <4>3. p # <<>>
        <5>1. Len(Node.path) \in Nat
          BY <3>1
        <5>2. Len(p) # 0
          BY <4>2, <5>1
        <5> QED
          BY <4>1, <5>2
      <4>4. Front(p) = Node.path
        BY <3>1, <4>1, <4>2, <4>3, BelowIsAbove
      <4> QED
        BY <4>1, <4>3, <4>4
    <3>4. PICK l \in Items : 1 < l /\ work[l].node = i
      BY <2>1, <2>2, <2>10, <3>3 DEF HasChildrenBehind
    <3>5. ItemNode(l) = definition[i] /\ l # 1
      BY <2>1, <3>4, WorkIsTyped DEF ItemNode
    <3>6. IsTemplate(ItemNode(l)) /\ IsListedIn(ItemNode(l), names) /\ Len(ItemNode(l).path) > 3
      BY <2>1, <2>2, <2>6, <3>3, <3>5, ParentOfItem
    <3>7. IsDoomed(l)
      BY <3>6 DEF IsDoomed
    <3>8. \E m \in Items' : IsDoomed(m)'
      BY <2>1, <2>5, <3>5, <3>7, DoomStays
    <3> QED
      BY <3>8 DEF NothingIsForgotten
  <2>11. ASSUME ~IsTemplate(Node)
         PROVE  NothingIsForgotten'
    <3>1. CASE \E k \in Items : IsDoomed(k)
      <4>1. PICK k \in Items : IsDoomed(k)
        BY <3>1
      <4>2. k # 1
        BY <2>2, <2>11, <4>1 DEF IsDoomed
      <4>3. \E l \in Items' : IsDoomed(l)'
        BY <2>1, <2>5, <4>1, <4>2, DoomStays
      <4> QED
        BY <4>3 DEF NothingIsForgotten
    <3>2. CASE ReadPaths \cup PendingPaths \cup PendingMoves = OwnPaths \cup AllMovedPaths
      <4>1. ~BecomesRule(Node) /\ ~UsesTemplate(Node)
        BY <2>3 DEF BecomesRule, UsesTemplate
      <4>2. PendingPaths = PendingPaths' /\ PendingMoves = PendingMoves'
        BY <2>1, <2>2, <2>5, <2>11, <4>1, PendingStays
      <4>3. ReadPaths' = ReadPaths
        BY <2>4, Zenon DEF ReadPaths, PathsOfTree
      <4>4. OwnPaths' = OwnPaths /\ AllMovedPaths' = AllMovedPaths
        BY <2>3, DefinitionStays
      <4> QED
        BY <3>2, <4>2, <4>3, <4>4, Zenon DEF NothingIsForgotten
    <3> QED
      BY <2>1, <3>1, <3>2 DEF NothingIsForgotten
  <2>12. IsRuleTree(rules')
    BY <2>4 DEF IsLater
  <2> QED
    BY <2>1, <2>3, <2>7, <2>8, <2>9, <2>10, <2>11, <2>12 DEF ReadSoFar
<1> QED
  BY <1>1, <1>2

\* A value that is named has one of these names for its base.
LEMMA NamedByBase ==
  ASSUME NEW value, NEW name, HasPlainName(value, {name})
  PROVE  value.base = name
BY DEF HasPlainName

\* The rule of a node that uses a template is customized, unless there is nothing to customize.
LEMMA TemplateIsFinished ==
  ASSUME ReadSoFar, FinishTemplate, ~Refuse
  PROVE  LET r == Head(work).rule
             customized == WithOwnValues(definition, Node, rules[r])
         IN  /\ IsAt("template") /\ 1 \in Markers /\ 1 \notin Items /\ r \in DOMAIN rules
             /\ Head(work).node \in DOMAIN definition /\ Node.values \in Seq(ToSet(Node.values))
             /\ templatePath' = <<>> /\ IsTaken /\ HasSamePaths(rules, rules')
             /\ \/ /\ rules' = rules
                   /\ \A i \in DOMAIN Node.values : Node.values[i].base = "use_template"
                \/ ~IsFailure(customized) /\ customized.path = rules[r].path /\ rules' = [rules EXCEPT ![r] = customized]
<1> DEFINE r == Head(work).rule
           customized == WithOwnValues(definition, Node, rules[r])
           isPlain == \A i \in DOMAIN Node.values : Node.values[i].base = "use_template"
<1>1. definition \in Definitions /\ IsRuleTree(rules) /\ WorkIsOrdered
  BY DEF ReadSoFar
<1>2. IsAt("template")
  BY DEF FinishTemplate
<1>3. /\ 1 \in Markers /\ 1 \notin Items /\ work # <<>>
      /\ r \in DOMAIN rules /\ Head(work).node \in DOMAIN definition
  BY <1>1, <1>2, HeadIsMarker
<1>4. /\ \/ rules' = rules /\ isPlain
         \/ ~IsFailure(customized) /\ rules' = [rules EXCEPT ![r] = customized]
      /\ work' = Tail(work) /\ templatePath' = <<>> /\ definition' = definition
  <2>1. \/ Refuse
        \/ isPlain /\ Continue(rules, Tail(work), <<>>)
        \/ ~IsFailure(customized) /\ Continue([rules EXCEPT ![r] = customized], Tail(work), <<>>)
    <3>1. (\A i \in DOMAIN Node.values : HasPlainName(Node.values[i], {"use_template"})) => isPlain
      BY NamedByBase
    <3> QED
      BY <3>1, Zenon DEF FinishTemplate
  <2> HIDE DEF r, customized, isPlain
  <2> QED
    BY <2>1 DEF Continue
<1>5. Node.values \in Seq(ToSet(Node.values))
  BY <1>1, <1>3, DocumentIsTyped DEF Node
<1>6. IsRule(rules[r])
  BY <1>1, <1>3 DEF IsRuleTree
<1>7. IsRevised(rules[r], customized)
  <2> HIDE DEF r
  <2> QED
    BY <1>5, <1>6, RevisedByNode
<1> HIDE DEF r, customized, isPlain
<1>8. HasSamePaths(rules, rules')
  <2>1. CASE rules' = rules
    BY <1>1, <2>1, RulesAreTyped DEF HasSamePaths, IsLater
  <2>2. CASE ~IsFailure(customized) /\ rules' = [rules EXCEPT ![r] = customized]
    BY <1>1, <1>3, <1>7, <2>2, TreeIsRevised
  <2> QED
    BY <1>4, <2>1, <2>2
<1>9. IsTaken
  <2>1. <<>> \in Seq(STRING)
    OBVIOUS
  <2>2. IsLater(rules, rules')
    BY <1>8 DEF HasSamePaths
  <2> QED
    BY <1>3, <1>4, <2>1, <2>2 DEF IsTaken
<1>10. ~IsFailure(customized) => customized.path = rules[r].path
  BY <1>7 DEF IsRevised
<1> QED
  BY <1>2, <1>3, <1>4, <1>5, <1>8, <1>9, <1>10 DEF r, customized, isPlain

LEMMA TemplateIsLeft ==
  ASSUME ReadSoFar, FinishTemplate
  PROVE  ReadSoFar'
<1>1. CASE Refuse
  BY <1>1, NothingHappens DEF Refuse
<1>2. CASE ~Refuse
  <2>1. /\ definition \in Definitions /\ IsRuleTree(rules) /\ WorkIsOrdered
        /\ \A k \in Items : IsSupported(k)
        /\ \A k \in Items : HasChildrenBehind(k)
        /\ NothingIsForgotten
    BY DEF ReadSoFar
  <2>2. 1 \in Markers /\ 1 \notin Items /\ templatePath' = <<>> /\ IsTaken /\ HasSamePaths(rules, rules')
    BY <1>2, TemplateIsFinished
  <2>3. IsLater(rules, rules') /\ PathsOfTree(rules') = PathsOfTree(rules)
    BY <2>2 DEF HasSamePaths
  <2>4. definition' = definition
    BY <2>2 DEF IsTaken
  <2>5. \A k \in Items' : IsSupported(k)'
    BY <2>1, <2>2, SupportStays
  <2>6. \A k \in Items' : HasChildrenBehind(k)'
    BY <2>1, <2>2, ChildrenStayBehind
  <2>7. WorkIsOrdered'
    BY <2>1, <2>2, OrderStays
  <2>8. NothingIsForgotten'
    <3>1. \A k \in Items : ~IsDoomed(k)
      BY <2>1, <2>2, NoTemplateBehindMarker DEF IsDoomed
    <3>2. ReadPaths \cup PendingPaths \cup PendingMoves = OwnPaths \cup AllMovedPaths
      BY <2>1, <3>1 DEF NothingIsForgotten
    <3>3. PendingPaths = PendingPaths' /\ PendingMoves = PendingMoves'
      BY <2>1, <2>2, PendingStays
    <3>4. ReadPaths' = ReadPaths
      BY <2>3, Zenon DEF ReadPaths, PathsOfTree
    <3>5. OwnPaths' = OwnPaths /\ AllMovedPaths' = AllMovedPaths
      BY <2>4, DefinitionStays
    <3> QED
      BY <3>2, <3>3, <3>4, <3>5, Zenon DEF NothingIsForgotten
  <2>9. IsRuleTree(rules')
    BY <2>3 DEF IsLater
  <2> QED
    BY <2>1, <2>4, <2>5, <2>6, <2>7, <2>8, <2>9 DEF ReadSoFar
<1> QED
  BY <1>1, <1>2

-----------------------------------------------------------------------------
(* A template is read where it is used.                                    *)

LEMMA PutInFront ==
  ASSUME NEW S, NEW u \in Seq(S), NEW x \in S, NEW v \in Seq(S)
  PROVE  LET w == u \o <<x>> \o v
             b == Len(u)
         IN  /\ w \in Seq(S) /\ b \in Nat /\ Len(v) \in Nat
             /\ DOMAIN w = 1 .. b + 1 + Len(v)
             /\ \A k \in 1 .. b : k \in DOMAIN w /\ w[k] = u[k]
             /\ b + 1 \in DOMAIN w /\ w[b + 1] = x
             /\ \A k \in 1 .. Len(v) : b + 1 + k \in DOMAIN w /\ w[b + 1 + k] = v[k]
             /\ \A k \in DOMAIN w : k \in 1 .. b \/ k = b + 1 \/ (k - (b + 1) \in 1 .. Len(v) /\ k > b + 1)
<1> DEFINE f == u \o <<x>>
           w == f \o v
           b == Len(u)
           n == Len(v)
<1>1. /\ f \in Seq(S) /\ b \in Nat /\ n \in Nat /\ Len(f) = b + 1
      /\ \A k \in 1 .. b : f[k] = u[k]
      /\ f[b + 1] = x
  <2>1. <<x>> \in Seq(S) /\ Len(<<x>>) = 1 /\ <<x>>[1] = x
    OBVIOUS
  <2>2. /\ f \in Seq(S) /\ Len(f) = Len(u) + Len(<<x>>)
        /\ \A k \in 1 .. Len(u) + Len(<<x>>) : f[k] = IF k <= Len(u) THEN u[k] ELSE <<x>>[k - Len(u)]
    BY <2>1, ConcatProperties
  <2> HIDE DEF f
  <2>3. b \in Nat /\ n \in Nat
    OBVIOUS
  <2> HIDE DEF b, n
  <2>4. Len(f) = b + 1 /\ \A k \in 1 .. b + 1 : f[k] = IF k <= b THEN u[k] ELSE <<x>>[k - b]
    BY <2>1, <2>2 DEF b
  <2>5. b + 1 \in 1 .. b + 1 /\ ~(b + 1 <= b) /\ (b + 1) - b = 1
    BY <2>3
  <2>6. f[b + 1] = x
    BY <2>1, <2>4, <2>5
  <2>7. \A k \in 1 .. b : f[k] = u[k]
    BY <2>3, <2>4
  <2> QED
    BY <2>2, <2>3, <2>4, <2>6, <2>7
<1>2. /\ w \in Seq(S) /\ Len(w) = Len(f) + n
      /\ \A k \in 1 .. Len(f) + n : w[k] = IF k <= Len(f) THEN f[k] ELSE v[k - Len(f)]
  <2> HIDE DEF f
  <2> QED
    BY <1>1, ConcatProperties
<1> HIDE DEF f, w, b, n
<1>3. DOMAIN w = 1 .. b + 1 + n
  BY <1>1, <1>2
<1>4. \A k \in 1 .. b + 1 + n : w[k] = IF k <= b + 1 THEN f[k] ELSE v[k - (b + 1)]
  BY <1>1, <1>2
<1>5. \A k \in 1 .. b : k \in DOMAIN w /\ w[k] = u[k]
  BY <1>1, <1>3, <1>4
<1>6. b + 1 \in DOMAIN w /\ w[b + 1] = x
  <2>1. b + 1 \in 1 .. b + 1 + n /\ b + 1 <= b + 1
    BY <1>1
  <2> QED
    BY <1>1, <1>3, <1>4, <2>1
<1>7. \A k \in 1 .. n : b + 1 + k \in DOMAIN w /\ w[b + 1 + k] = v[k]
  <2> TAKE k \in 1 .. n
  <2>1. b + 1 + k \in 1 .. b + 1 + n /\ ~(b + 1 + k <= b + 1) /\ (b + 1 + k) - (b + 1) = k
    BY <1>1
  <2> QED
    BY <1>3, <1>4, <2>1
<1>8. \A k \in DOMAIN w : k \in 1 .. b \/ k = b + 1 \/ (k - (b + 1) \in 1 .. n /\ k > b + 1)
  BY <1>1, <1>3
<1> QED
  BY <1>1, <1>2, <1>3, <1>5, <1>6, <1>7, <1>8 DEF w, f, b, n

Template == TemplateOf(Node)
NodesBelow == {node \in NodesOf(definition) : IsBelow(node, Template.path)}
Below == Visit(definition, NodesBelow)
Finisher == [kind |-> "template", node |-> Head(work).node, rule |-> Len(Started)]

\* The rule that was started, with the values of the template.
IsFromTemplate(rule) ==
  /\ rule.path = RulePath(Node) /\ ~IsFailure(rule) /\ IsSound(rule)
  /\ IF Template.type = "SectionList" THEN rule.constraints = StartedRule.constraints
     ELSE \E type : rule = WithOwnValues(definition, Template, [StartedRule EXCEPT !.type = type])

\* What the step does, when the document is not refused.
LEMMA TemplateIsUsed ==
  ASSUME ReadSoFar, ProcessTemplate, ~Refuse
  PROVE  /\ IsAt("node") /\ UsesTemplate(Node) /\ BecomesRule(Node) /\ ~IsTemplate(Node)
         /\ templatePath = <<>> /\ HasParent(rules, RulePath(Node)) /\ RulePath(Node) = Node.path
         /\ Template \in NodesOf(definition) /\ Template.path \in Seq(STRING)
         /\ Template.path = <<"vr_template", ValueOf(definition, Node, "use_template").content>>
         /\ HasGrownBy(rules, rules', Node.path) /\ Len(Started) \in DOMAIN rules'
         /\ work' = Below \o <<Finisher>> \o Tail(work)
         /\ templatePath' = Node.path /\ definition' = definition
         /\ \E rule : IsFromTemplate(rule) /\ rules' = [Started EXCEPT ![Len(Started)] = rule]
<1> DEFINE value == ValueOf(definition, Node, "use_template")
           found == TemplateNodes(value.content)
           template == definition[Min(found)]
           type == ValueOf(definition, template, "type")
           started == [StartedRule EXCEPT !.type = type.content]
           own == WithOwnValues(definition, template, started)
           alternatives == [StartedRule EXCEPT !.type = "Alternatives"]
           merged == IF template.type = "SectionList" THEN alternatives ELSE own
           below == Visit(definition, {node \in NodesOf(definition) : IsBelow(node, template.path)})
           finish == [kind |-> "template", node |-> Head(work).node, rule |-> Len(Started)]
<1>1. definition \in Definitions /\ IsRuleTree(rules) /\ WorkIsOrdered
  BY DEF ReadSoFar
<1>2. /\ IsRegularNode /\ HasParent(rules, RulePath(Node))
      /\ Node.type = "SectionWithNames" /\ ValueOf(definition, Node, "type") = Missing
  BY DEF ProcessTemplate
<1>3. IsAt("node") /\ BecomesRule(Node) /\ Last(Node.path) # "vr_name"
  BY <1>2 DEF IsRegularNode, BecomesRule
<1>4. 1 \in Items /\ Node = ItemNode(1)
  BY <1>1, <1>3, HeadIsItem
<1>5. /\ templatePath = <<>> /\ found # {}
      /\ template.type \in {"SectionWithNames", "SectionList"}
      /\ template.type = "SectionWithNames" => type.content \in WrittenTypes /\ ~IsFailure(merged)
      /\ Continue([Started EXCEPT ![Len(Started)] = merged], below \o <<finish>> \o Tail(work), Node.path)
  <2> HIDE DEF value, type, own, alternatives, below, finish, started
  <2>1. \/ Refuse
        \/ /\ templatePath = <<>> /\ found # {}
           /\ template.type \in {"SectionWithNames", "SectionList"}
           /\ template.type = "SectionWithNames" => type.content \in WrittenTypes /\ ~IsFailure(merged)
           /\ Continue([Started EXCEPT ![Len(Started)] = merged], below \o <<finish>> \o Tail(work), Node.path)
    BY Zenon DEF ProcessTemplate, value, type, own, alternatives, below, finish, started
  <2> QED
    BY <2>1
<1>6. Template = template
  BY Zenon DEF Template, TemplateOf
<1>7. Min(found) \in DOMAIN definition /\ template.path = <<"vr_template", value.content>>
  <2>1. found \subseteq DOMAIN definition /\ DOMAIN definition \subseteq Nat
    BY <1>1, DocumentIsTyped DEF TemplateNodes
  <2>2. Min(found) \in found
    <3> HIDE DEF found
    <3>1. found \in SUBSET Nat
      BY <2>1
    <3> QED
      BY <1>5, <3>1, LeastExists
  <2> QED
    BY <2>2 DEF TemplateNodes
<1>8. template \in NodesOf(definition) /\ template.path \in Seq(STRING) /\ template.values \in Seq(ToSet(template.values))
  <2> HIDE DEF found
  <2> QED
    BY <1>1, <1>7, DocumentIsTyped DEF NodesOf
<1>9. ~IsTemplate(Node) /\ ~IsSkipped(Node)
  <2>1. Markers = {}
    BY <1>1, <1>5 DEF WorkIsOrdered
  <2> QED
    BY <1>1, <1>4, <2>1 DEF WorkIsOrdered
<1>10. UsesTemplate(Node)
  BY <1>2, <1>3, <1>9 DEF UsesTemplate
<1>11. RulePath(Node) = Node.path
  BY <1>9 DEF RulePath
<1>12. /\ HasGrownBy(rules, [Started EXCEPT ![Len(Started)] = merged], Node.path) /\ Len(Started) \in DOMAIN Started
       /\ IsFromTemplate(merged)
  <2> DEFINE new == NewRule(RulePath(Node), TargetPath(Node), Undefined)
  <2>1. RulePath(Node) \in Seq(STRING) /\ RulePath(Node) # <<>> /\ Last(RulePath(Node)) = Last(Node.path)
    BY <1>1, <1>4, ItemsAreTyped
  <2>2. IsRule(new) /\ new.path = RulePath(Node)
    BY <2>1, NewRuleIsRule
  <2>3. Last(new.path) \notin {"vr_key", "vr_dependency"}
    BY <1>3, <2>1, <2>2 DEF BecomesRule
  <2>4. Started = AddRule(rules, new)
    BY DEF Started
  <2> HIDE DEF new
  <2>5. IsRule(Started[Len(Started)]) /\ Started[Len(Started)].path = new.path
    BY <1>1, <1>2, <2>1, <2>2, <2>3, <2>4, TreeGrows
  <2>6. IsRule(StartedRule) /\ StartedRule.path = RulePath(Node)
    BY <2>2, <2>5 DEF StartedRule, Last
  <2>17. IsBare(StartedRule)
    BY <1>2, <1>3, RuleIsStarted
  <2>18. IsSoundResult(alternatives)
    <3>1. "Alternatives" # Undefined
      BY DEF Undefined
    <3> QED
      BY <2>6, <2>17, <3>1, BareIsSound
  <2>19. template.type # "SectionList" => IsSoundResult(own)
    <3> SUFFICES ASSUME template.type # "SectionList"
                 PROVE  IsSoundResult(own)
      OBVIOUS
    <3>0. type.content \in WrittenTypes
      BY <1>5
    <3> HIDE DEF type
    <3>1. type.content # Undefined
      BY <3>0 DEF WrittenTypes, RuleTypeNames, ScalarTypes, Undefined
    <3>2. IsSoundResult(started)
      BY <2>6, <2>17, <3>1, BareIsSound
    <3>3. ~IsFailure(started)
      BY <2>6 DEF IsFailure, IsRule
    <3> HIDE DEF started, template
    <3>4. IsRule(started) /\ IsSound(started)
      BY <3>2, <3>3 DEF IsSoundResult
    <3> QED
      BY <1>8, <3>4, SoundByNode
  <2>7. IsRevised(StartedRule, alternatives) /\ ~IsFailure(alternatives)
    <3>1. IsRevised(StartedRule, alternatives)
      BY <2>6, RuleIsRevised
    <3>2. ~IsFailure(alternatives)
      BY <2>6 DEF IsFailure, IsRule
    <3> QED
      BY <3>1, <3>2
  <2>8. IsRevised(StartedRule, own)
    <3>1. IsRule(started) /\ started.path = StartedRule.path /\ started.parent = StartedRule.parent
      BY <2>6 DEF IsRule
    <3> HIDE DEF started, template
    <3>2. IsRevised(started, own)
      BY <1>8, <3>1, RevisedByNode
    <3> HIDE DEF own
    <3> QED
      BY <3>1, <3>2 DEF IsRevised
  <2>12. alternatives.constraints = StartedRule.constraints
    BY <2>6 DEF IsRule
  <2>13. \E t : own = WithOwnValues(definition, template, [StartedRule EXCEPT !.type = t])
    OBVIOUS
  <2> HIDE DEF alternatives, own, template
  <2>9. IsRevised(StartedRule, merged) /\ ~IsFailure(merged)
    BY <1>5, <2>7, <2>8
  <2>14. IF template.type = "SectionList" THEN merged.constraints = StartedRule.constraints
         ELSE \E t : merged = WithOwnValues(definition, template, [StartedRule EXCEPT !.type = t])
    BY <2>12, <2>13
  <2>20. IsSound(merged)
    <3>1. IsSoundResult(merged)
      BY <2>18, <2>19
    <3> HIDE DEF merged
    <3> QED
      BY <2>9, <3>1 DEF IsSoundResult
  <2> HIDE DEF merged
  <2>15. merged.path = RulePath(Node)
    BY <2>6, <2>9 DEF IsRevised
  <2>16. IsFromTemplate(merged)
    BY <1>6, <2>9, <2>14, <2>15, <2>20 DEF IsFromTemplate
  <2>10. IsRevised(Last(AddRule(rules, new)), merged)
    BY <2>4, <2>9 DEF StartedRule
  <2>11. HasGrownBy(rules, [Started EXCEPT ![Len(Started)] = merged], new.path) /\ Len(Started) \in DOMAIN Started
    BY <1>1, <1>2, <2>1, <2>2, <2>3, <2>4, <2>9, <2>10, TreeIsFinished
  <2> QED
    BY <1>11, <2>2, <2>11, <2>16
<1>13. /\ rules' = [Started EXCEPT ![Len(Started)] = merged]
       /\ work' = below \o <<finish>> \o Tail(work) /\ templatePath' = Node.path /\ definition' = definition
  <2> HIDE DEF merged, below, finish
  <2> QED
    BY <1>5 DEF Continue
<1>14. below = Below /\ finish = Finisher
  BY <1>6, Zenon DEF Below, NodesBelow, Finisher
<1>15. /\ Len(Started) \in DOMAIN rules' /\ HasGrownBy(rules, rules', Node.path)
       /\ \E rule : IsFromTemplate(rule) /\ rules' = [Started EXCEPT ![Len(Started)] = rule]
  <2> HIDE DEF merged
  <2> QED
    BY <1>12, <1>13
<1> HIDE DEF below, finish, template, merged
<1> QED
  BY <1>2, <1>3, <1>5, <1>6, <1>7, <1>8, <1>9, <1>10, <1>11, <1>13, <1>14, <1>15

\* The work that the use of a template leaves.
IsExpanded ==
  LET b == Len(Below)
  IN  /\ b \in Nat /\ DOMAIN Below = 1 .. b
      /\ work' \in Seq(NodeItems' \cup TemplateItems')
      /\ \A k \in 1 .. b : k \in Items' /\ work'[k] = Below[k] /\ ItemNode(k)' = definition[Below[k].node]
      /\ \A k \in Items :
           k # 1 => \E j \in Items' : j = k + b /\ j > b + 1 /\ ItemNode(j)' = ItemNode(k) /\ work'[j] = work[k]
      /\ \A k \in Items' : k \in 1 .. b \/ (k > b + 1 /\ k - b \in Items /\ k - b # 1 /\ (k - b) + b = k
                                            /\ ItemNode(k)' = ItemNode(k - b))
      /\ Markers' = {b + 1} /\ work'[b + 1] = Finisher

LEMMA BelowIsVisit ==
  ASSUME definition \in Definitions
  PROVE  IsVisit(Below, definition, NodesBelow, Len(definition)) /\ Below \in Seq(NodeItems)
<1>1. IsVisit(Below, definition, NodesBelow, Len(definition))
  BY DocumentIsTyped, VisitIsOrdered DEF Below
<1>2. Below \in Seq([kind : {"node"}, node : 1 .. Len(definition)])
  BY <1>1 DEF IsVisit
<1>3. NodeItems = [kind : {"node"}, node : 1 .. Len(definition)]
  BY DocumentIsTyped DEF NodeItems
<1> QED
  BY <1>1, <1>2, <1>3

LEMMA WorkIsExpanded ==
  ASSUME ReadSoFar, ProcessTemplate, ~Refuse
  PROVE  IsExpanded
<1> DEFINE S == NodeItems' \cup TemplateItems'
           b == Len(Below)
           rest == Tail(work)
<1>1. definition \in Definitions /\ IsRuleTree(rules) /\ WorkIsOrdered
  BY DEF ReadSoFar
<1>2. /\ IsAt("node") /\ templatePath = <<>>
      /\ HasGrownBy(rules, rules', Node.path) /\ Len(Started) \in DOMAIN rules'
      /\ work' = Below \o <<Finisher>> \o rest /\ definition' = definition
  BY TemplateIsUsed
<1>3. 1 \in Items /\ work # <<>> /\ Markers = {} /\ Head(work) = work[1] /\ work[1].node \in DOMAIN definition
  <2>1. 1 \in Items /\ work # <<>>
    BY <1>1, <1>2, HeadIsItem
  <2>2. Markers = {}
    BY <1>1, <1>2 DEF WorkIsOrdered
  <2> QED
    BY <1>1, <2>1, <2>2, WorkIsTyped
<1>4. NodeItems' = NodeItems /\ NodeItems \subseteq S /\ TemplateItems \subseteq S /\ Finisher \in S
  <2>1. DOMAIN rules \subseteq DOMAIN rules'
    <3>1. IsRuleTree(rules) /\ IsRuleTree(rules') /\ Len(rules) <= Len(rules')
      BY <1>2 DEF HasGrownBy, IsLater
    <3>2. DOMAIN rules = 1 .. Len(rules) /\ Len(rules) \in Nat
      BY <3>1, RulesAreTyped
    <3>3. DOMAIN rules' = 1 .. Len(rules') /\ Len(rules') \in Nat
      BY <3>1, RulesAreTyped
    <3> QED
      BY <3>1, <3>2, <3>3
  <2>2. NodeItems' = NodeItems
    BY <1>2 DEF NodeItems
  <2>3. TemplateItems \subseteq TemplateItems'
    BY <1>2, <2>1 DEF TemplateItems
  <2>4. Finisher \in TemplateItems'
    BY <1>2, <1>3 DEF Finisher, TemplateItems
  <2> QED
    BY <2>2, <2>3, <2>4
<1>5. Below \in Seq(NodeItems)
  BY <1>1, BelowIsVisit
<1>6. /\ rest \in Seq(NodeItems \cup TemplateItems) /\ Len(work) \in Nat \ {0} /\ Len(rest) = Len(work) - 1
      /\ DOMAIN work = 1 .. Len(work)
      /\ \A k \in 1 .. Len(work) - 1 : rest[k] = work[k + 1]
  <2> DEFINE T == NodeItems \cup TemplateItems
  <2>1. work \in Seq(T)
    BY <1>1 DEF WorkIsOrdered
  <2> HIDE DEF T
  <2>2. /\ rest \in Seq(T) /\ Len(work) \in Nat \ {0} /\ Len(rest) = Len(work) - 1
        /\ DOMAIN work = 1 .. Len(work)
        /\ \A k \in 1 .. Len(work) - 1 : rest[k] = work[k + 1]
    BY <1>3, <2>1
  <2> QED
    BY <2>2 DEF T
<1> DEFINE n == Len(work)
<1> HIDE DEF S, rest, b, n
<1>7. Below \in Seq(S) /\ rest \in Seq(S)
  BY <1>4, <1>5, <1>6
<1>8. /\ work' \in Seq(S) /\ b \in Nat
      /\ DOMAIN work' = 1 .. b + 1 + (n - 1)
      /\ \A k \in 1 .. b : k \in DOMAIN work' /\ work'[k] = Below[k]
      /\ b + 1 \in DOMAIN work' /\ work'[b + 1] = Finisher
      /\ \A k \in 1 .. n - 1 : b + 1 + k \in DOMAIN work' /\ work'[b + 1 + k] = rest[k]
      /\ \A k \in DOMAIN work' : k \in 1 .. b \/ k = b + 1 \/ (k - (b + 1) \in 1 .. n - 1 /\ k > b + 1)
  <2>1. LET w == Below \o <<Finisher>> \o rest
        IN  /\ w \in Seq(S) /\ b \in Nat /\ Len(rest) \in Nat
            /\ DOMAIN w = 1 .. b + 1 + Len(rest)
            /\ \A k \in 1 .. b : k \in DOMAIN w /\ w[k] = Below[k]
            /\ b + 1 \in DOMAIN w /\ w[b + 1] = Finisher
            /\ \A k \in 1 .. Len(rest) : b + 1 + k \in DOMAIN w /\ w[b + 1 + k] = rest[k]
            /\ \A k \in DOMAIN w : k \in 1 .. b \/ k = b + 1 \/ (k - (b + 1) \in 1 .. Len(rest) /\ k > b + 1)
    BY <1>4, <1>7, PutInFront DEF b
  <2> QED
    BY <1>2, <1>6, <2>1 DEF n
<1>9. DOMAIN Below = 1 .. b /\ \A k \in 1 .. b : Below[k].kind = "node"
  <2>1. \A x \in NodeItems : x.kind = "node"
    BY DEF NodeItems
  <2> QED
    BY <1>5, <2>1 DEF b
<1>10. Finisher.kind = "template" /\ "template" # "node"
  BY DEF Finisher
<1>11. /\ Items' = {k \in DOMAIN work' : work'[k].kind = "node"}
       /\ Markers' = {k \in DOMAIN work' : work'[k].kind = "template"}
       /\ \A k : ItemNode(k)' = definition[work'[k].node]
  BY <1>2 DEF Items, Markers, ItemNode
<1>12. \A k \in 2 .. n : k - 1 \in 1 .. n - 1 /\ k + b = b + 1 + (k - 1) /\ (k - 1) + 1 = k
  <2>1. n \in Nat /\ b \in Nat
    BY <1>6, <1>8 DEF n
  <2> QED
    BY <2>1
<1>13. \A k \in 2 .. n : k + b \in DOMAIN work' /\ work'[k + b] = work[k]
  <2> TAKE k \in 2 .. n
  <2>1. k - 1 \in 1 .. n - 1 /\ k + b = b + 1 + (k - 1) /\ (k - 1) + 1 = k
    BY <1>12
  <2>2. rest[k - 1] = work[(k - 1) + 1]
    BY <1>6, <2>1 DEF n
  <2>3. b + 1 + (k - 1) \in DOMAIN work' /\ work'[b + 1 + (k - 1)] = rest[k - 1]
    <3>1. \A j \in 1 .. n - 1 : b + 1 + j \in DOMAIN work' /\ work'[b + 1 + j] = rest[j]
      BY <1>8
    <3> QED
      BY <2>1, <3>1, Zenon
  <2> QED
    BY <2>1, <2>2, <2>3
<1>14. \A k \in DOMAIN work' : k \in 1 .. b \/ k = b + 1 \/ (k - b \in 2 .. n /\ k > b + 1 /\ (k - b) + b = k)
  <2> TAKE k \in DOMAIN work'
  <2>1. CASE k - (b + 1) \in 1 .. n - 1 /\ k > b + 1
    <3>1. k \in Nat
      BY <1>8, <2>1
    <3> QED
      BY <1>6, <1>8, <2>1, <3>1 DEF n
  <2> QED
    BY <1>8, <2>1
<1>15. \A k \in DOMAIN work : k # 1 <=> k \in 2 .. n
  BY <1>6 DEF n
<1>16. \A k \in DOMAIN work : work[k].kind # "template"
  BY <1>3 DEF Markers
<1>17. \A k \in 1 .. b : k \in Items' /\ work'[k] = Below[k] /\ ItemNode(k)' = definition[Below[k].node]
  BY <1>8, <1>9, <1>11
<1>18. ASSUME NEW k \in Items, k # 1
       PROVE  \E j \in Items' : j = k + b /\ j > b + 1 /\ ItemNode(j)' = ItemNode(k) /\ work'[j] = work[k]
  <2>1. k \in DOMAIN work /\ work[k].kind = "node" /\ ItemNode(k) = definition[work[k].node]
    BY DEF Items, ItemNode
  <2>2. k \in 2 .. n
    BY <1>15, <1>18, <2>1
  <2>3. PICK j \in DOMAIN work' : j = k + b /\ work'[j] = work[k]
    BY <1>13, <2>2
  <2>4. j > b + 1
    <3>1. n \in Nat /\ b \in Nat
      BY <1>6, <1>8 DEF n
    <3> QED
      BY <2>2, <2>3, <3>1
  <2>5. j \in Items' /\ ItemNode(j)' = definition[work'[j].node]
    BY <1>11, <2>1, <2>3
  <2> QED
    BY <2>1, <2>3, <2>4, <2>5
<1>19. ASSUME NEW k \in Items'
       PROVE  k \in 1 .. b \/ (k > b + 1 /\ k - b \in Items /\ k - b # 1 /\ (k - b) + b = k
                               /\ ItemNode(k)' = ItemNode(k - b))
  <2>1. k \in DOMAIN work' /\ work'[k].kind = "node"
    BY <1>11
  <2>2. k # b + 1
    BY <1>8, <1>10, <2>1
  <2>3. CASE k - b \in 2 .. n /\ k > b + 1 /\ (k - b) + b = k
    <3>1. work'[k] = work[k - b]
      BY <1>13, <2>3
    <3>2. k - b \in DOMAIN work /\ k - b # 1
      BY <1>6, <2>3 DEF n
    <3> QED
      BY <1>11, <2>1, <2>3, <3>1, <3>2 DEF Items, ItemNode
  <2> QED
    BY <1>14, <2>1, <2>2, <2>3
<1>20. Markers' = {b + 1}
  <2>1. b + 1 \in Markers'
    BY <1>8, <1>10, <1>11
  <2>2. ASSUME NEW k \in Markers'
        PROVE  k = b + 1
    <3>1. k \in DOMAIN work' /\ work'[k].kind = "template"
      BY <1>11
    <3>2. k \notin 1 .. b
      BY <1>8, <1>9, <1>10, <3>1
    <3>3. ~(k - b \in 2 .. n /\ (k - b) + b = k)
      <4> SUFFICES ASSUME k - b \in 2 .. n, (k - b) + b = k
                   PROVE  FALSE
        OBVIOUS
      <4>1. work'[k] = work[k - b]
        BY <1>13
      <4>2. k - b \in DOMAIN work
        BY <1>6 DEF n
      <4> QED
        BY <1>16, <3>1, <4>1, <4>2
    <3> QED
      BY <1>14, <3>1, <3>2, <3>3
  <2> QED
    BY <2>1, <2>2
<1> QED
  BY <1>8, <1>9, <1>17, <1>18, <1>19, <1>20 DEF IsExpanded, S, b

\* The nodes of a template, in the order of the document.
LEMMA NodesBelowAreTyped ==
  ASSUME ReadSoFar, ProcessTemplate, ~Refuse
  PROVE  /\ \A k \in 1 .. Len(Below) :
              LET m == definition[Below[k].node]
              IN  /\ Below[k].node \in DOMAIN definition
                  /\ m.path \in Seq(STRING) /\ m.path # <<>> /\ Len(m.path) > 2
                  /\ IsTemplate(m) /\ IsPrefix(Template.path, m.path)
         /\ \A k, l \in 1 .. Len(Below) : k < l => Below[k].node < Below[l].node
         /\ \A i \in DOMAIN definition :
              Len(definition[i].path) > 2 /\ IsPrefix(Template.path, definition[i].path) =>
                \E k \in 1 .. Len(Below) : Below[k].node = i
<1> DEFINE value == ValueOf(definition, Node, "use_template")
           t == Template.path
           n == Len(Below)
<1>1. definition \in Definitions
  BY DEF ReadSoFar
<1>2. t \in Seq(STRING) /\ t = <<"vr_template", value.content>>
  BY TemplateIsUsed
<1> HIDE DEF value
<1>3. Len(t) = 2 /\ t[1] = "vr_template"
  BY <1>2
<1>4. IsVisit(Below, definition, NodesBelow, Len(definition)) /\ Below \in Seq(NodeItems)
  BY <1>1, BelowIsVisit
<1>5. DOMAIN Below = 1 .. n
  BY <1>4
<1>6. DOMAIN definition = 1 .. Len(definition)
  BY <1>1, DocumentIsTyped
<1>7. \A k \in 1 .. n : Below[k].node \in DOMAIN definition /\ definition[Below[k].node] \in NodesBelow
  <2>1. \A x \in NodeItems : x.node \in DOMAIN definition
    BY DEF NodeItems
  <2>2. \A k \in 1 .. n : Below[k] \in NodeItems
    BY <1>4
  <2> QED
    BY <1>4, <1>5, <2>1, <2>2 DEF IsVisit
<1> HIDE DEF t, n
<1>8. ASSUME NEW i \in DOMAIN definition
      PROVE  definition[i] \in NodesBelow <=> Len(definition[i].path) > 2 /\ IsPrefix(t, definition[i].path)
  <2>1. definition[i] \in NodesOf(definition)
    BY DEF NodesOf
  <2> QED
    BY <1>3, <2>1 DEF NodesBelow, IsBelow, t
<1>9. ASSUME NEW i \in DOMAIN definition, definition[i] \in NodesBelow
      PROVE  LET m == definition[i]
             IN  /\ m.path \in Seq(STRING) /\ m.path # <<>> /\ Len(m.path) > 2
                 /\ IsTemplate(m) /\ IsPrefix(t, m.path)
  <2> DEFINE p == definition[i].path
  <2>1. p \in Seq(STRING)
    BY <1>1, DocumentIsTyped
  <2>2. Len(p) > 2 /\ IsPrefix(t, p)
    BY <1>8, <1>9
  <2>3. IsTemplate([path |-> p]) <=> IsTemplate(definition[i])
    BY DEF IsTemplate
  <2> HIDE DEF p
  <2>4. p # <<>>
    BY <2>1, <2>2
  <2>5. p[1] = t[1]
    <3>1. t \in Seq(STRING) /\ IsPrefix(t, p)
      BY <1>2, <2>2
    <3>2. \A j \in 1 .. Len(t) : t[j] = p[j]
      BY <2>1, <3>1, PrefixIsPointwise
    <3>3. 1 \in 1 .. Len(t)
      BY <1>3
    <3> QED
      BY <3>2, <3>3
  <2>6. IsTemplate([path |-> p])
    BY <1>3, <2>4, <2>5 DEF IsTemplate
  <2> QED
    BY <2>1, <2>2, <2>3, <2>4, <2>6 DEF p
<1>10. ASSUME NEW k \in 1 .. n
       PROVE  LET m == definition[Below[k].node]
              IN  /\ Below[k].node \in DOMAIN definition
                  /\ m.path \in Seq(STRING) /\ m.path # <<>> /\ Len(m.path) > 2
                  /\ IsTemplate(m) /\ IsPrefix(t, m.path)
  BY <1>7, <1>9
<1>11. \A k, l \in 1 .. n : k < l => Below[k].node < Below[l].node
  BY <1>4, <1>5 DEF IsVisit
<1>12. \A i \in DOMAIN definition :
         Len(definition[i].path) > 2 /\ IsPrefix(t, definition[i].path) => \E k \in 1 .. n : Below[k].node = i
  BY <1>4, <1>5, <1>6, <1>8 DEF IsVisit
<1> QED
  BY <1>10, <1>11, <1>12 DEF t, n

LEMMA ExpandedIsOrdered ==
  ASSUME ReadSoFar, ProcessTemplate, ~Refuse
  PROVE  WorkIsOrdered'
<1> DEFINE b == Len(Below)
<1>1. definition \in Definitions /\ WorkIsOrdered
  BY DEF ReadSoFar
<1>2. IsAt("node") /\ templatePath = <<>> /\ templatePath' = Node.path
  BY TemplateIsUsed
<1>3. Node.path \in Seq(STRING) /\ Node.path # <<>>
  BY <1>1, <1>2, HeadIsItem, ItemsAreTyped
<1>4. Markers = {}
  BY <1>1, <1>2 DEF WorkIsOrdered
<1>5. /\ b \in Nat
      /\ work' \in Seq(NodeItems' \cup TemplateItems')
      /\ \A k \in 1 .. b : ItemNode(k)' = definition[Below[k].node]
      /\ \A k \in Items' : k \in 1 .. b \/ (k > b + 1 /\ k - b \in Items /\ ItemNode(k)' = ItemNode(k - b))
      /\ Markers' = {b + 1}
  BY WorkIsExpanded DEF IsExpanded
<1>6. \A k \in 1 .. b : Len(definition[Below[k].node].path) > 2 /\ IsTemplate(definition[Below[k].node])
  BY NodesBelowAreTyped
<1> HIDE DEF b
<1>7. ASSUME NEW k \in Items'
      PROVE  IF IsTemplate(ItemNode(k)')
             THEN Len(ItemNode(k)'.path) > 2 /\ \E m \in Markers' : k < m
             ELSE ~IsSkipped(ItemNode(k)') /\ \A m \in Markers' : m < k
  <2>1. CASE k \in 1 .. b
    <3>1. k < b + 1
      BY <1>5, <2>1
    <3> QED
      BY <1>5, <1>6, <2>1, <3>1
  <2>2. CASE k > b + 1 /\ k - b \in Items /\ ItemNode(k)' = ItemNode(k - b)
    <3>1. ~IsTemplate(ItemNode(k - b)) /\ ~IsSkipped(ItemNode(k - b))
      BY <1>1, <1>4, <2>2 DEF WorkIsOrdered
    <3> QED
      BY <1>5, <2>2, <3>1
  <2> QED
    BY <1>5, <2>1, <2>2
<1> QED
  BY <1>2, <1>3, <1>5, <1>7 DEF WorkIsOrdered

LEMMA ExpandedHasChildren ==
  ASSUME ReadSoFar, ProcessTemplate, ~Refuse
  PROVE  \A k \in Items' : HasChildrenBehind(k)'
<1> DEFINE b == Len(Below)
<1>1. definition \in Definitions /\ WorkIsOrdered /\ definition' = definition
  BY TemplateIsUsed DEF ReadSoFar
<1>2. IsAt("node") /\ templatePath = <<>> /\ Template.path \in Seq(STRING)
  BY TemplateIsUsed
<1>3. Markers = {}
  BY <1>1, <1>2 DEF WorkIsOrdered
<1>4. /\ b \in Nat
      /\ \A k \in 1 .. b : k \in Items' /\ work'[k] = Below[k] /\ ItemNode(k)' = definition[Below[k].node]
      /\ \A k \in Items' : k \in 1 .. b \/ (k > b + 1 /\ k - b \in Items /\ ItemNode(k)' = ItemNode(k - b))
  BY WorkIsExpanded DEF IsExpanded
<1>5. /\ \A k \in 1 .. b :
           LET m == definition[Below[k].node]
           IN  /\ Below[k].node \in DOMAIN definition
               /\ m.path \in Seq(STRING) /\ m.path # <<>> /\ Len(m.path) > 2 /\ IsPrefix(Template.path, m.path)
      /\ \A k, l \in 1 .. b : k < l => Below[k].node < Below[l].node
      /\ \A i \in DOMAIN definition :
           Len(definition[i].path) > 2 /\ IsPrefix(Template.path, definition[i].path) =>
             \E k \in 1 .. b : Below[k].node = i
  BY NodesBelowAreTyped
<1>6. \A i \in DOMAIN definition : i \in Nat /\ definition[i].path \in Seq(STRING)
  BY <1>1, DocumentIsTyped
<1> HIDE DEF b
<1>7. ASSUME NEW k \in 1 .. b, NEW i \in DOMAIN definition,
             definition[i].path # <<>>, Front(definition[i].path) = definition[Below[k].node].path
      PROVE  \E l \in 1 .. b : k < l /\ Below[l].node = i
  <2> DEFINE p == definition[i].path
             f == definition[Below[k].node].path
  <2>1. p \in Seq(STRING) /\ p # <<>> /\ Front(p) = f /\ f \in Seq(STRING) /\ f # <<>> /\ Len(f) > 2
        /\ IsPrefix(Template.path, f) /\ Below[k].node \in DOMAIN definition
    BY <1>5, <1>6, <1>7
  <2>2. Len(p) = Len(f) + 1
    <3> HIDE DEF p, f
    <3>1. Len(p) \in Nat \ {0} /\ Len(Front(p)) = Len(p) - 1
      BY <2>1, PathParts, Zenon
    <3> QED
      BY <2>1, <3>1
  <2>3. Len(p) > 2
    <3>1. Len(f) \in Nat
      BY <2>1
    <3> QED
      BY <2>1, <2>2, <3>1
  <2>4. IsPrefix(Template.path, p)
    <3> DEFINE t == Template.path
    <3> HIDE DEF p, f, t
    <3>1. t \in Seq(STRING) /\ IsPrefix(t, f)
      BY <1>2, <2>1 DEF t
    <3>2. Len(t) <= Len(f) /\ \A j \in 1 .. Len(t) : t[j] = f[j]
      BY <2>1, <3>1, PrefixIsPointwise
    <3>3. Len(p) \in Nat \ {0} /\ \A j \in 1 .. Len(p) - 1 : Front(p)[j] = p[j]
      BY <2>1, PathParts, Zenon
    <3>4. Len(t) \in Nat /\ Len(f) \in Nat
      BY <2>1, <3>1
    <3>5. Len(t) <= Len(p) /\ \A j \in 1 .. Len(t) : t[j] = p[j]
      BY <2>1, <2>2, <3>2, <3>3, <3>4
    <3>6. IsPrefix(t, p)
      BY <2>1, <3>1, <3>5, PrefixIsPointwise
    <3> QED
      BY <3>6 DEF t
  <2>5. PICK l \in 1 .. b : Below[l].node = i
    BY <1>5, <2>3, <2>4
  <2>6. Below[k].node < i
    <3>1. PICK j \in 1 .. i - 1 : definition[j].path = Front(p)
      BY <1>1, <2>1, DocumentIsTyped DEF IsDocument
    <3>2. j \in DOMAIN definition /\ j < i
      BY <1>1, <3>1, DocumentIsTyped
    <3>3. j = Below[k].node
      <4>1. \A x, y \in DOMAIN definition : definition[x].path = definition[y].path => x = y
        BY <1>1, DocumentIsTyped DEF IsDocument
      <4> QED
        BY <2>1, <3>1, <3>2, <4>1
    <3> QED
      BY <3>2, <3>3
  <2>7. k < l
    <3>1. ~(l < k) /\ l # k
      BY <1>5, <1>6, <2>1, <2>5, <2>6
    <3> QED
      BY <3>1
  <2> QED
    BY <2>5, <2>7
<1>8. ASSUME NEW k \in Items', IsTemplate(ItemNode(k)'), NEW i \in DOMAIN definition,
             definition[i].path # <<>>, Front(definition[i].path) = ItemNode(k)'.path
      PROVE  \E l \in Items' : k < l /\ work'[l].node = i
  <2>1. CASE k \in 1 .. b
    <3>1. PICK l \in 1 .. b : k < l /\ Below[l].node = i
      BY <1>4, <1>7, <1>8, <2>1
    <3> QED
      BY <1>4, <3>1
  <2>2. CASE k - b \in Items /\ ItemNode(k)' = ItemNode(k - b)
    <3>1. ~IsTemplate(ItemNode(k - b))
      BY <1>1, <1>3, <2>2 DEF WorkIsOrdered
    <3> QED
      BY <1>8, <2>2, <3>1
  <2> QED
    BY <1>4, <2>1, <2>2
<1> QED
  BY <1>1, <1>8 DEF HasChildrenBehind

LEMMA ExpandedIsSupported ==
  ASSUME ReadSoFar, ProcessTemplate, ~Refuse
  PROVE  \A j \in Items' : IsSupported(j)'
<1> DEFINE b == Len(Below)
<1>1. /\ definition \in Definitions /\ WorkIsOrdered /\ IsRuleTree(rules)
      /\ \A k \in Items : IsSupported(k)
  BY DEF ReadSoFar
<1>2. /\ IsAt("node") /\ templatePath = <<>> /\ templatePath' = Node.path /\ RulePath(Node) = Node.path
      /\ Template.path \in Seq(STRING) /\ HasGrownBy(rules, rules', Node.path) /\ definition' = definition
      /\ Template.path = <<"vr_template", ValueOf(definition, Node, "use_template").content>>
  BY TemplateIsUsed
<1>3. 1 \in Items /\ Node = ItemNode(1) /\ Node.path \in Seq(STRING) /\ Node.path # <<>>
  BY <1>1, <1>2, HeadIsItem, ItemsAreTyped
<1>4. IsLater(rules, rules') /\ Descendant(rules', Root, Node.path) # NoRule
  BY <1>2 DEF HasGrownBy
<1>5. Markers = {}
  BY <1>1, <1>2 DEF WorkIsOrdered
<1>6. /\ b \in Nat
      /\ \A k \in 1 .. b : k \in Items' /\ ItemNode(k)' = definition[Below[k].node]
      /\ \A k \in Items : k # 1 => \E j \in Items' : j = k + b /\ ItemNode(j)' = ItemNode(k)
      /\ \A k \in Items' : k \in 1 .. b \/ (k - b \in Items /\ (k - b) + b = k /\ ItemNode(k)' = ItemNode(k - b))
  BY WorkIsExpanded DEF IsExpanded
<1>7. /\ \A k \in 1 .. b :
           LET m == definition[Below[k].node]
           IN  /\ Below[k].node \in DOMAIN definition
               /\ m.path \in Seq(STRING) /\ m.path # <<>> /\ Len(m.path) > 2
               /\ IsTemplate(m) /\ IsPrefix(Template.path, m.path)
      /\ \A k, l \in 1 .. b : k < l => Below[k].node < Below[l].node
      /\ \A i \in DOMAIN definition :
           Len(definition[i].path) > 2 /\ IsPrefix(Template.path, definition[i].path) =>
             \E k \in 1 .. b : Below[k].node = i
  BY NodesBelowAreTyped
<1>8. \A i \in DOMAIN definition : i \in Nat /\ definition[i].path \in Seq(STRING)
  BY <1>1, DocumentIsTyped
<1>9. Len(Template.path) = 2
  BY <1>2
<1> HIDE DEF b
<1>10. ASSUME NEW j \in Items', j \in 1 .. b
       PROVE  IsSupported(j)'
  <2> DEFINE m == definition[Below[j].node]
             p == m.path
             f == Front(p)
             q == Moved(Node.path, p)
  <2>1. /\ Below[j].node \in DOMAIN definition /\ IsTemplate(m)
        /\ p \in Seq(STRING) /\ p # <<>> /\ Len(p) > 2 /\ IsPrefix(Template.path, p)
    BY <1>7, <1>10
  <2>2. ItemNode(j)' = m
    BY <1>6, <1>10
  <2> HIDE DEF m
  <2>3. RulePath(ItemNode(j))' = q
    <3>1. IsTemplate(ItemNode(j))'
      BY <2>1, <2>2 DEF IsTemplate
    <3>2. RulePath(ItemNode(j))' = templatePath' \o SubSeq(ItemNode(j)'.path, 3, Len(ItemNode(j)'.path))
      BY <3>1, Zenon DEF RulePath
    <3> QED
      BY <1>2, <2>2, <3>2, Zenon DEF Moved
  <2>4. q \in Seq(STRING) /\ q # <<>> /\ Front(q) = IF Len(p) = 3 THEN Node.path ELSE Moved(Node.path, f)
    <3> HIDE DEF p
    <3> QED
      BY <1>3, <2>1, PathIsMoved
  <2>5. CASE Len(p) = 3
    <3>1. Front(q) = Node.path
      BY <2>4, <2>5
    <3> HIDE DEF q
    <3>2. ParentForPath(rules', q) = Descendant(rules', Root, Node.path)
      BY <2>4, <3>1, ParentIsOnTheWay
    <3>3. HasParent(rules', q)
      BY <1>4, <3>2 DEF HasParent
    <3>4. HasParent(rules, RulePath(ItemNode(j)))'
      BY <2>3, <3>3
    <3> QED
      BY <3>4 DEF IsSupported
  <2>6. CASE Len(p) # 3
    <3>1. PICK i \in 1 .. Below[j].node - 1 : definition[i].path = f
      BY <1>1, <2>1, DocumentIsTyped DEF IsDocument, m
    <3>2. i \in DOMAIN definition /\ i < Below[j].node
      BY <1>1, <2>1, <3>1, DocumentIsTyped
    <3>3. f \in Seq(STRING) /\ Len(f) = Len(p) - 1 /\ Len(p) \in Nat \ {0} /\ \A x \in 1 .. Len(p) - 1 : f[x] = p[x]
      <4> HIDE DEF p
      <4> QED
        BY <2>1, PathParts, Zenon
    <3> HIDE DEF p, f
    <3>4. Len(f) > 2
      BY <2>1, <2>6, <3>3
    <3>5. IsPrefix(Template.path, f)
      <4> DEFINE t == Template.path
      <4>1. t \in Seq(STRING) /\ IsPrefix(t, p) /\ Len(t) = 2
        BY <1>2, <1>9, <2>1
      <4> HIDE DEF t
      <4>2. \A x \in 1 .. Len(t) : t[x] = p[x]
        <5>1. p \in Seq(STRING) /\ t \in Seq(STRING) /\ IsPrefix(t, p)
          BY <2>1, <4>1
        <5> QED
          BY <5>1, PrefixIsPointwise
      <4>3. Len(t) <= Len(f) /\ \A x \in 1 .. Len(t) : t[x] = f[x]
        BY <3>3, <3>4, <4>1, <4>2
      <4>4. IsPrefix(t, f)
        BY <3>3, <4>1, <4>3, PrefixIsPointwise
      <4> QED
        BY <4>4 DEF t
    <3>6. PICK k \in 1 .. b : Below[k].node = i
      BY <1>7, <3>1, <3>2, <3>4, <3>5
    <3>7. k < j
      <4>1. k \in Nat /\ j \in Nat /\ Below[j].node \in Nat /\ i \in Nat
        BY <1>8, <1>10, <2>1, <3>2
      <4>2. ~(j < k) /\ j # k
        BY <1>7, <1>10, <3>2, <3>6, <4>1
      <4> QED
        BY <4>1, <4>2
    <3>8. k \in Items' /\ ItemNode(k)'.path = f
      BY <1>6, <3>1, <3>6
    <3>9. \E l \in Items' : l < j /\ ItemNode(l)'.path = Front(ItemNode(j)'.path)
      BY <2>2, <3>7, <3>8 DEF f, p
    <3> QED
      BY <3>9 DEF IsSupported
  <2> QED
    BY <2>5, <2>6
<1>11. ASSUME NEW j \in Items', NEW k \in Items, k = j - b, k + b = j, ItemNode(j)' = ItemNode(k), k # 1
       PROVE  IsSupported(j)'
  <2> DEFINE node == ItemNode(k)
  <2>1. ~IsTemplate(node)
    BY <1>1, <1>5 DEF WorkIsOrdered
  <2>2. RulePath(node) \in Seq(STRING) /\ RulePath(node) # <<>>
    BY <1>1, ItemsAreTyped
  <2>3. RulePath(node) = node.path
    BY <2>1, Zenon DEF RulePath
  <2> HIDE DEF node
  <2>4. RulePath(ItemNode(j))' = RulePath(node)
    <3>1. ItemNode(j)' = node /\ ~IsTemplate(ItemNode(j))'
      BY <1>11, <2>1 DEF IsTemplate, node
    <3>2. RulePath(ItemNode(j))' = ItemNode(j)'.path
      BY <3>1, Zenon DEF RulePath
    <3> QED
      BY <2>3, <3>1, <3>2
  <2>5. CASE HasParent(rules', RulePath(node))
    <3>1. HasParent(rules, RulePath(ItemNode(j)))'
      BY <2>4, <2>5
    <3> QED
      BY <3>1 DEF IsSupported
  <2>6. CASE HasParent(rules, RulePath(node))
    BY <1>4, <2>2, <2>5, <2>6, ParentStays
  <2>7. CASE \E l \in Items : l < k /\ ItemNode(l).path = Front(node.path)
    <3>1. PICK l \in Items : l < k /\ ItemNode(l).path = Front(node.path)
      BY <2>7
    <3>2. CASE l = 1
      <4>1. HasParent(rules', RulePath(ItemNode(k)))
        BY <1>1, <1>2, <1>3, <1>4, <3>1, <3>2, ParentIsRead DEF node
      <4> QED
        BY <2>5, <4>1 DEF node
    <3>3. CASE l # 1
      <4>1. PICK i \in Items' : i = l + b /\ ItemNode(i)' = ItemNode(l)
        BY <1>6, <3>3
      <4>2. i < j
        <5>1. l \in Nat /\ k \in Nat
          BY <1>1, WorkIsTyped
        <5> QED
          BY <1>6, <1>11, <3>1, <4>1, <5>1
      <4>3. \E x \in Items' : x < j /\ ItemNode(x)'.path = Front(ItemNode(j)'.path)
        BY <1>11, <3>1, <4>1, <4>2 DEF node
      <4> QED
        BY <4>3 DEF IsSupported
    <3> QED
      BY <3>2, <3>3
  <2> QED
    BY <1>1, <2>1, <2>6, <2>7 DEF IsSupported, node
<1>12. ASSUME NEW j \in Items'
       PROVE  j \in 1 .. b \/ (j - b \in Items /\ j - b # 1 /\ (j - b) + b = j /\ ItemNode(j)' = ItemNode(j - b))
  BY WorkIsExpanded DEF IsExpanded, b
<1> QED
  BY <1>10, <1>11, <1>12

\* The paths below the template move to the place of the node: they are pending now.
LEMMA MovesArePending ==
  ASSUME ReadSoFar, ProcessTemplate, ~Refuse
  PROVE  {Moved(Node.path, definition[Below[k].node].path) : k \in 1 .. Len(Below)} = MovedPaths(Node)
<1> DEFINE b == Len(Below)
           Path(k) == definition[Below[k].node].path
           InTemplate == {n \in NodesOf(definition) : Len(n.path) > 2 /\ IsPrefix(Template.path, n.path)}
<1>1. /\ \A k \in 1 .. b : Below[k].node \in DOMAIN definition /\ Len(Path(k)) > 2 /\ IsPrefix(Template.path, Path(k))
      /\ \A i \in DOMAIN definition :
           Len(definition[i].path) > 2 /\ IsPrefix(Template.path, definition[i].path) =>
             \E k \in 1 .. b : Below[k].node = i
  BY NodesBelowAreTyped
<1>2. MovedPaths(Node) = {Moved(Node.path, n.path) : n \in InTemplate}
  BY Zenon DEF MovedPaths, Template, Moved
<1> HIDE DEF b
<1>3. \A k \in 1 .. b : definition[Below[k].node] \in InTemplate
  BY <1>1 DEF NodesOf
<1>4. \A n \in InTemplate : \E k \in 1 .. b : definition[Below[k].node] = n
  <2> TAKE n \in InTemplate
  <2>1. PICK i \in DOMAIN definition : definition[i] = n
    BY DEF NodesOf
  <2>2. \E k \in 1 .. b : Below[k].node = i
    BY <1>1, <2>1
  <2> QED
    BY <2>1, <2>2
<1> HIDE DEF InTemplate
<1>5. {Moved(Node.path, Path(k)) : k \in 1 .. b} = {Moved(Node.path, n.path) : n \in InTemplate}
  BY <1>3, <1>4
<1> QED
  BY <1>2, <1>5 DEF b

LEMMA ExpandedIsNotForgotten ==
  ASSUME ReadSoFar, ProcessTemplate, ~Refuse
  PROVE  NothingIsForgotten'
<1> DEFINE b == Len(Below)
           Others == Items \ {1}
           Paths == {RulePath(ItemNode(k)) : k \in {l \in Others : BecomesRule(ItemNode(l))}}
           Moves == UNION {MovedPaths(ItemNode(k)) : k \in {l \in Others : UsesTemplate(ItemNode(l))}}
           Templated == {Moved(Node.path, definition[Below[k].node].path) : k \in 1 .. b}
<1>1. /\ definition \in Definitions /\ WorkIsOrdered /\ IsRuleTree(rules) /\ NothingIsForgotten
  BY DEF ReadSoFar
<1>2. /\ IsAt("node") /\ templatePath = <<>> /\ templatePath' = Node.path /\ RulePath(Node) = Node.path
      /\ UsesTemplate(Node) /\ BecomesRule(Node)
      /\ HasGrownBy(rules, rules', Node.path) /\ definition' = definition
  BY TemplateIsUsed
<1>3. 1 \in Items /\ Node = ItemNode(1)
  BY <1>1, <1>2, HeadIsItem
<1>4. \A k \in Items : ~IsTemplate(ItemNode(k))
  BY <1>1, <1>2 DEF WorkIsOrdered
<1>5. /\ b \in Nat
      /\ \A k \in 1 .. b : k \in Items' /\ ItemNode(k)' = definition[Below[k].node]
      /\ \A k \in Items : k # 1 => \E j \in Items' : j = k + b /\ j > b + 1 /\ ItemNode(j)' = ItemNode(k)
      /\ \A k \in Items' : k \in 1 .. b \/ (k - b \in Items /\ k - b # 1 /\ ItemNode(k)' = ItemNode(k - b))
  BY WorkIsExpanded DEF IsExpanded
<1>6. \A k \in 1 .. b : IsTemplate(definition[Below[k].node])
  BY NodesBelowAreTyped
<1>7. Templated = MovedPaths(Node)
  BY MovesArePending
<1> HIDE DEF b
<1>8. PendingPaths = Paths \cup {Node.path}
  <2>1. PendingPaths = {RulePath(ItemNode(k)) : k \in {l \in Items : BecomesRule(ItemNode(l))}}
    BY <1>4 DEF PendingPaths
  <2> QED
    BY <1>2, <1>3, <2>1
<1>9. PendingMoves = Moves \cup MovedPaths(Node)
  BY <1>2, <1>3 DEF PendingMoves
<1>10. \A k \in Items' : \A x : ItemNode(k)' = x =>
         /\ RulePath(ItemNode(k))' = IF IsTemplate(x) THEN Moved(Node.path, x.path) ELSE x.path
         /\ IsTemplate(ItemNode(k))' <=> IsTemplate(x)
         /\ BecomesRule(ItemNode(k))' <=> BecomesRule(x)
         /\ UsesTemplate(ItemNode(k))' <=> UsesTemplate(x)
         /\ MovedPaths(ItemNode(k))' = MovedPaths(x)
  <2> SUFFICES ASSUME NEW k \in Items', NEW x, ItemNode(k)' = x
               PROVE  /\ RulePath(ItemNode(k))' = IF IsTemplate(x) THEN Moved(Node.path, x.path) ELSE x.path
                      /\ IsTemplate(ItemNode(k))' <=> IsTemplate(x)
                      /\ BecomesRule(ItemNode(k))' <=> BecomesRule(x)
                      /\ UsesTemplate(ItemNode(k))' <=> UsesTemplate(x)
                      /\ MovedPaths(ItemNode(k))' = MovedPaths(x)
    OBVIOUS
  <2>1. IsTemplate(ItemNode(k))' <=> IsTemplate(x)
    BY DEF IsTemplate
  <2>2. BecomesRule(ItemNode(k))' <=> BecomesRule(x)
    BY DEF BecomesRule
  <2>3. UsesTemplate(ItemNode(k))' <=> UsesTemplate(x)
    BY <1>2, Zenon DEF UsesTemplate
  <2>4. TemplateOf(ItemNode(k))' = TemplateOf(x)
    BY <1>2, Zenon DEF TemplateOf, TemplateNodes
  <2>5. MovedPaths(ItemNode(k))' = MovedPaths(x)
    BY <1>2, <2>4, Zenon DEF MovedPaths
  <2>6. RulePath(ItemNode(k))' =
          IF IsTemplate(ItemNode(k))' THEN templatePath' \o SubSeq(ItemNode(k)'.path, 3, Len(ItemNode(k)'.path))
          ELSE ItemNode(k)'.path
    BY Zenon DEF RulePath
  <2>7. RulePath(ItemNode(k))' = IF IsTemplate(x) THEN Moved(Node.path, x.path) ELSE x.path
    BY <1>2, <2>1, <2>6, Zenon DEF Moved
  <2> QED
    BY <2>1, <2>2, <2>3, <2>5, <2>7
<1>11. \A k \in Items : RulePath(ItemNode(k)) = ItemNode(k).path
  BY <1>4 DEF RulePath
<1>12. PendingPaths' = Templated \cup Paths
  <2>1. PendingPaths' =
          {RulePath(ItemNode(k))' : k \in {l \in Items' : IsTemplate(ItemNode(l))' \/ BecomesRule(ItemNode(l))'}}
    BY DEF PendingPaths
  <2>2. ASSUME NEW k \in Items', IsTemplate(ItemNode(k))' \/ BecomesRule(ItemNode(k))'
        PROVE  RulePath(ItemNode(k))' \in Templated \cup Paths
    <3>1. CASE k \in 1 .. b
      BY <1>5, <1>6, <1>10, <3>1
    <3>2. CASE k - b \in Items /\ k - b # 1 /\ ItemNode(k)' = ItemNode(k - b)
      BY <1>4, <1>10, <1>11, <2>2, <3>2
    <3> QED
      BY <1>5, <3>1, <3>2
  <2>3. ASSUME NEW k \in 1 .. b
        PROVE  Moved(Node.path, definition[Below[k].node].path) \in PendingPaths'
    BY <1>5, <1>6, <1>10, <2>1, <2>3
  <2>4. ASSUME NEW k \in Others, BecomesRule(ItemNode(k))
        PROVE  RulePath(ItemNode(k)) \in PendingPaths'
    <3>1. PICK j \in Items' : ItemNode(j)' = ItemNode(k)
      BY <1>5, <2>4
    <3> QED
      BY <1>4, <1>10, <1>11, <2>1, <2>4, <3>1
  <2> QED
    BY <2>1, <2>2, <2>3, <2>4
<1>13. PendingMoves' = Moves
  <2>1. PendingMoves' = UNION {MovedPaths(ItemNode(k))' : k \in {l \in Items' : UsesTemplate(ItemNode(l))'}}
    BY DEF PendingMoves
  <2>2. ASSUME NEW k \in Items', UsesTemplate(ItemNode(k))'
        PROVE  \E l \in Others : UsesTemplate(ItemNode(l)) /\ MovedPaths(ItemNode(k))' = MovedPaths(ItemNode(l))
    <3>1. CASE k \in 1 .. b
      <4>1. UsesTemplate(definition[Below[k].node])
        BY <1>5, <1>10, <2>2, <3>1
      <4> QED
        BY <1>6, <3>1, <4>1 DEF UsesTemplate, IsSkipped
    <3>2. CASE k - b \in Items /\ k - b # 1 /\ ItemNode(k)' = ItemNode(k - b)
      BY <1>10, <2>2, <3>2
    <3> QED
      BY <1>5, <3>1, <3>2
  <2>3. ASSUME NEW k \in Others, UsesTemplate(ItemNode(k))
        PROVE  \E j \in Items' : UsesTemplate(ItemNode(j))' /\ MovedPaths(ItemNode(j))' = MovedPaths(ItemNode(k))
    <3>1. PICK j \in Items' : ItemNode(j)' = ItemNode(k)
      BY <1>5, <2>3
    <3> QED
      BY <1>10, <2>3, <3>1
  <2> QED
    BY <2>1, <2>2, <2>3
<1> HIDE DEF Others, Paths, Moves, Templated
<1>14. ReadPaths' = ReadPaths \cup {Node.path}
  BY <1>2, Zenon DEF HasGrownBy, ReadPaths, PathsOfTree
<1>15. ReadPaths \cup PendingPaths \cup PendingMoves = OwnPaths \cup AllMovedPaths
  BY <1>1, <1>4 DEF NothingIsForgotten, IsDoomed
<1>16. OwnPaths' = OwnPaths /\ AllMovedPaths' = AllMovedPaths
  BY <1>2, DefinitionStays
<1>17. ReadPaths' \cup PendingPaths' \cup PendingMoves' = OwnPaths' \cup AllMovedPaths'
  BY <1>7, <1>8, <1>9, <1>12, <1>13, <1>14, <1>15, <1>16
<1> QED
  BY <1>17, Zenon DEF NothingIsForgotten

LEMMA TemplateIsRead ==
  ASSUME ReadSoFar, ProcessTemplate
  PROVE  ReadSoFar'
<1>1. CASE Refuse
  BY <1>1, NothingHappens DEF Refuse
<1>2. CASE ~Refuse
  <2>1. definition \in Definitions /\ definition' = definition /\ HasGrownBy(rules, rules', Node.path)
    BY <1>2, TemplateIsUsed DEF ReadSoFar
  <2>2. IsRuleTree(rules')
    BY <2>1 DEF HasGrownBy, IsLater
  <2> QED
    BY <1>2, <2>1, <2>2, ExpandedIsOrdered, ExpandedIsSupported, ExpandedHasChildren, ExpandedIsNotForgotten
       DEF ReadSoFar
<1> QED
  BY <1>1, <1>2

-----------------------------------------------------------------------------
(* The start, and all steps.                                               *)

LEMMA InitialRulesAreTree == IsRuleTree(InitialRules) /\ Len(InitialRules) = 1
<1> DEFINE root == NewRule(<<>>, <<>>, "Section")
<1>1. InitialRules = <<root>>
  BY DEF InitialRules
<1>2. IsRule(root) /\ root.path = <<>>
  <2>1. <<>> \in Seq(STRING)
    OBVIOUS
  <2> QED
    BY <2>1, NewRuleIsRule
<1>3. root.parent = NoRule
  BY DEF NewRule
<1> HIDE DEF root
<1>4. Len(<<root>>) = 1 /\ DOMAIN <<root>> = {1} /\ <<root>>[1] = root /\ <<root>> # <<>>
  OBVIOUS
<1>5. <<root>> \in Seq(ToSet(<<root>>))
  BY <1>4 DEF ToSet
<1> QED
  BY <1>1, <1>2, <1>3, <1>4, <1>5 DEF IsRuleTree, Root

LEMMA StartIsRead ==
  ASSUME Init
  PROVE  ReadSoFar
<1> DEFINE OfRules == {node \in NodesOf(definition) : ~IsSkipped(node)}
           n == Len(definition)
<1>1. /\ definition \in Definitions /\ rules = InitialRules
      /\ work = Visit(definition, OfRules) /\ templatePath = <<>>
  BY DEF Init
<1>2. /\ IsDocument(definition) /\ definition \in Seq(NodesOf(definition))
      /\ n \in Nat /\ DOMAIN definition = 1 .. n
      /\ \A i \in DOMAIN definition : definition[i].path \in Seq(STRING)
  BY <1>1, DocumentIsTyped
<1>3. IsRuleTree(rules) /\ Len(rules) = 1
  BY <1>1, InitialRulesAreTree
<1>4. IsVisit(work, definition, OfRules, n)
  BY <1>1, <1>2, VisitIsOrdered
<1> HIDE DEF n
<1>5. /\ work \in Seq(NodeItems)
      /\ \A k \in DOMAIN work : ItemNode(k) \in OfRules /\ work[k].kind = "node" /\ work[k].node \in DOMAIN definition
      /\ \A k, l \in DOMAIN work : k < l => work[k].node < work[l].node
      /\ \A i \in DOMAIN definition : definition[i] \in OfRules => \E k \in DOMAIN work : work[k].node = i
  <2> HIDE DEF OfRules
  <2>1. work \in Seq(NodeItems)
    BY <1>2, <1>4 DEF IsVisit, NodeItems
  <2>2. \A x \in NodeItems : x.kind = "node" /\ x.node \in DOMAIN definition
    BY DEF NodeItems
  <2>3. \A k \in DOMAIN work : work[k] \in NodeItems
    BY <2>1
  <2> QED
    BY <1>2, <1>4, <2>1, <2>2, <2>3 DEF IsVisit, ItemNode
<1>6. Items = DOMAIN work /\ Markers = {}
  BY <1>5 DEF Items, Markers
<1>7. \A k \in Items : ~IsSkipped(ItemNode(k)) /\ ~IsTemplate(ItemNode(k)) /\ ItemNode(k) \in NodesOf(definition)
  BY <1>5, <1>6 DEF IsSkipped
<1>8. WorkIsOrdered
  <2>1. work \in Seq(NodeItems \cup TemplateItems)
    <3> DEFINE S == NodeItems
               T == NodeItems \cup TemplateItems
    <3>1. S \subseteq T /\ work \in Seq(S)
      BY <1>5
    <3> HIDE DEF S, T
    <3>2. work \in Seq(T)
      BY <3>1
    <3> QED
      BY <3>2 DEF T
  <2>2. <<>> \in Seq(STRING)
    OBVIOUS
  <2> QED
    BY <1>1, <1>6, <1>7, <2>1, <2>2 DEF WorkIsOrdered
<1>9. ASSUME NEW k \in Items
      PROVE  IsSupported(k)
  <2> DEFINE i == work[k].node
             p == definition[i].path
  <2>1. i \in DOMAIN definition /\ ItemNode(k) = definition[i] /\ ~IsSkipped(definition[i]) /\ ~IsTemplate(definition[i])
    BY <1>5, <1>6, <1>7 DEF ItemNode
  <2> HIDE DEF i
  <2>2. p \in Seq(STRING) /\ p # <<>> /\ i \in Nat
    BY <1>2, <2>1, EntriesAreSkipped
  <2>3. CASE Front(p) = <<>>
    <3>1. RulePath(ItemNode(k)) = p
      BY <2>1, Zenon DEF RulePath
    <3> HIDE DEF p
    <3>2. ParentForPath(rules, p) = Root
      BY <2>2, <2>3, ParentIsOnTheWay, WayOfNothing
    <3>3. HasParent(rules, p)
      BY <3>2 DEF HasParent, Root, NoRule
    <3> QED
      BY <3>1, <3>3 DEF IsSupported
  <2>4. CASE Front(p) # <<>>
    <3>1. PICK j \in 1 .. i - 1 : definition[j].path = Front(p)
      BY <1>2, <2>1, <2>2 DEF IsDocument
    <3>2. j \in DOMAIN definition /\ j < i
      BY <1>2, <2>1, <3>1
    <3>3. ~IsSkipped(definition[j])
      BY <2>1, <2>2, <2>4, <3>1, SkippedWithAll
    <3>4. PICK l \in DOMAIN work : work[l].node = j
      BY <1>5, <3>2, <3>3 DEF NodesOf
    <3>5. l < k
      <4>1. l \in Nat /\ k \in Nat
        BY <1>5, <1>6
      <4>2. ~(k < l) /\ k # l
        BY <1>2, <1>5, <1>6, <3>2, <3>4 DEF i
      <4> QED
        BY <4>1, <4>2
    <3>6. l \in Items /\ ItemNode(l).path = Front(ItemNode(k).path)
      BY <1>6, <2>1, <3>1, <3>4 DEF ItemNode
    <3> QED
      BY <3>5, <3>6 DEF IsSupported
  <2> QED
    BY <2>3, <2>4
<1>10. \A k \in Items : HasChildrenBehind(k)
  BY <1>7 DEF HasChildrenBehind
<1>11. NothingIsForgotten
  <2>1. ReadPaths = {}
    <3>1. 2 .. Len(rules) = {}
      BY <1>3
    <3> QED
      BY <3>1 DEF ReadPaths
  <2>2. \A k \in Items : RulePath(ItemNode(k)) = ItemNode(k).path
    BY <1>7 DEF RulePath
  <2>3. \A m \in NodesOf(definition) : ~IsSkipped(m) => \E k \in Items : ItemNode(k) = m
    <3> TAKE m \in NodesOf(definition)
    <3>1. PICK i \in DOMAIN definition : definition[i] = m
      BY DEF NodesOf
    <3> QED
      BY <1>5, <1>6, <3>1 DEF ItemNode
  <2>4. PendingPaths = OwnPaths
    <3>1. PendingPaths = {ItemNode(k).path : k \in {l \in Items : BecomesRule(ItemNode(l))}}
      BY <1>7, <2>2 DEF PendingPaths
    <3> QED
      BY <1>7, <2>3, <3>1 DEF OwnPaths
  <2>5. PendingMoves = AllMovedPaths
    <3>1. \A m \in NodesOf(definition) : UsesTemplate(m) => ~IsSkipped(m)
      BY DEF UsesTemplate
    <3> QED
      BY <1>7, <2>3, <3>1 DEF PendingMoves, AllMovedPaths
  <2> QED
    BY <2>1, <2>4, <2>5 DEF NothingIsForgotten
<1> QED
  BY <1>1, <1>3, <1>8, <1>9, <1>10, <1>11 DEF ReadSoFar

LEMMA StepIsRead ==
  ASSUME ReadSoFar, Next
  PROVE  ReadSoFar'
<1>1. CASE RefuseNode
  BY <1>1, NothingHappens DEF RefuseNode, Refuse
<1>2. CASE ProcessOrphan
  BY <1>2, NothingHappens DEF ProcessOrphan, Refuse
<1>0. CASE Refuse
  BY <1>0, NothingHappens DEF Refuse
<1>3. CASE ProcessStructure
  BY <1>3, StructureIsFinished, NodeIsFinished
<1>4. CASE ProcessTypedNode
  BY <1>0, <1>4, TypedNodeIsFinished, NodeIsFinished
<1>5. CASE ProcessTemplate
  BY <1>5, TemplateIsRead
<1>6. CASE FinishTemplate
  BY <1>6, TemplateIsLeft
<1>7. CASE ProcessNameNode
  BY <1>0, <1>7, NameNodeIsFinished, NodeIsFinished
<1>8. CASE ProcessKey
  BY <1>8, EntriesAreRead DEF ProcessKey, IsNode
<1>9. CASE ProcessDependencies
  BY <1>9, EntriesAreRead DEF ProcessDependencies, IsNode
<1>10. CASE Finish
  BY <1>10, NothingHappens DEF Finish
<1> QED
  BY <1>1, <1>2, <1>3, <1>4, <1>5, <1>6, <1>7, <1>8, <1>9, <1>10 DEF Next

\* The document is read when there is no more work.
LEMMA ReadingGoesOn ==
  ASSUME Next, ~Finish
  PROVE  status' \in {"reading", "refused"}
<1> DEFINE GoesOn == status = "reading" /\ (status' = status \/ status' = "refused")
<1>1. Refuse => status' = "refused"
  BY DEF Refuse
<1>2. \A t, w, p : Continue(t, w, p) => status' = status
  BY DEF Continue
<1>3. \A t, r, w : FinishRule(t, r, w) => status' = status \/ status' = "refused"
  BY <1>1, <1>2, Zenon DEF FinishRule
<1>4. \A r, n : AddEntries(r, n) => status' = status \/ status' = "refused"
  BY <1>1, <1>2, Zenon DEF AddEntries
<1>5. /\ IsAt("node") => status = "reading"
      /\ IsAt("template") => status = "reading"
      /\ IsRegularNode => IsAt("node")
      /\ \A names : IsNode(names) => IsAt("node")
  BY Zenon DEF IsAt, IsRegularNode, IsNode
<1>6. RefuseNode \/ ProcessOrphan => GoesOn
  BY <1>1, <1>5 DEF RefuseNode, ProcessOrphan
<1>7. ProcessStructure => GoesOn
  BY <1>3, <1>5, Zenon DEF ProcessStructure
<1>8. ProcessTypedNode => GoesOn
  BY <1>1, <1>3, <1>5, Zenon DEF ProcessTypedNode
<1>9. ProcessTemplate => GoesOn
  BY <1>1, <1>2, <1>5, Zenon DEF ProcessTemplate
<1>10. FinishTemplate => GoesOn
  BY <1>1, <1>2, <1>5, Zenon DEF FinishTemplate
<1>11. ProcessNameNode => GoesOn
  BY <1>1, <1>3, <1>5, Zenon DEF ProcessNameNode
<1>12. ProcessKey \/ ProcessDependencies => GoesOn
  BY <1>4, <1>5, Zenon DEF ProcessKey, ProcessDependencies
<1> HIDE DEF GoesOn
<1>13. GoesOn
  BY <1>6, <1>7, <1>8, <1>9, <1>10, <1>11, <1>12 DEF Next
<1> QED
  BY <1>13 DEF GoesOn

\* The inductive invariant of reading and validating a rules document.  (RulesFromDocument,
\* RulesBuilder: the rules are a tree, the nodes wait behind what they need, and what was
\* read together with what waits is what the definition has.)
THEOREM RulesAreReadInOrder == SpecBuilder => []Inv
<1>1. InitBuilder => Inv
  <2> SUFFICES ASSUME InitBuilder PROVE Inv
    OBVIOUS
  <2>1. ReadSoFar
    BY StartIsRead DEF InitBuilder
  <2> QED
    BY <2>1 DEF Inv, InitBuilder, Init
<1>2. Inv /\ [NextBuilder]_builderVars => Inv'
  <2> SUFFICES ASSUME Inv, [NextBuilder]_builderVars
               PROVE  Inv'
    OBVIOUS
  <2>1. ReadSoFar /\ (status \in {"read", "accepted"} => work = <<>>)
    BY DEF Inv
  <2>2. CASE Read
    <3>1. Next
      BY <2>2 DEF Read
    <3>2. ReadSoFar'
      BY <2>1, <3>1, StepIsRead
    <3>3. CASE Finish
      BY <3>2, <3>3 DEF Inv, Finish
    <3>4. CASE ~Finish
      BY <3>1, <3>2, <3>4, ReadingGoesOn DEF Inv
    <3> QED
      BY <3>3, <3>4
  <2>3. CASE ValidateRule
    <3>1. status = "read" /\ UNCHANGED <<definition, rules, work, templatePath>>
      BY <2>3 DEF ValidateRule
    <3>2. ReadSoFar'
      BY <2>1, <3>1, NothingHappens
    <3> QED
      BY <2>1, <3>1, <3>2 DEF Inv
  <2>4. CASE Accept
    <3>1. status = "read" /\ UNCHANGED <<definition, rules, work, templatePath>>
      BY <2>4 DEF Accept
    <3>2. ReadSoFar'
      BY <2>1, <3>1, NothingHappens
    <3> QED
      BY <2>1, <3>1, <3>2 DEF Inv
  <2>5. CASE StopAtKeyTypes
    <3>1. status = "read" /\ status' = "stopped" /\ UNCHANGED <<definition, rules, work, templatePath>>
      BY <2>5 DEF StopAtKeyTypes
    <3>2. ReadSoFar'
      BY <2>1, <3>1, NothingHappens
    <3> QED
      BY <3>1, <3>2 DEF Inv
  <2>6. CASE UNCHANGED builderVars
    <3>1. UNCHANGED <<definition, rules, work, templatePath>> /\ status' = status
      BY <2>6 DEF builderVars
    <3>2. ReadSoFar'
      BY <2>1, <3>1, NothingHappens
    <3> QED
      BY <2>1, <3>1, <3>2 DEF Inv
  <2> QED
    BY <2>2, <2>3, <2>4, <2>5, <2>6 DEF NextBuilder
<1> QED
  BY <1>1, <1>2, PTL DEF SpecBuilder

\* The tree has a rule for each section of the definition, and for each section of a
\* template one at every place where it is used, and no other.  (RulesFromDocument)
THEOREM DefinitionIsCovered == SpecBuilder => []RulesCoverDefinition
<1>1. Inv => RulesCoverDefinition
  <2> SUFFICES ASSUME Inv, status \in {"read", "accepted"}
               PROVE  ReadPaths = OwnPaths \cup AllMovedPaths
    BY Zenon DEF RulesCoverDefinition, ReadPaths, OwnPaths, AllMovedPaths, MovedPaths
  <2>1. NothingIsForgotten /\ work = <<>>
    BY DEF Inv, ReadSoFar
  <2>2. Items = {}
    BY <2>1 DEF Items
  <2>3. PendingPaths = {} /\ PendingMoves = {}
    BY <2>2 DEF PendingPaths, PendingMoves
  <2> QED
    BY <2>1, <2>2, <2>3 DEF NothingIsForgotten
<1> QED
  BY <1>1, RulesAreReadInOrder, PTL

\* A section is never read without a rule for the section around it, except for the
\* entries of a list of keys or dependencies in a template.  (Rules::addRule)
THEOREM ParentsComeFirst == SpecBuilder => []NodesHaveParents
<1>1. Inv => NodesHaveParents
  <2> SUFFICES ASSUME Inv, IsAt("node")
               PROVE  \/ HasParent(rules, RulePath(Node))
                      \/ templatePath # <<>> /\ IsListedIn(Node, {"vr_key", "vr_dependency"})
    BY DEF NodesHaveParents
  <2>1. WorkIsOrdered /\ \A k \in Items : IsSupported(k)
    BY DEF Inv, ReadSoFar
  <2>2. 1 \in Items /\ Node = ItemNode(1)
    BY <2>1, HeadIsItem
  <2>3. ~ \E l \in Items : l < 1
    BY <2>1, WorkIsTyped
  <2>4. \/ HasParent(rules, RulePath(Node))
        \/ IsTemplate(Node) /\ IsListedIn(Node, {"vr_key", "vr_dependency"})
    BY <2>1, <2>2, <2>3 DEF IsSupported
  <2>5. IsTemplate(Node) => templatePath # <<>>
    BY <2>1, <2>2 DEF WorkIsOrdered
  <2> QED
    BY <2>4, <2>5
<1> QED
  BY <1>1, RulesAreReadInOrder, PTL

-----------------------------------------------------------------------------
(* A node that uses a template customizes it: the inductive invariant.     *)

\* What the constraints of the rule for a node that uses a template must be.
Expected(node) == Merged(Kinds(Written(TemplateOf(node)), TRUE), Written(node), FALSE)

\* The last rule of a path, which lookups lead to.
IsLastOf(t, r, path) ==
  r \in DOMAIN t /\ t[r].path = path /\ \A q \in DOMAIN t : q > r => t[q].path # path

IsCustomized(t, node) == \E r : IsLastOf(t, r, node.path) /\ HasKinds(t[r], Expected(node))

\* The entries of the work that are not nodes of a template, and their nodes.
OwnEntries == {k \in DOMAIN work : k \in Markers \/ ~IsTemplate(ItemNode(k))}
OwnIndexes == {work[k].node : k \in OwnEntries}
Users == {i \in DOMAIN definition : UsesTemplate(definition[i])}

OwnEntriesAreOrdered == \A k, l \in OwnEntries : k < l => work[k].node < work[l].node

\* A node that uses a template and was read stands before all that wait, and has the last
\* rule of its path.
UsersAreDone ==
  \A i \in Users : i \notin OwnIndexes => (\A n \in OwnIndexes : i < n) /\ IsCustomized(rules, definition[i])

\* The rule of the template that is being read has the template's constraints.
IsMerged(m) ==
  /\ UsesTemplate(ItemNode(m)) /\ templatePath = ItemNode(m).path
  /\ IsLastOf(rules, work[m].rule, templatePath)
  /\ HasKinds(rules[work[m].rule], Kinds(Written(TemplateOf(ItemNode(m))), TRUE))

CustomizedSoFar ==
  /\ OwnEntriesAreOrdered
  /\ UsersAreDone
  /\ \A m \in Markers : IsMerged(m)

\* The rules of a path have kept their constraints, and none was added.
IsSameFor(old, new, path) ==
  /\ DOMAIN old \subseteq DOMAIN new
  /\ \A r \in DOMAIN old :
       new[r].path = old[r].path /\ (old[r].path = path => new[r].constraints = old[r].constraints)
  /\ \A r \in DOMAIN new \ DOMAIN old : new[r].path # path

LEMMA LastStays ==
  ASSUME NEW old, NEW new, NEW path, IsSameFor(old, new, path), NEW r, IsLastOf(old, r, path)
  PROVE  IsLastOf(new, r, path) /\ \A kinds : HasKinds(old[r], kinds) => HasKinds(new[r], kinds)
<1>1. r \in DOMAIN old /\ new[r].path = path /\ new[r].constraints = old[r].constraints
  BY DEF IsSameFor, IsLastOf
<1>2. IsLastOf(new, r, path)
  BY <1>1 DEF IsSameFor, IsLastOf
<1>3. KindsOf(new[r]) = KindsOf(old[r])
  BY <1>1, Zenon DEF KindsOf
<1>4. \A kinds : HasKinds(old[r], kinds) => HasKinds(new[r], kinds)
  BY <1>1, <1>3 DEF HasKinds
<1> QED
  BY <1>2, <1>4

\* The definition does not change.
LEMMA UsersStay ==
  ASSUME definition' = definition
  PROVE  /\ Users' = Users
         /\ \A node : UsesTemplate(node)' <=> UsesTemplate(node)
         /\ \A node : TemplateOf(node)' = TemplateOf(node)
         /\ \A t, node : IsCustomized(t, node)' <=> IsCustomized(t, node)
<1>1. \A node : UsesTemplate(node)' <=> UsesTemplate(node)
  BY Zenon DEF UsesTemplate
<1>2. \A node : TemplateOf(node)' = TemplateOf(node)
  BY Zenon DEF TemplateOf, TemplateNodes
<1>3. Users' = Users
  BY <1>1 DEF Users
<1>4. \A node : Expected(node)' = Expected(node)
  BY <1>2, Zenon DEF Expected
<1>5. \A t, node : IsCustomized(t, node)' <=> IsCustomized(t, node)
  BY <1>4, Zenon DEF IsCustomized
<1> QED
  BY <1>1, <1>2, <1>3, <1>5

LEMMA DoneUsers ==
  ASSUME definition' = definition,
         \A i \in Users : i \notin OwnIndexes' =>
           (\A n \in OwnIndexes' : i < n) /\ IsCustomized(rules', definition[i])
  PROVE  UsersAreDone'
<1>1. Users' = Users
  BY UsersStay
<1>2. \A i : Expected(definition[i])' = Expected(definition[i])
  <2> TAKE i
  <2>1. TemplateOf(definition[i])' = TemplateOf(definition[i])
    BY Zenon DEF TemplateOf, TemplateNodes
  <2> QED
    BY <2>1, Zenon DEF Expected
<1>3. \A i : IsCustomized(rules, definition[i])' <=> IsCustomized(rules', definition[i])
  BY <1>2, Zenon DEF IsCustomized
<1> QED
  BY <1>1, <1>3, Zenon DEF UsersAreDone

\* The first entry is done: its node, if it is no node of a template, stands before all that wait.
LEMMA RestIsCustomized ==
  ASSUME definition \in Definitions, WorkIsOrdered, CustomizedSoFar, IsTaken,
         \A i \in Users : i \notin OwnIndexes => IsSameFor(rules, rules', definition[i].path),
         1 \in OwnEntries /\ UsesTemplate(ItemNode(1)) => IsCustomized(rules', ItemNode(1)),
         1 \in Items /\ Markers # {} => IsSameFor(rules, rules', templatePath)
  PROVE  CustomizedSoFar'
<1>1. OwnEntriesAreOrdered /\ UsersAreDone /\ \A m \in Markers : IsMerged(m)
  BY DEF CustomizedSoFar
<1>2. work # <<>> /\ work' = Tail(work) /\ definition' = definition /\ (1 \in Items => templatePath' = templatePath)
  BY DEF IsTaken
<1>3. /\ \A k \in DOMAIN work' : k \in Nat /\ k + 1 \in DOMAIN work /\ k + 1 # 1 /\ work'[k] = work[k + 1]
      /\ \A k \in DOMAIN work :
           k # 1 => k - 1 \in DOMAIN work' /\ work'[k - 1] = work[k] /\ (k - 1) + 1 = k
  BY <1>2, RestOfWork
<1>4. /\ \A k \in Markers' : k \in Nat /\ k + 1 \in Markers /\ k + 1 # 1
      /\ \A k \in Markers : k # 1 => k - 1 \in Markers' /\ (k - 1) + 1 = k
  BY <1>2, RestOfItems
<1>5. \A k \in DOMAIN work' : ItemNode(k)' = ItemNode(k + 1)
  BY <1>2, <1>3 DEF ItemNode
<1>6. OwnEntries' = {k \in DOMAIN work' : k \in Markers' \/ ~IsTemplate(ItemNode(k)')}
  BY DEF OwnEntries
<1>7. \A k \in OwnEntries' : k \in DOMAIN work' /\ k \in Nat /\ k + 1 \in OwnEntries /\ k + 1 # 1
  BY <1>3, <1>4, <1>5, <1>6 DEF OwnEntries
<1>8. \A k \in OwnEntries : k # 1 => k - 1 \in OwnEntries' /\ (k - 1) + 1 = k
  <2> TAKE k \in OwnEntries
  <2> SUFFICES ASSUME k # 1 PROVE k - 1 \in OwnEntries' /\ (k - 1) + 1 = k
    OBVIOUS
  <2>1. k \in DOMAIN work /\ (k \in Markers \/ ~IsTemplate(ItemNode(k)))
    BY DEF OwnEntries
  <2>2. k - 1 \in DOMAIN work' /\ (k - 1) + 1 = k
    BY <1>3, <2>1
  <2>3. ItemNode(k - 1)' = ItemNode(k)
    BY <1>5, <2>2
  <2> QED
    BY <1>4, <1>6, <2>1, <2>2, <2>3
<1>9. OwnIndexes' = {work'[k].node : k \in OwnEntries'}
  BY DEF OwnIndexes
<1>10. \A n \in OwnIndexes' : n \in OwnIndexes
  BY <1>3, <1>7, <1>9 DEF OwnIndexes
<1>11. \A n \in OwnIndexes : n \in OwnIndexes' \/ (1 \in OwnEntries /\ n = work[1].node)
  <2> TAKE n \in OwnIndexes
  <2>1. PICK k \in OwnEntries : n = work[k].node
    BY DEF OwnIndexes
  <2>2. CASE k # 1
    <3>1. k - 1 \in OwnEntries' /\ k - 1 \in DOMAIN work' /\ work'[k - 1] = work[k]
      BY <1>3, <1>8, <2>2 DEF OwnEntries
    <3> QED
      BY <1>9, <2>1, <3>1
  <2> QED
    BY <2>1, <2>2
<1>12. 1 \in OwnEntries => \A n \in OwnIndexes' : work[1].node < n
  <2> SUFFICES ASSUME 1 \in OwnEntries, NEW n \in OwnIndexes' PROVE work[1].node < n
    OBVIOUS
  <2>1. PICK k \in OwnEntries' : n = work'[k].node
    BY <1>9
  <2>2. k \in DOMAIN work' /\ k \in Nat /\ k + 1 \in OwnEntries /\ k + 1 # 1 /\ work'[k] = work[k + 1]
    BY <1>3, <1>7
  <2>3. 1 < k + 1
    BY <2>2
  <2> QED
    BY <1>1, <2>1, <2>2, <2>3 DEF OwnEntriesAreOrdered
<1>13. OwnEntriesAreOrdered'
  <2>1. ASSUME NEW k \in OwnEntries', NEW l \in OwnEntries', k < l
        PROVE  work'[k].node < work'[l].node
    <3>1. k + 1 \in OwnEntries /\ l + 1 \in OwnEntries /\ k + 1 < l + 1
      BY <1>7, <2>1
    <3>2. work'[k] = work[k + 1] /\ work'[l] = work[l + 1]
      BY <1>3, <1>7
    <3> QED
      BY <1>1, <3>1, <3>2 DEF OwnEntriesAreOrdered
  <2> QED
    BY <2>1 DEF OwnEntriesAreOrdered
<1>14. UsersAreDone'
  <2>1. ASSUME NEW i \in Users, i \notin OwnIndexes'
        PROVE  (\A n \in OwnIndexes' : i < n) /\ IsCustomized(rules', definition[i])
    <3>1. CASE i \notin OwnIndexes
      <4>1. (\A n \in OwnIndexes : i < n) /\ IsCustomized(rules, definition[i])
        BY <1>1, <3>1 DEF UsersAreDone
      <4>2. PICK r : IsLastOf(rules, r, definition[i].path) /\ HasKinds(rules[r], Expected(definition[i]))
        BY <4>1 DEF IsCustomized
      <4>3. IsSameFor(rules, rules', definition[i].path)
        BY <3>1
      <4>4. IsLastOf(rules', r, definition[i].path) /\ HasKinds(rules'[r], Expected(definition[i]))
        BY <4>2, <4>3, LastStays
      <4>5. IsCustomized(rules', definition[i])
        BY <4>4 DEF IsCustomized
      <4> QED
        BY <1>10, <4>1, <4>5
    <3>2. CASE i \in OwnIndexes
      <4>1. 1 \in OwnEntries /\ i = work[1].node
        BY <1>11, <2>1, <3>2
      <4>2. definition[i] = ItemNode(1) /\ UsesTemplate(ItemNode(1))
        BY <4>1 DEF ItemNode, Users
      <4> QED
        BY <1>12, <4>1, <4>2
    <3> QED
      BY <3>1, <3>2
  <2>2. \A i \in Users : i \notin OwnIndexes' =>
           (\A n \in OwnIndexes' : i < n) /\ IsCustomized(rules', definition[i])
    BY <2>1
  <2>3. definition' = definition
    BY <1>2
  <2> QED
    BY <2>2, <2>3, DoneUsers, Zenon
<1>15. ASSUME NEW m \in Markers'
       PROVE  IsMerged(m)'
  <2>1. m \in Nat /\ m + 1 \in Markers /\ m + 1 # 1 /\ m \in DOMAIN work'
    BY <1>4 DEF Markers
  <2>2. 1 \notin Markers
    BY <2>1 DEF WorkIsOrdered
  <2>3. 1 \in Items
    BY <1>2, <2>2, WorkIsTyped
  <2>4. /\ UsesTemplate(ItemNode(m + 1)) /\ templatePath = ItemNode(m + 1).path
        /\ IsLastOf(rules, work[m + 1].rule, templatePath)
        /\ HasKinds(rules[work[m + 1].rule], Kinds(Written(TemplateOf(ItemNode(m + 1))), TRUE))
    BY <1>1, <2>1 DEF IsMerged
  <2>5. IsSameFor(rules, rules', templatePath) /\ templatePath' = templatePath
    BY <1>2, <2>1, <2>3
  <2>6. /\ IsLastOf(rules', work[m + 1].rule, templatePath)
        /\ HasKinds(rules'[work[m + 1].rule], Kinds(Written(TemplateOf(ItemNode(m + 1))), TRUE))
    <3> DEFINE kinds == Kinds(Written(TemplateOf(ItemNode(m + 1))), TRUE)
               r == work[m + 1].rule
    <3> HIDE DEF kinds, r
    <3>1. IsLastOf(rules, r, templatePath) /\ HasKinds(rules[r], kinds)
      BY <2>4 DEF kinds, r
    <3>2. IsLastOf(rules', r, templatePath) /\ HasKinds(rules'[r], kinds)
      BY <2>5, <3>1, LastStays
    <3> QED
      BY <3>2 DEF kinds, r
  <2>7. ItemNode(m)' = ItemNode(m + 1) /\ work'[m] = work[m + 1]
    BY <1>3, <1>5, <2>1
  <2>8. UsesTemplate(ItemNode(m))' /\ TemplateOf(ItemNode(m))' = TemplateOf(ItemNode(m + 1))
    <3>1. UsesTemplate(ItemNode(m))' <=> UsesTemplate(ItemNode(m + 1))
      BY <1>2, <2>7, Zenon DEF UsesTemplate
    <3>2. TemplateOf(ItemNode(m))' = TemplateOf(ItemNode(m + 1))
      BY <1>2, <2>7, Zenon DEF TemplateOf, TemplateNodes
    <3> QED
      BY <2>4, <3>1, <3>2
  <2>9. Kinds(Written(TemplateOf(ItemNode(m))), TRUE)' = Kinds(Written(TemplateOf(ItemNode(m + 1))), TRUE)
    BY <2>8, Zenon
  <2> QED
    BY <2>4, <2>5, <2>6, <2>7, <2>8, <2>9 DEF IsMerged
<1> QED
  BY <1>13, <1>14, <1>15 DEF CustomizedSoFar

-----------------------------------------------------------------------------
(* Rules that are added.                                                   *)

\* What lies below a section comes after it in the document.
LEMMA SectionComesFirst ==
  ASSUME definition \in Definitions, NEW i \in DOMAIN definition, NEW j \in DOMAIN definition,
         Len(definition[i].path) < Len(definition[j].path), IsPrefix(definition[i].path, definition[j].path)
  PROVE  i < j
<1> DEFINE n == Len(definition)
           p == definition[i].path
           IsBehind(m) == m \in DOMAIN definition /\ Len(p) < Len(definition[m].path)
                            /\ IsPrefix(p, definition[m].path) => i < m
           S == {m \in 0 .. n : \A k \in 0 .. m : IsBehind(k)}
<1>1. /\ IsDocument(definition) /\ n \in Nat /\ DOMAIN definition = 1 .. n
      /\ \A m \in DOMAIN definition : definition[m].path \in Seq(STRING)
  BY DocumentIsTyped
<1>2. 0 \in S
  <2>1. 0 \in 0 .. n /\ 0 \notin DOMAIN definition /\ \A k \in 0 .. 0 : k = 0
    BY <1>1
  <2> QED
    BY <2>1
<1>3. ASSUME NEW m \in 0 .. n - 1, m \in S
      PROVE  m + 1 \in S
  <2> DEFINE q == definition[m + 1].path
  <2>1. m + 1 \in 0 .. n /\ m + 1 \in DOMAIN definition /\ (m + 1) - 1 = m /\ m \in Nat
    BY <1>1
  <2>2. IsBehind(m + 1)
    <3> SUFFICES ASSUME Len(p) < Len(q), IsPrefix(p, q)
                 PROVE  i < m + 1
      OBVIOUS
    <3>1. p \in Seq(STRING) /\ q \in Seq(STRING)
      BY <1>1, <2>1
    <3>2. q # <<>>
      <4> HIDE DEF p, q
      <4>1. Len(p) \in Nat
        BY <3>1
      <4>2. Len(q) # 0
        BY <4>1
      <4> QED
        BY <3>1, <4>2
    <3>3. PICK k \in 1 .. (m + 1) - 1 : definition[k].path = Front(q)
      BY <1>1, <2>1, <3>2 DEF IsDocument
    <3>4. k \in DOMAIN definition /\ k \in 0 .. m /\ k < m + 1
      BY <1>1, <2>1, <3>3
    <3>5. Front(q) = p \/ (Len(p) < Len(Front(q)) /\ IsPrefix(p, Front(q)))
      <4> HIDE DEF p, q
      <4> QED
        BY <3>1, <3>2, BelowIsAbove
    <3>6. CASE Front(q) = p
      <4>1. k = i
        BY <1>1, <3>3, <3>4, <3>6 DEF IsDocument
      <4> QED
        BY <3>4, <4>1
    <3>7. CASE Len(p) < Len(Front(q)) /\ IsPrefix(p, Front(q))
      <4>1. i < k
        BY <1>3, <3>3, <3>4, <3>7
      <4> QED
        BY <1>1, <2>1, <3>4, <4>1
    <3> QED
      BY <3>5, <3>6, <3>7
  <2> HIDE DEF IsBehind
  <2>3. \A k \in 0 .. m + 1 : k \in 0 .. m \/ k = m + 1
    BY <2>1
  <2> QED
    BY <1>3, <2>1, <2>2, <2>3
<1> HIDE DEF S, n
<1>4. \A m \in 0 .. n : m \in S
  BY <1>1, <1>2, <1>3, RangeInduction
<1>5. j \in 0 .. n /\ j \in 0 .. j
  BY <1>1
<1>6. IsBehind(j)
  <2> HIDE DEF IsBehind
  <2> QED
    BY <1>4, <1>5 DEF S
<1> QED
  BY <1>6

\* A section of a template is moved below the place where the template is used.
LEMMA MovedIsBelow ==
  ASSUME NEW base \in Seq(STRING), NEW path \in Seq(STRING), Len(path) > 2
  PROVE  Len(base) < Len(Moved(base, path)) /\ IsPrefix(base, Moved(base, path))
<1> DEFINE tail == SubSeq(path, 3, Len(path))
           b == Len(base)
<1>1. tail \in Seq(STRING) /\ Len(tail) \in Nat \ {0}
  <2>1. Len(path) \in Nat /\ \A i \in 3 .. Len(path) : path[i] \in STRING
    OBVIOUS
  <2>2. tail \in Seq(STRING) /\ Len(tail) = IF 3 <= Len(path) THEN Len(path) - 3 + 1 ELSE 0
    BY <2>1, SubSeqProperties
  <2> HIDE DEF tail
  <2> QED
    BY <2>1, <2>2
<1> HIDE DEF tail
<1> DEFINE moved == base \o tail
<1>2. /\ moved \in Seq(STRING) /\ Len(moved) = b + Len(tail) /\ b \in Nat
      /\ \A i \in 1 .. b + Len(tail) : moved[i] = IF i <= b THEN base[i] ELSE tail[i - b]
  BY <1>1, ConcatProperties
<1> HIDE DEF moved, b
<1>3. b < Len(moved) /\ b <= Len(moved) /\ \A i \in 1 .. b : base[i] = moved[i]
  BY <1>1, <1>2
<1>4. IsPrefix(base, moved)
  BY <1>2, <1>3, PrefixIsPointwise DEF b
<1> QED
  BY <1>3, <1>4 DEF Moved, moved, tail, b

\* No rule is added for the place of a template that was used before.
LEMMA OtherPath ==
  ASSUME definition \in Definitions, WorkIsOrdered, CustomizedSoFar, IsAt("node")
  PROVE  /\ \A i \in Users : i \notin OwnIndexes => definition[i].path # RulePath(Node)
         /\ Markers # {} => RulePath(Node) # templatePath
<1>1. 1 \in Items /\ Node = ItemNode(1) /\ work[1].node \in DOMAIN definition
  BY HeadIsItem, ItemsAreTyped
<1>2. Node.path \in Seq(STRING)
  BY <1>1, ItemsAreTyped
<1>3. CASE IsTemplate(Node)
  <2>1. Len(Node.path) > 2 /\ \E m \in Markers : 1 < m
    BY <1>1, <1>3 DEF WorkIsOrdered
  <2>2. PICK m \in Markers : 1 < m
    BY <2>1
  <2>3. templatePath \in Seq(STRING) /\ templatePath = ItemNode(m).path
    BY DEF WorkIsOrdered, CustomizedSoFar, IsMerged
  <2>4. RulePath(Node) = Moved(templatePath, Node.path)
    BY <1>3 DEF RulePath, Moved
  <2>5. Len(templatePath) < Len(RulePath(Node)) /\ IsPrefix(templatePath, RulePath(Node))
    BY <1>2, <2>1, <2>3, <2>4, MovedIsBelow
  <2>6. m \in DOMAIN work /\ work[m].node \in DOMAIN definition /\ m \in OwnEntries /\ work[m].node \in OwnIndexes
    BY WorkIsTyped DEF OwnEntries, OwnIndexes
  <2>7. ASSUME NEW i \in Users, i \notin OwnIndexes, definition[i].path = RulePath(Node)
        PROVE  FALSE
    <3>1. i < work[m].node /\ i \in DOMAIN definition
      BY <2>6, <2>7 DEF CustomizedSoFar, UsersAreDone, Users
    <3>2. work[m].node < i
      BY <2>3, <2>5, <2>6, <2>7, <3>1, SectionComesFirst DEF ItemNode
    <3> QED
      BY <2>6, <3>1, <3>2, DocumentIsTyped
  <2>8. RulePath(Node) # templatePath
    <3>1. Len(templatePath) \in Nat
      BY <2>3
    <3> QED
      BY <2>5, <3>1
  <2> QED
    BY <2>7, <2>8
<1>4. CASE ~IsTemplate(Node)
  <2>1. \A m \in Markers : m < 1
    BY <1>1, <1>4 DEF WorkIsOrdered
  <2>2. Markers = {}
    BY <2>1, WorkIsTyped
  <2>3. 1 \in OwnEntries /\ work[1].node \in OwnIndexes
    BY <1>1, <1>4, WorkIsTyped DEF OwnEntries, OwnIndexes
  <2>4. RulePath(Node) = definition[work[1].node].path
    BY <1>1, <1>4 DEF RulePath, ItemNode
  <2>5. ASSUME NEW i \in Users, i \notin OwnIndexes, definition[i].path = RulePath(Node)
        PROVE  FALSE
    <3>1. i \in DOMAIN definition /\ i # work[1].node
      BY <2>3, <2>5 DEF Users
    <3> QED
      BY <1>1, <2>4, <2>5, <3>1, DocumentIsTyped DEF IsDocument
  <2> QED
    BY <2>2, <2>5
<1> QED
  BY <1>3, <1>4

\* The rule that a node has started is the last one of its path; all other rules are kept.
LEMMA RuleIsAdded ==
  ASSUME ReadSoFar, IsAt("node"), BecomesRule(Node), HasParent(rules, RulePath(Node)),
         NEW rule, rule.path = RulePath(Node)
  PROVE  LET new == [Started EXCEPT ![Len(Started)] = rule]
         IN  /\ \A path : path # RulePath(Node) => IsSameFor(rules, new, path)
             /\ IsLastOf(new, Len(Started), RulePath(Node)) /\ new[Len(Started)] = rule
<1> DEFINE new == [Started EXCEPT ![Len(Started)] = rule]
           n == Len(Started)
<1>1. /\ Len(Started) = Len(rules) + 1 /\ DOMAIN Started = 1 .. Len(rules) + 1
      /\ Started \in Seq(ToSet(Started))
      /\ \A r \in DOMAIN rules : Started[r] = rules[r]
      /\ DOMAIN rules = 1 .. Len(rules) /\ Len(rules) \in Nat
  BY RuleIsStarted
<1>2. n \in DOMAIN Started
  BY <1>1
<1>3. DOMAIN new = DOMAIN Started /\ (\A i \in DOMAIN Started : i # n => new[i] = Started[i]) /\ new[n] = rule
  BY <1>1, <1>2, ChangedSequence
<1> HIDE DEF new, n
<1>4. n = Len(rules) + 1
  BY <1>1 DEF n
<1>5. \A r \in DOMAIN rules : r \in DOMAIN new /\ new[r] = rules[r]
  BY <1>1, <1>3, <1>4
<1>6. \A r \in DOMAIN new \ DOMAIN rules : r = n
  BY <1>1, <1>3, <1>4
<1>7. \A path : path # RulePath(Node) => IsSameFor(rules, new, path)
  BY <1>3, <1>5, <1>6 DEF IsSameFor
<1>8. IsLastOf(new, n, RulePath(Node))
  <2>1. \A q \in DOMAIN new : ~(q > n)
    BY <1>1, <1>3, <1>4
  <2> QED
    BY <1>2, <1>3, <2>1 DEF IsLastOf
<1> QED
  BY <1>3, <1>7, <1>8 DEF new, n

-----------------------------------------------------------------------------
(* The steps.                                                              *)

\* Nothing happens to the rules or the work.
LEMMA CustomizedStays ==
  ASSUME CustomizedSoFar, UNCHANGED <<definition, rules, work, templatePath>>
  PROVE  CustomizedSoFar'
<1>1. \A k : ItemNode(k)' = ItemNode(k)
  BY Zenon DEF ItemNode
<1>2. Markers' = Markers
  BY Zenon DEF Markers
<1>3. OwnEntries' = OwnEntries
  BY <1>1, <1>2 DEF OwnEntries
<1>4. OwnIndexes' = OwnIndexes
  BY <1>3 DEF OwnIndexes
<1>5. OwnEntriesAreOrdered'
  BY <1>3 DEF CustomizedSoFar, OwnEntriesAreOrdered
<1>6. UsersAreDone'
  BY <1>4, DoneUsers DEF CustomizedSoFar, UsersAreDone
<1>7. \A m : UsesTemplate(ItemNode(m))' <=> UsesTemplate(ItemNode(m))
  BY <1>1, Zenon DEF UsesTemplate
<1>8. \A m : TemplateOf(ItemNode(m))' = TemplateOf(ItemNode(m))
  BY <1>1, Zenon DEF TemplateOf, TemplateNodes
<1>9. \A m : IsMerged(m)' <=> IsMerged(m)
  BY <1>1, <1>7, <1>8, Zenon DEF IsMerged
<1> QED
  BY <1>2, <1>5, <1>6, <1>9 DEF CustomizedSoFar

\* A node that uses no template becomes a rule.
LEMMA NodeStaysCustomized ==
  ASSUME ReadSoFar, CustomizedSoFar, NEW rule, BecomesThis(rule)
  PROVE  CustomizedSoFar'
<1>1. CASE Refuse
  BY <1>1, CustomizedStays DEF Refuse
<1>2. CASE ~Refuse
  <2>1. IsAt("node") /\ BecomesRule(Node) /\ ~UsesTemplate(Node) /\ HasParent(rules, RulePath(Node))
    BY DEF BecomesThis
  <2>2. /\ rules' = [Started EXCEPT ![Len(Started)] = rule] /\ rule.path = RulePath(Node)
        /\ work' = Tail(work) /\ templatePath' = templatePath /\ definition' = definition
        /\ HasGrownBy(rules, rules', RulePath(Node))
    BY <1>2, RuleIsFinished
  <2>3. definition \in Definitions /\ WorkIsOrdered /\ templatePath \in Seq(STRING)
    BY DEF ReadSoFar, WorkIsOrdered
  <2>4. 1 \in Items /\ Node = ItemNode(1) /\ work # <<>>
    BY <2>1, <2>3, HeadIsItem
  <2>5. IsTaken
    BY <2>2, <2>3, <2>4 DEF IsTaken, HasGrownBy
  <2>6. \A path : path # RulePath(Node) => IsSameFor(rules, rules', path)
    BY <2>1, <2>2, RuleIsAdded
  <2>7. /\ \A i \in Users : i \notin OwnIndexes => definition[i].path # RulePath(Node)
        /\ Markers # {} => RulePath(Node) # templatePath
    BY <2>1, <2>3, OtherPath
  <2> QED
    BY <2>1, <2>3, <2>4, <2>5, <2>6, <2>7, RestIsCustomized
<1> QED
  BY <1>1, <1>2

\* A rule is changed and keeps its path and constraints.
LEMMA SameForAll ==
  ASSUME IsRuleTree(rules), NEW r \in DOMAIN rules, NEW rule, rule.path = rules[r].path,
         rules' = [rules EXCEPT ![r] = rule], NEW path,
         rules[r].path = path => rule.constraints = rules[r].constraints
  PROVE  IsSameFor(rules, rules', path)
<1>1. rules \in Seq(ToSet(rules))
  BY DEF IsRuleTree
<1>2. DOMAIN rules' = DOMAIN rules /\ rules'[r] = rule /\ \A q \in DOMAIN rules : q # r => rules'[q] = rules[q]
  BY <1>1
<1> QED
  BY <1>2 DEF IsSameFor

\* Keys and dependencies are added.
LEMMA EntriesStayCustomized ==
  ASSUME ReadSoFar, CustomizedSoFar, IsAt("node"), NEW refusal,
         AddEntries(ParentForPath(rules, RulePath(Node)), refusal)
  PROVE  CustomizedSoFar'
<1>1. CASE Refuse
  BY <1>1, CustomizedStays DEF Refuse
<1>2. CASE ~Refuse
  <2>1. /\ Node.type = "SectionList" /\ work' = Tail(work)
        /\ definition' = definition /\ templatePath' = templatePath
        /\ HasSamePaths(rules, rules')
        /\ \E r \in DOMAIN rules : \E rule :
             rules' = [rules EXCEPT ![r] = rule] /\ rule.path = rules[r].path /\ rule.constraints = rules[r].constraints
    BY <1>2, RulesAreExtended
  <2>2. definition \in Definitions /\ WorkIsOrdered /\ templatePath \in Seq(STRING) /\ IsRuleTree(rules)
    BY DEF ReadSoFar, WorkIsOrdered
  <2>3. 1 \in Items /\ Node = ItemNode(1) /\ work # <<>>
    BY <2>2, HeadIsItem
  <2>4. IsTaken
    BY <2>1, <2>2, <2>3 DEF IsTaken, HasSamePaths
  <2>5. \A path : IsSameFor(rules, rules', path)
    BY <2>1, <2>2, SameForAll
  <2>6. ~UsesTemplate(Node)
    BY <2>1 DEF UsesTemplate
  <2> QED
    BY <2>2, <2>3, <2>4, <2>5, <2>6, RestIsCustomized
<1> QED
  BY <1>1, <1>2

\* The node that uses the template customizes its rule.
LEMMA NodeIsCustomized ==
  ASSUME ReadSoFar, CustomizedSoFar, FinishTemplate, ~Refuse
  PROVE  IsCustomized(rules', Node) /\ \A path : path # Node.path => IsSameFor(rules, rules', path)
<1> DEFINE r == Head(work).rule
           customized == WithOwnValues(definition, Node, rules[r])
           kinds == Kinds(Written(TemplateOf(Node)), TRUE)
<1>1. /\ IsAt("template") /\ 1 \in Markers /\ r \in DOMAIN rules /\ Node.values \in Seq(ToSet(Node.values))
      /\ \/ /\ rules' = rules
            /\ \A i \in DOMAIN Node.values : Node.values[i].base = "use_template"
         \/ ~IsFailure(customized) /\ customized.path = rules[r].path /\ rules' = [rules EXCEPT ![r] = customized]
  BY TemplateIsFinished
<1>2. IsRuleTree(rules) /\ WorkIsOrdered
  BY DEF ReadSoFar
<1>3. Node = ItemNode(1) /\ Head(work) = work[1]
  BY <1>1, <1>2, HeadIsMarker, WorkIsTyped
<1>4. /\ UsesTemplate(Node) /\ IsLastOf(rules, r, Node.path) /\ HasKinds(rules[r], kinds)
  <2>1. IsMerged(1)
    BY <1>1 DEF CustomizedSoFar
  <2> QED
    BY <1>3, <2>1 DEF IsMerged
<1>5. rules[r].path = Node.path
  BY <1>4 DEF IsLastOf
<1>6. IsRule(rules[r]) /\ rules \in Seq(ToSet(rules))
  BY <1>1, <1>2 DEF IsRuleTree
<1>7. IsTemplate(Node) = FALSE
  BY <1>4 DEF UsesTemplate, IsSkipped, IsTemplate
<1>8. Expected(Node) = Merged(kinds, Written(Node), FALSE)
  BY DEF Expected
<1> HIDE DEF r, customized, kinds
<1>9. CASE rules' = rules /\ \A i \in DOMAIN Node.values : Node.values[i].base = "use_template"
  <2>1. Written(Node) = {}
    BY <1>9 DEF Written, ToSet, ConstraintNames
  <2>2. Merged(kinds, {}, FALSE) = kinds
    BY DEF Merged, NotOverridden, Kinds
  <2>3. Expected(Node) = kinds
    BY <1>8, <2>1, <2>2
  <2>4. IsCustomized(rules', Node)
    BY <1>4, <1>9, <2>3 DEF IsCustomized
  <2>5. \A path : IsSameFor(rules, rules', path)
    BY <1>9 DEF IsSameFor
  <2> QED
    BY <2>4, <2>5
<1>10. CASE ~IsFailure(customized) /\ customized.path = rules[r].path /\ rules' = [rules EXCEPT ![r] = customized]
  <2>1. HasKinds(customized, Merged(KindsOf(rules[r]), Written(Node), IsTemplate(Node)))
    <3>1. rules[r].constraints \in Seq(ToSet(rules[r].constraints))
      BY <1>4 DEF HasKinds
    <3> QED
      BY <1>1, <1>6, <1>10, <3>1, KindsOfNode DEF customized
  <2>2. KindsOf(rules[r]) = kinds
    BY <1>4 DEF HasKinds
  <2>3. HasKinds(customized, Expected(Node))
    BY <1>7, <1>8, <2>1, <2>2, Zenon
  <2>4. /\ DOMAIN rules' = DOMAIN rules /\ rules'[r] = customized
        /\ \A q \in DOMAIN rules : q # r => rules'[q] = rules[q]
    BY <1>1, <1>6, <1>10
  <2>5. IsLastOf(rules', r, Node.path)
    BY <1>4, <1>10, <2>4 DEF IsLastOf
  <2>6. IsCustomized(rules', Node)
    BY <2>3, <2>4, <2>5 DEF IsCustomized
  <2>7. \A path : path # Node.path => IsSameFor(rules, rules', path)
    BY <1>1, <1>2, <1>5, <1>10, SameForAll
  <2> QED
    BY <2>6, <2>7
<1> QED
  BY <1>1, <1>9, <1>10 DEF r, customized

LEMMA LeavingStaysCustomized ==
  ASSUME ReadSoFar, CustomizedSoFar, FinishTemplate
  PROVE  CustomizedSoFar'
<1>1. CASE Refuse
  BY <1>1, CustomizedStays DEF Refuse
<1>2. CASE ~Refuse
  <2>1. /\ IsAt("template") /\ 1 \in Markers /\ 1 \notin Items /\ IsTaken
    BY <1>2, TemplateIsFinished
  <2>2. IsCustomized(rules', Node) /\ \A path : path # Node.path => IsSameFor(rules, rules', path)
    BY <1>2, NodeIsCustomized
  <2>3. definition \in Definitions /\ WorkIsOrdered
    BY DEF ReadSoFar
  <2>4. Node = ItemNode(1) /\ 1 \in OwnEntries /\ work[1].node \in OwnIndexes /\ work[1].node \in DOMAIN definition
    BY <2>1, <2>3, HeadIsMarker, WorkIsTyped DEF OwnEntries, OwnIndexes
  <2>5. ASSUME NEW i \in Users, i \notin OwnIndexes
        PROVE  definition[i].path # Node.path
    <3>1. i # work[1].node /\ i \in DOMAIN definition /\ Node = definition[work[1].node]
      BY <2>4, <2>5 DEF Users, ItemNode
    <3> QED
      BY <2>3, <2>4, <3>1, DocumentIsTyped DEF IsDocument
  <2> QED
    BY <2>1, <2>2, <2>3, <2>4, <2>5, RestIsCustomized
<1> QED
  BY <1>1, <1>2

\* The rule of a node that uses a template starts with the template's constraints.
LEMMA TemplateIsMerged ==
  ASSUME ReadSoFar, ProcessTemplate, ~Refuse, NEW rule, IsFromTemplate(rule)
  PROVE  HasKinds(rule, Kinds(Written(Template), TRUE))
<1> DEFINE value == ValueOf(definition, Node, "use_template")
           kinds == Kinds(Written(Template), TRUE)
<1>1. /\ IsAt("node") /\ BecomesRule(Node) /\ HasParent(rules, RulePath(Node))
      /\ Template \in NodesOf(definition) /\ Template.path = <<"vr_template", value.content>>
  BY TemplateIsUsed
<1>2. IsRule(StartedRule) /\ StartedRule.constraints = <<>>
  BY <1>1, RuleIsStarted DEF IsBare
<1>3. /\ Template.values \in Seq(ToSet(Template.values))
      /\ Template.type = "SectionList" => Template.values = <<>>
  <2>1. IsDocument(definition) /\ \E i \in DOMAIN definition : Template = definition[i]
    BY <1>1, DocumentIsTyped DEF ReadSoFar, NodesOf
  <2> HIDE DEF Template
  <2> QED
    BY <2>1 DEF IsDocument
<1>4. IsTemplate(Template) = TRUE
  <2>1. Template.path # <<>> /\ Template.path[1] = "vr_template"
    BY <1>1
  <2> QED
    BY <2>1 DEF IsTemplate
<1>5. \A r : r.constraints = <<>> => KindsOf(r) = {} /\ r.constraints \in Seq(ToSet(r.constraints))
  BY DEF KindsOf, ToSet
<1> HIDE DEF value, Template
<1>6. CASE Template.type = "SectionList"
  <2>1. rule.constraints = <<>>
    BY <1>2, <1>6 DEF IsFromTemplate
  <2>3. Written(Template) = {}
    <3>1. DOMAIN Template.values = {}
      BY <1>3, <1>6
    <3> QED
      BY <3>1 DEF Written, ToSet
  <2>2. kinds = {}
    BY <2>3 DEF Kinds
  <2> QED
    BY <1>5, <2>1, <2>2 DEF HasKinds
<1>7. CASE Template.type # "SectionList"
  <2>1. PICK type : rule = WithOwnValues(definition, Template, [StartedRule EXCEPT !.type = type])
    BY <1>7 DEF IsFromTemplate
  <2> DEFINE started == [StartedRule EXCEPT !.type = type]
  <2>2. IsRule(started) /\ started.constraints = <<>>
    BY <1>2 DEF IsRule
  <2>3. ~IsFailure(rule)
    BY DEF IsFromTemplate
  <2> HIDE DEF started
  <2>4. rule = WithOwnValues(definition, Template, started)
    BY <2>1 DEF started
  <2>5. started.constraints \in Seq(ToSet(started.constraints)) /\ KindsOf(started) = {}
    BY <1>5, <2>2
  <2>6. HasKinds(rule, Merged({}, Written(Template), TRUE))
    <3>1. ~IsFailure(WithOwnValues(definition, Template, started))
      BY <2>3, <2>4
    <3>2. HasKinds(WithOwnValues(definition, Template, started),
                   Merged(KindsOf(started), Written(Template), IsTemplate(Template)))
      BY <1>3, <2>2, <2>5, <3>1, KindsOfNode
    <3> QED
      BY <1>4, <2>4, <2>5, <3>2, Zenon
  <2>7. Merged({}, Written(Template), TRUE) = kinds
    BY DEF Merged, NotOverridden
  <2> QED
    BY <2>6, <2>7
<1> QED
  BY <1>6, <1>7

\* What waited before waits behind the template; the marker stands for the node.
LEMMA EntriesOfExpanded ==
  ASSUME ReadSoFar, ProcessTemplate, ~Refuse
  PROVE  LET b == Len(Below)
         IN  /\ b \in Nat /\ 1 \in OwnEntries /\ Node = ItemNode(1)
             /\ \A k \in OwnEntries' : k \in Nat
             /\ \A k \in OwnEntries' :
                  \/ k = b + 1 /\ work'[k].node = work[1].node
                  \/ k > b + 1 /\ k - b \in OwnEntries /\ k - b > 1 /\ work'[k].node = work[k - b].node
             /\ \A k \in OwnEntries : \E j \in OwnEntries' : work'[j].node = work[k].node
<1> DEFINE b == Len(Below)
<1>1. /\ IsAt("node") /\ ~IsTemplate(Node) /\ definition' = definition /\ templatePath = <<>>
  BY TemplateIsUsed
<1>2. WorkIsOrdered
  BY DEF ReadSoFar
<1>3. 1 \in Items /\ Node = ItemNode(1) /\ Head(work) = work[1]
  BY <1>1, <1>2, HeadIsItem, WorkIsTyped
<1>4. Markers = {} /\ \A k \in DOMAIN work : k \in Items /\ k \in Nat
  <2>1. Markers = {}
    BY <1>1, <1>2 DEF WorkIsOrdered
  <2> QED
    BY <1>2, <2>1, WorkIsTyped
<1>5. 1 \in OwnEntries
  BY <1>1, <1>3 DEF OwnEntries, Items
<1>6. /\ b \in Nat
      /\ work' \in Seq(NodeItems' \cup TemplateItems')
      /\ \A k \in 1 .. b : k \in Items' /\ work'[k] = Below[k] /\ ItemNode(k)' = definition[Below[k].node]
      /\ \A k \in Items :
           k # 1 => \E j \in Items' : j = k + b /\ j > b + 1 /\ ItemNode(j)' = ItemNode(k) /\ work'[j] = work[k]
      /\ \A k \in Items' : k \in 1 .. b \/ (k > b + 1 /\ k - b \in Items /\ k - b # 1 /\ (k - b) + b = k
                                            /\ ItemNode(k)' = ItemNode(k - b))
      /\ Markers' = {b + 1} /\ work'[b + 1] = Finisher
  BY WorkIsExpanded DEF IsExpanded
<1> HIDE DEF b
<1>7. \A k \in DOMAIN work' : k \in Items' \/ k \in Markers'
  <2> DEFINE S == NodeItems' \cup TemplateItems'
  <2>1. \A x \in S : x.kind = "node" \/ x.kind = "template"
    BY DEF NodeItems, TemplateItems
  <2> HIDE DEF S
  <2>2. \A k \in DOMAIN work' : work'[k] \in S
    BY <1>6 DEF S
  <2> QED
    BY <2>1, <2>2 DEF Items, Markers
<1>8. /\ OwnEntries' = {k \in DOMAIN work' : k \in Markers' \/ ~IsTemplate(ItemNode(k)')}
      /\ OwnEntries = {k \in DOMAIN work : ~IsTemplate(ItemNode(k))}
      /\ Items' \subseteq DOMAIN work' /\ Markers' \subseteq DOMAIN work' /\ Items \subseteq DOMAIN work
  BY <1>4 DEF OwnEntries, Items, Markers
<1>9. Finisher.node = work[1].node
  BY <1>3 DEF Finisher
<1>10. \A k \in 1 .. b : IsTemplate(ItemNode(k)') /\ k # b + 1
  <2>1. \A k \in 1 .. b : IsTemplate(definition[Below[k].node])
    BY NodesBelowAreTyped DEF b
  <2>2. \A k \in 1 .. b : k # b + 1
    BY <1>6
  <2> QED
    BY <1>6, <2>1, <2>2
<1>11. ASSUME NEW k \in OwnEntries'
       PROVE  \/ k = b + 1 /\ work'[k].node = work[1].node
              \/ k > b + 1 /\ k - b \in OwnEntries /\ k - b > 1 /\ work'[k].node = work[k - b].node
  <2>1. CASE k = b + 1
    BY <1>6, <1>9, <2>1
  <2>2. CASE k # b + 1
    <3>1. k \in DOMAIN work' /\ ~IsTemplate(ItemNode(k)') /\ k \in Items'
      BY <1>6, <1>7, <1>8, <2>2
    <3>2. k \notin 1 .. b
      BY <1>10, <3>1
    <3>3. k > b + 1 /\ k - b \in Items /\ k - b # 1 /\ (k - b) + b = k /\ ItemNode(k)' = ItemNode(k - b)
      BY <1>6, <3>1, <3>2
    <3>4. k - b \in OwnEntries
      BY <1>8, <3>1, <3>3
    <3>5. work'[k] = work[k - b]
      BY <1>6, <3>3
    <3>6. k - b > 1
      BY <1>2, <3>3, <3>4, WorkIsTyped DEF Items
    <3> QED
      BY <3>3, <3>4, <3>5, <3>6
  <2> QED
    BY <2>1, <2>2
<1>12. ASSUME NEW k \in OwnEntries
       PROVE  \E j \in OwnEntries' : work'[j].node = work[k].node
  <2>1. CASE k = 1
    <3>1. b + 1 \in OwnEntries'
      BY <1>6, <1>8
    <3> QED
      BY <1>6, <1>9, <2>1, <3>1
  <2>2. CASE k # 1
    <3>1. k \in Items /\ ~IsTemplate(ItemNode(k))
      BY <1>4, <1>8
    <3>2. PICK j \in Items' : ItemNode(j)' = ItemNode(k) /\ work'[j] = work[k]
      BY <1>6, <2>2, <3>1
    <3>3. j \in OwnEntries'
      BY <1>8, <3>1, <3>2
    <3> QED
      BY <3>2, <3>3
  <2> QED
    BY <2>1, <2>2
<1>13. \A k \in OwnEntries' : k \in Nat
  <2>1. DOMAIN work' \subseteq Nat
    <3> DEFINE S == NodeItems' \cup TemplateItems'
    <3> HIDE DEF S
    <3>1. work' \in Seq(S)
      BY <1>6 DEF S
    <3> QED
      BY <3>1
  <2> QED
    BY <1>8, <2>1
<1> QED
  BY <1>3, <1>5, <1>6, <1>11, <1>12, <1>13 DEF b

LEMMA UseStaysCustomized ==
  ASSUME ReadSoFar, CustomizedSoFar, ProcessTemplate
  PROVE  CustomizedSoFar'
<1>1. CASE Refuse
  BY <1>1, CustomizedStays DEF Refuse
<1>2. CASE ~Refuse
  <2> DEFINE b == Len(Below)
             n == Len(Started)
  <2>1. definition \in Definitions /\ WorkIsOrdered
    BY DEF ReadSoFar
  <2>2. /\ IsAt("node") /\ UsesTemplate(Node) /\ BecomesRule(Node) /\ HasParent(rules, RulePath(Node))
        /\ RulePath(Node) = Node.path /\ templatePath' = Node.path /\ definition' = definition
        /\ \E rule : IsFromTemplate(rule) /\ rules' = [Started EXCEPT ![n] = rule]
    BY <1>2, TemplateIsUsed
  <2>3. PICK rule : IsFromTemplate(rule) /\ rules' = [Started EXCEPT ![n] = rule]
    BY <2>2
  <2>4. HasKinds(rule, Kinds(Written(Template), TRUE)) /\ rule.path = RulePath(Node)
    BY <1>2, <2>3, TemplateIsMerged DEF IsFromTemplate
  <2>5. /\ \A path : path # RulePath(Node) => IsSameFor(rules, rules', path)
        /\ IsLastOf(rules', n, RulePath(Node)) /\ rules'[n] = rule
    BY <2>2, <2>3, <2>4, RuleIsAdded
  <2>6. \A i \in Users : i \notin OwnIndexes => definition[i].path # RulePath(Node)
    BY <2>1, <2>2, OtherPath
  <2>7. /\ b \in Nat /\ 1 \in OwnEntries /\ Node = ItemNode(1)
        /\ \A k \in OwnEntries' : k \in Nat
        /\ \A k \in OwnEntries' :
             \/ k = b + 1 /\ work'[k].node = work[1].node
             \/ k > b + 1 /\ k - b \in OwnEntries /\ k - b > 1 /\ work'[k].node = work[k - b].node
        /\ \A k \in OwnEntries : \E j \in OwnEntries' : work'[j].node = work[k].node
    BY <1>2, EntriesOfExpanded
  <2>8. OwnEntriesAreOrdered /\ UsersAreDone
    BY DEF CustomizedSoFar
  <2>9. Markers' = {b + 1} /\ work'[b + 1] = Finisher
    BY <1>2, WorkIsExpanded DEF IsExpanded
  <2>10. Head(work) = work[1]
    BY <2>1, <2>2, HeadIsItem, WorkIsTyped
  <2> HIDE DEF b, n
  <2>11. OwnEntriesAreOrdered'
    <3>1. ASSUME NEW k \in OwnEntries', NEW l \in OwnEntries', k < l
          PROVE  work'[k].node < work'[l].node
      <4>1. l > b + 1 /\ l - b \in OwnEntries /\ l - b > 1 /\ work'[l].node = work[l - b].node
        <5>1. k = b + 1 \/ k > b + 1
          BY <2>7
        <5>2. l # b + 1
          BY <2>7, <3>1, <5>1
        <5> QED
          BY <2>7, <5>2
      <4>2. CASE k = b + 1 /\ work'[k].node = work[1].node
        BY <2>7, <2>8, <4>1, <4>2 DEF OwnEntriesAreOrdered
      <4>3. CASE k > b + 1 /\ k - b \in OwnEntries /\ work'[k].node = work[k - b].node
        <5>1. k - b < l - b
          BY <2>7, <3>1, <4>1, <4>3
        <5> QED
          BY <2>8, <4>1, <4>3, <5>1 DEF OwnEntriesAreOrdered
      <4> QED
        BY <2>7, <4>2, <4>3
    <3> QED
      BY <3>1 DEF OwnEntriesAreOrdered
  <2>12. \A i : i \in OwnIndexes' <=> i \in OwnIndexes
    <3>1. OwnIndexes' = {work'[k].node : k \in OwnEntries'} /\ OwnIndexes = {work[k].node : k \in OwnEntries}
      BY DEF OwnIndexes
    <3> QED
      BY <2>7, <3>1
  <2>13. UsersAreDone'
    <3>1. ASSUME NEW i \in Users, i \notin OwnIndexes'
          PROVE  (\A m \in OwnIndexes' : i < m) /\ IsCustomized(rules', definition[i])
      <4>1. i \notin OwnIndexes
        BY <2>12, <3>1
      <4>2. (\A m \in OwnIndexes : i < m) /\ IsCustomized(rules, definition[i])
        BY <2>8, <4>1 DEF UsersAreDone
      <4>3. IsSameFor(rules, rules', definition[i].path)
        BY <2>5, <2>6, <4>1
      <4>4. PICK r : IsLastOf(rules, r, definition[i].path) /\ HasKinds(rules[r], Expected(definition[i]))
        BY <4>2 DEF IsCustomized
      <4>5. IsLastOf(rules', r, definition[i].path) /\ HasKinds(rules'[r], Expected(definition[i]))
        BY <4>3, <4>4, LastStays
      <4>6. IsCustomized(rules', definition[i])
        BY <4>5 DEF IsCustomized
      <4> QED
        BY <2>12, <4>2, <4>6
    <3> QED
      BY <2>2, <3>1, DoneUsers
  <2>14. ASSUME NEW m \in Markers'
         PROVE  IsMerged(m)'
    <3>1. m = b + 1 /\ work'[m].rule = n /\ work'[m].node = work[1].node
      BY <2>9, <2>10 DEF Finisher, n
    <3>2. ItemNode(m)' = Node
      BY <2>2, <2>7, <3>1 DEF ItemNode
    <3>3. UsesTemplate(ItemNode(m))' /\ TemplateOf(ItemNode(m))' = Template
      <4>1. UsesTemplate(ItemNode(m))' <=> UsesTemplate(Node)
        BY <2>2, <3>2, Zenon DEF UsesTemplate
      <4>2. TemplateOf(ItemNode(m))' = TemplateOf(Node)
        BY <2>2, <3>2, Zenon DEF TemplateOf, TemplateNodes
      <4> QED
        BY <2>2, <4>1, <4>2 DEF Template
    <3>4. Kinds(Written(TemplateOf(ItemNode(m))), TRUE)' = Kinds(Written(Template), TRUE)
      BY <3>3, Zenon
    <3> QED
      BY <2>2, <2>4, <2>5, <3>1, <3>2, <3>3, <3>4 DEF IsMerged
  <2> QED
    BY <2>11, <2>13, <2>14 DEF CustomizedSoFar
<1> QED
  BY <1>1, <1>2

-----------------------------------------------------------------------------
(* The start, and all steps.                                               *)

LEMMA StartIsCustomized ==
  ASSUME Init
  PROVE  CustomizedSoFar
<1> DEFINE OfRules == {node \in NodesOf(definition) : ~IsSkipped(node)}
           n == Len(definition)
<1>1. definition \in Definitions /\ work = Visit(definition, OfRules) /\ templatePath = <<>>
  BY DEF Init
<1>2. IsVisit(work, definition, OfRules, n) /\ DOMAIN definition = 1 .. n
  BY <1>1, DocumentIsTyped, VisitIsOrdered
<1>3. Markers = {}
  BY <1>1, StartIsRead DEF ReadSoFar, WorkIsOrdered
<1>4. OwnEntriesAreOrdered
  BY <1>2 DEF IsVisit, OwnEntriesAreOrdered, OwnEntries
<1>5. ASSUME NEW i \in Users
      PROVE  i \in OwnIndexes
  <2>1. i \in DOMAIN definition /\ ~IsSkipped(definition[i])
    BY DEF Users, UsesTemplate
  <2>2. PICK k \in DOMAIN work : work[k].node = i
    BY <1>2, <2>1 DEF IsVisit, NodesOf
  <2>3. ~IsTemplate(ItemNode(k))
    BY <2>1, <2>2 DEF ItemNode, IsSkipped
  <2> QED
    BY <2>2, <2>3 DEF OwnEntries, OwnIndexes
<1> QED
  BY <1>3, <1>4, <1>5 DEF CustomizedSoFar, UsersAreDone

LEMMA StepIsCustomized ==
  ASSUME ReadSoFar, CustomizedSoFar, Next
  PROVE  CustomizedSoFar'
<1>0. CASE Refuse
  BY <1>0, CustomizedStays DEF Refuse
<1>1. CASE RefuseNode
  BY <1>0, <1>1 DEF RefuseNode
<1>2. CASE ProcessOrphan
  BY <1>0, <1>2 DEF ProcessOrphan
<1>3. CASE ProcessStructure
  BY <1>3, StructureIsFinished, NodeStaysCustomized
<1>4. CASE ProcessTypedNode
  BY <1>0, <1>4, TypedNodeIsFinished, NodeStaysCustomized
<1>5. CASE ProcessTemplate
  BY <1>5, UseStaysCustomized
<1>6. CASE FinishTemplate
  BY <1>6, LeavingStaysCustomized
<1>7. CASE ProcessNameNode
  BY <1>0, <1>7, NameNodeIsFinished, NodeStaysCustomized
<1>8. CASE ProcessKey
  BY <1>8, EntriesStayCustomized DEF ProcessKey, IsNode
<1>9. CASE ProcessDependencies
  BY <1>9, EntriesStayCustomized DEF ProcessDependencies, IsNode
<1>10. CASE Finish
  BY <1>10, CustomizedStays DEF Finish
<1> QED
  BY <1>1, <1>2, <1>3, <1>4, <1>5, <1>6, <1>7, <1>8, <1>9, <1>10 DEF Next

\* A node that uses a template has a rule with the constraints that are written in the
\* node, and those of the template that it does not override; it is the last of its path,
\* which lookups lead to.  (handleConstraintAndAttributes; RuleMap::addRule)
THEOREM CustomizationIsKept == SpecBuilder => []CustomizationsWin
<1>1. InitBuilder => CustomizedSoFar
  BY StartIsCustomized DEF InitBuilder
<1>2. Inv /\ CustomizedSoFar /\ [NextBuilder]_builderVars => CustomizedSoFar'
  <2> SUFFICES ASSUME Inv, CustomizedSoFar, [NextBuilder]_builderVars
               PROVE  CustomizedSoFar'
    OBVIOUS
  <2>1. CASE Read
    BY <2>1, StepIsCustomized DEF Inv, Read
  <2>2. CASE UNCHANGED <<definition, rules, work, templatePath>>
    BY <2>2, CustomizedStays
  <2> QED
    BY <2>1, <2>2 DEF NextBuilder, ValidateRule, StopAtKeyTypes, Accept, builderVars
<1>3. Inv /\ CustomizedSoFar => CustomizationsWin
  <2> DEFINE Wins(node) ==
               LET rule == rules[Max({r \in DOMAIN rules : rules[r].path = node.path})]
               IN  KindsOf(rule) = Expected(node)
  <2>0. \A node : Expected(node) =
          {<<v.base, v.negated, FALSE>> : v \in Written(node)} \cup
          {<<v.base, v.negated, TRUE>> :
             v \in {w \in Written(TemplateOf(node)) : w.base \notin {v.base : v \in Written(node)}}}
    <3> TAKE node
    <3> DEFINE W == Written(node)
               T == Written(TemplateOf(node))
    <3> HIDE DEF W, T
    <3>1. {k \in {<<v.base, v.negated, TRUE>> : v \in T} : k[1] \notin {v.base : v \in W}}
            = {<<v.base, v.negated, TRUE>> : v \in {w \in T : w.base \notin {v.base : v \in W}}}
      <4> DEFINE Kind(v) == <<v.base, v.negated, TRUE>>
                 bases == {v.base : v \in W}
      <4>1. \A v : Kind(v)[1] = v.base
        OBVIOUS
      <4> HIDE DEF Kind, bases
      <4>2. {k \in {Kind(v) : v \in T} : k[1] \notin bases} = {Kind(v) : v \in {w \in T : w.base \notin bases}}
        BY <4>1
      <4> QED
        BY <4>2 DEF Kind, bases
    <3> QED
      BY <3>1 DEF Expected, Merged, NotOverridden, Kinds, W, T
  <2>7. (status \in {"read", "accepted"} => \A node \in {n \in NodesOf(definition) : UsesTemplate(n)} : Wins(node))
          => CustomizationsWin
    BY <2>0, Zenon DEF CustomizationsWin, KindsOf, Written
  <2> SUFFICES ASSUME Inv, CustomizedSoFar, status \in {"read", "accepted"},
                      NEW node \in NodesOf(definition), UsesTemplate(node)
               PROVE  Wins(node)
    BY <2>7
  <2>1. work = <<>> /\ IsRuleTree(rules) /\ UsersAreDone
    BY DEF Inv, ReadSoFar, CustomizedSoFar
  <2>2. OwnIndexes = {}
    <3>1. DOMAIN work = {}
      BY <2>1
    <3> QED
      BY <3>1 DEF OwnEntries, OwnIndexes
  <2>3. IsCustomized(rules, node)
    BY <2>1, <2>2 DEF UsersAreDone, Users, NodesOf
  <2>4. PICK r : IsLastOf(rules, r, node.path) /\ HasKinds(rules[r], Expected(node))
    BY <2>3 DEF IsCustomized
  <2> DEFINE S == {q \in DOMAIN rules : rules[q].path = node.path}
  <2>5. r \in S /\ \A q \in S : q \in Nat /\ r >= q
    BY <2>1, <2>4, RulesAreTyped DEF IsLastOf
  <2> HIDE DEF S
  <2>6. Max(S) = r
    BY <2>5 DEF Max
  <2> QED
    BY <2>4, <2>6 DEF HasKinds, S
<1> QED
  BY <1>1, <1>2, <1>3, RulesAreReadInOrder, PTL DEF SpecBuilder

-----------------------------------------------------------------------------
(* All rules that are read are sound.                                      *)

RulesAreSound == \A r \in DOMAIN rules : IsSound(rules[r])

LEMMA AddedIsSound ==
  ASSUME ReadSoFar, RulesAreSound, IsAt("node"), BecomesRule(Node), HasParent(rules, RulePath(Node)),
         NEW rule, IsSound(rule), rules' = [Started EXCEPT ![Len(Started)] = rule]
  PROVE  RulesAreSound'
<1> DEFINE n == Len(Started)
<1>1. /\ n = Len(rules) + 1 /\ DOMAIN Started = 1 .. Len(rules) + 1
      /\ Started \in Seq(ToSet(Started))
      /\ \A r \in DOMAIN rules : Started[r] = rules[r]
      /\ DOMAIN rules = 1 .. Len(rules) /\ Len(rules) \in Nat
  BY RuleIsStarted
<1>2. n \in DOMAIN Started
  BY <1>1
<1>3. DOMAIN rules' = DOMAIN Started /\ (\A i \in DOMAIN Started : i # n => rules'[i] = Started[i]) /\ rules'[n] = rule
  BY <1>1, <1>2, ChangedSequence
<1> HIDE DEF n
<1>4. \A i \in DOMAIN rules' : i = n \/ (i # n /\ i \in DOMAIN rules)
  BY <1>1, <1>3
<1> QED
  BY <1>1, <1>3, <1>4 DEF RulesAreSound

LEMMA ChangedIsSound ==
  ASSUME ReadSoFar, RulesAreSound, NEW r \in DOMAIN rules, NEW rule, IsSound(rule),
         rules' = [rules EXCEPT ![r] = rule]
  PROVE  RulesAreSound'
<1>1. rules \in Seq(ToSet(rules))
  BY DEF ReadSoFar, IsRuleTree
<1>2. DOMAIN rules' = DOMAIN rules /\ (\A i \in DOMAIN rules : i # r => rules'[i] = rules[i]) /\ rules'[r] = rule
  BY <1>1, ChangedSequence
<1> QED
  BY <1>2 DEF RulesAreSound

LEMMA NodeStaysSound ==
  ASSUME ReadSoFar, RulesAreSound, NEW rule, BecomesThis(rule)
  PROVE  RulesAreSound'
<1>1. CASE Refuse
  BY <1>1 DEF Refuse, RulesAreSound
<1>2. CASE ~Refuse
  <2>1. rules' = [Started EXCEPT ![Len(Started)] = rule] /\ IsSound(rule)
    BY <1>2, RuleIsFinished
  <2>2. IsAt("node") /\ BecomesRule(Node) /\ HasParent(rules, RulePath(Node))
    BY DEF BecomesThis
  <2> QED
    BY <2>1, <2>2, AddedIsSound
<1> QED
  BY <1>1, <1>2

LEMMA UseStaysSound ==
  ASSUME ReadSoFar, RulesAreSound, ProcessTemplate
  PROVE  RulesAreSound'
<1>1. CASE Refuse
  BY <1>1 DEF Refuse, RulesAreSound
<1>2. CASE ~Refuse
  <2>1. IsAt("node") /\ BecomesRule(Node) /\ HasParent(rules, RulePath(Node))
    BY <1>2, TemplateIsUsed
  <2>2. PICK rule : IsFromTemplate(rule) /\ rules' = [Started EXCEPT ![Len(Started)] = rule]
    BY <1>2, TemplateIsUsed
  <2>3. IsSound(rule)
    BY <2>2 DEF IsFromTemplate
  <2> QED
    BY <2>1, <2>2, <2>3, AddedIsSound
<1> QED
  BY <1>1, <1>2

LEMMA LeavingStaysSound ==
  ASSUME ReadSoFar, RulesAreSound, FinishTemplate
  PROVE  RulesAreSound'
<1>1. CASE Refuse
  BY <1>1 DEF Refuse, RulesAreSound
<1>2. CASE ~Refuse
  <2> DEFINE r == Head(work).rule
             customized == WithOwnValues(definition, Node, rules[r])
  <2>1. /\ r \in DOMAIN rules /\ Node.values \in Seq(ToSet(Node.values))
        /\ rules' = rules \/ (~IsFailure(customized) /\ rules' = [rules EXCEPT ![r] = customized])
    BY <1>2, TemplateIsFinished
  <2>2. IsRule(rules[r]) /\ IsSound(rules[r])
    BY <2>1 DEF RulesAreSound, ReadSoFar, IsRuleTree
  <2> HIDE DEF r
  <2>3. IsSoundResult(customized)
    BY <2>1, <2>2, SoundByNode
  <2> HIDE DEF customized
  <2>4. CASE rules' = rules
    BY <2>4 DEF RulesAreSound
  <2>5. CASE ~IsFailure(customized) /\ rules' = [rules EXCEPT ![r] = customized]
    <3>1. IsSound(customized)
      BY <2>3, <2>5 DEF IsSoundResult
    <3> QED
      BY <2>1, <2>5, <3>1, ChangedIsSound
  <2> QED
    BY <2>1, <2>4, <2>5
<1> QED
  BY <1>1, <1>2

\* The paths of an entry that is not refused are paths.
LEMMA EntryHasPaths ==
  ASSUME definition \in Definitions, NEW entry \in NodesOf(definition), ~KeyRefusal(entry)
  PROVE  \A n \in DOMAIN KeyDefinition(entry).keys : KeyDefinition(entry).keys[n] \in Seq(STRING)
<1> DEFINE value == ValueOf(definition, entry, "key")
           named == {i \in DOMAIN entry.values :
                       entry.values[i].base = "key" /\ ~entry.values[i].negated /\ ~entry.values[i].error}
           sections == {i \in DOMAIN definition :
                          IsChild(definition[i], entry.path) /\ Last(definition[i].path) = "key"}
<1>1. PICK j \in DOMAIN definition : entry = definition[j]
  BY DEF NodesOf
<1>2. IsDocument(definition) /\ DOMAIN definition \subseteq Nat
  BY DocumentIsTyped
<1>3. /\ entry.values \in Seq(ToSet(entry.values))
      /\ \A v \in ToSet(entry.values) :
           v.base = "key" => \A path \in ToSet(ListOf(v, "Text")) : path \in Seq(STRING)
      /\ \A i \in DOMAIN definition : definition[i].type \in StructuralTypes
  BY <1>1, <1>2 DEF IsDocument
<1>4. value = IF named # {} THEN entry.values[Min(named)]
              ELSE IF sections # {} THEN definition[Min(sections)] ELSE Missing
  BY DEF ValueOf
<1>5. value.type \in {"Text", "ValueList"}
  BY DEF KeyRefusal
<1>6. named # {}
  <2>1. {"Text", "ValueList"} \cap (StructuralTypes \cup {Undefined}) = {}
    BY DEF StructuralTypes, MapTypes, Undefined
  <2>2. CASE named = {} /\ sections # {}
    <3>1. Min(sections) \in sections
      <4>1. sections \in SUBSET Nat
        BY <1>2
      <4> HIDE DEF sections
      <4> QED
        BY <2>2, <4>1, LeastExists
    <3>2. value = definition[Min(sections)] /\ Min(sections) \in DOMAIN definition
      BY <1>4, <2>2, <3>1
    <3>3. value.type \in StructuralTypes
      BY <1>3, <3>2
    <3> QED
      BY <1>5, <2>1, <3>3
  <2>3. CASE named = {} /\ sections = {}
    <3>1. value.type = Undefined
      BY <1>4, <2>3 DEF Missing
    <3> QED
      BY <1>5, <2>1, <3>1
  <2> QED
    BY <2>2, <2>3
<1>7. Min(named) \in named
  <2>1. named \in SUBSET Nat
    BY <1>3
  <2> HIDE DEF named
  <2> QED
    BY <1>6, <2>1, LeastExists
<1>8. value = entry.values[Min(named)] /\ Min(named) \in DOMAIN entry.values /\ entry.values[Min(named)].base = "key"
  BY <1>4, <1>6, <1>7
<1>9. value \in ToSet(entry.values) /\ value.base = "key"
  <2> HIDE DEF value, named
  <2> QED
    BY <1>8 DEF ToSet
<1> HIDE DEF value
<1>10. \A path \in ToSet(ListOf(value, "Text")) : path \in Seq(STRING)
  BY <1>3, <1>9
<1>11. KeyDefinition(entry).keys = PathsOf(value)
  BY DEF KeyDefinition, value
<1>12. PathsOf(value) = <<>> \/ PathsOf(value) = ListOf(value, "Text")
  BY Zenon DEF PathsOf
<1>13. CASE PathsOf(value) = <<>>
  <2>1. DOMAIN <<>> = {}
    OBVIOUS
  <2> QED
    BY <1>11, <1>13, <2>1
<1>14. CASE PathsOf(value) = ListOf(value, "Text")
  BY <1>10, <1>11, <1>14 DEF ToSet
<1> QED
  BY <1>12, <1>13, <1>14

\* The entries of a list are its nodes in the document.
LEMMA EntriesAreNodes ==
  ASSUME definition \in Definitions
  PROVE  \E n \in Nat : DOMAIN Entries = 1 .. n /\ \A i \in 1 .. n : Entries[i] \in NodesOf(definition)
<1> DEFINE children == {n \in NodesOf(definition) : IsChild(n, Node.path)}
           items == Visit(definition, children)
<1>1. definition \in Seq(NodesOf(definition)) /\ DOMAIN definition = 1 .. Len(definition)
  BY DocumentIsTyped
<1>2. IsVisit(items, definition, children, Len(definition))
  <2> HIDE DEF children
  <2> QED
    BY <1>1, VisitIsOrdered
<1>3. Entries = [k \in DOMAIN items |-> definition[items[k].node]]
  BY Zenon DEF Entries, ChildNodes
<1> HIDE DEF items, children
<1>4. items \in Seq([kind : {"node"}, node : 1 .. Len(definition)])
  BY <1>2 DEF IsVisit
<1>5. Len(items) \in Nat /\ DOMAIN items = 1 .. Len(items)
  BY <1>4
<1>6. \A k \in DOMAIN items : items[k].node \in DOMAIN definition
  <2> DEFINE S == [kind : {"node"}, node : 1 .. Len(definition)]
  <2>1. \A x \in S : x.node \in DOMAIN definition
    BY <1>1
  <2>2. items \in Seq(S)
    BY <1>4
  <2> HIDE DEF S
  <2>3. \A k \in DOMAIN items : items[k] \in S
    BY <2>2
  <2> QED
    BY <2>1, <2>3
<1>7. DOMAIN Entries = 1 .. Len(items) /\ \A i \in 1 .. Len(items) : Entries[i] \in NodesOf(definition)
  BY <1>3, <1>5, <1>6 DEF NodesOf
<1> QED
  BY <1>5, <1>7

LEMMA KeysAreAdded ==
  ASSUME NEW old, KeysArePaths(old), NEW new, KeysArePaths(new)
  PROVE  KeysArePaths(old \o new)
<1> DEFINE S == ToSet(old) \cup ToSet(new)
           all == old \o new
           Fits(key) == \A n \in DOMAIN key.keys : key.keys[n] \in Seq(STRING)
<1>1. old \in Seq(ToSet(old)) /\ new \in Seq(ToSet(new))
  BY DEF KeysArePaths
<1>2. \A key \in S : Fits(key)
  BY DEF KeysArePaths, ToSet
<1>3. old \in Seq(S) /\ new \in Seq(S)
  BY <1>1
<1> HIDE DEF S, Fits
<1>4. all \in Seq(S)
  BY <1>3
<1>5. all \in Seq(ToSet(all))
  <2> HIDE DEF all
  <2> QED
    BY <1>4, IsOfItsElements
<1> HIDE DEF all
<1>6. \A i \in DOMAIN all : all[i] \in S
  BY <1>4
<1>7. \A i \in DOMAIN all : Fits(all[i])
  BY <1>2, <1>6
<1> QED
  BY <1>5, <1>7 DEF KeysArePaths, Fits, all

LEMMA EntriesStaySound ==
  ASSUME ReadSoFar, RulesAreSound, IsAt("node"), NEW refusal,
         AddEntries(ParentForPath(rules, RulePath(Node)), refusal),
         IsNode({"vr_key"}) /\ ~refusal => \A i \in DOMAIN Entries : ~KeyRefusal(Entries[i])
  PROVE  RulesAreSound'
<1> DEFINE r == ParentForPath(rules, RulePath(Node))
           keys == [i \in DOMAIN Entries |-> KeyDefinition(Entries[i])]
           dependencies == [i \in DOMAIN Entries |-> DependencyDefinition(Entries[i])]
<1>1. CASE Refuse
  BY <1>1 DEF Refuse, RulesAreSound
<1>2. CASE ~Refuse
  <2>1. IsRuleTree(rules) /\ WorkIsOrdered /\ definition \in Definitions
    BY DEF ReadSoFar
  <2>2. RulePath(Node) \in Seq(STRING) /\ RulePath(Node) # <<>>
    BY <2>1, HeadIsItem, ItemsAreTyped
  <2>3. /\ r # NoRule /\ ~refusal
        /\ rules' = IF IsNode({"vr_key"}) THEN [rules EXCEPT ![r].keys = @ \o keys]
                    ELSE [rules EXCEPT ![r].dependencies = @ \o dependencies]
    BY <1>2 DEF AddEntries, Continue
  <2>4. r \in DOMAIN rules
    <3>1. Front(RulePath(Node)) \in Seq(STRING)
      BY <2>2, PathParts, Zenon
    <3>2. r = Descendant(rules, Root, Front(RulePath(Node)))
      BY <2>2, ParentIsOnTheWay
    <3> HIDE DEF r
    <3> QED
      BY <2>1, <2>3, <3>1, <3>2, WayIsPath
  <2>5. IsNode({"vr_key"}) => KeysArePaths(keys)
    <3> SUFFICES ASSUME IsNode({"vr_key"})
                 PROVE  KeysArePaths(keys)
      OBVIOUS
    <3>1. PICK n \in Nat : DOMAIN Entries = 1 .. n /\ \A i \in 1 .. n : Entries[i] \in NodesOf(definition)
      BY <2>1, EntriesAreNodes
    <3>2. keys \in Seq(ToSet(keys))
      <4>1. DOMAIN keys = 1 .. n
        BY <3>1
      <4>2. keys = [i \in 1 .. n |-> keys[i]]
        BY <3>1
      <4> HIDE DEF keys
      <4> QED
        BY <4>1, <4>2 DEF ToSet
    <3>3. \A i \in DOMAIN keys : \A m \in DOMAIN keys[i].keys : keys[i].keys[m] \in Seq(STRING)
      <4> TAKE i \in DOMAIN keys
      <4>1. Entries[i] \in NodesOf(definition) /\ ~KeyRefusal(Entries[i]) /\ keys[i] = KeyDefinition(Entries[i])
        BY <2>3, <3>1
      <4> HIDE DEF keys
      <4> QED
        BY <2>1, <4>1, EntryHasPaths
    <3> QED
      BY <3>2, <3>3 DEF KeysArePaths
  <2> HIDE DEF r, keys, dependencies
  <2>6. IsRule(rules[r]) /\ IsSound(rules[r])
    BY <2>1, <2>4 DEF IsRuleTree, RulesAreSound
  <2> DEFINE old == rules[r].keys
             a == [rules[r] EXCEPT !.keys = old \o keys]
             b == [rules[r] EXCEPT !.dependencies = @ \o dependencies]
  <2>7. CASE IsNode({"vr_key"})
    <3>1. rules' = [rules EXCEPT ![r] = a]
      BY <2>3, <2>7
    <3>2. KeysArePaths(old) /\ KeysArePaths(keys)
      BY <2>5, <2>6, <2>7 DEF IsSound
    <3>3. KeysArePaths(old \o keys)
      BY <3>2, KeysAreAdded
    <3>4. a.type = rules[r].type /\ a.constraints = rules[r].constraints /\ a.keys = old \o keys
      <4> HIDE DEF old
      <4> QED
        BY <2>6 DEF IsRule
    <3> HIDE DEF a
    <3>5. IsSound(a)
      BY <2>6, <3>3, <3>4 DEF IsSound, LimitsFit
    <3> QED
      BY <2>4, <3>1, <3>5, ChangedIsSound
  <2>8. CASE ~IsNode({"vr_key"})
    <3>1. rules' = [rules EXCEPT ![r] = b]
      BY <2>3, <2>8
    <3>2. b.type = rules[r].type /\ b.constraints = rules[r].constraints /\ b.keys = rules[r].keys
      BY <2>6 DEF IsRule
    <3> HIDE DEF b
    <3>3. IsSound(b)
      BY <2>6, <3>2 DEF IsSound, LimitsFit
    <3> QED
      BY <2>4, <3>1, <3>3, ChangedIsSound
  <2> QED
    BY <2>7, <2>8
<1> QED
  BY <1>1, <1>2

LEMMA StartIsSound ==
  ASSUME Init
  PROVE  RulesAreSound
<1> DEFINE root == NewRule(<<>>, <<>>, "Section")
<1>1. rules = <<root>>
  BY DEF Init, InitialRules
<1>2. root.type = "Section" /\ root.constraints = <<>> /\ root.keys = <<>>
  BY DEF NewRule
<1> HIDE DEF root
<1>3. <<>> \in Seq(ToSet(<<>>)) /\ ToSet(<<>>) = {} /\ DOMAIN <<>> = {} /\ "Section" # Undefined
  BY DEF ToSet, Undefined
<1>4. IsSound(root)
  BY <1>2, <1>3 DEF IsSound, LimitsFit, KeysArePaths
<1> QED
  BY <1>1, <1>4 DEF RulesAreSound

LEMMA StepIsSound ==
  ASSUME ReadSoFar, RulesAreSound, Next
  PROVE  RulesAreSound'
<1>0. CASE Refuse
  BY <1>0 DEF Refuse, RulesAreSound
<1>1. CASE RefuseNode
  BY <1>0, <1>1 DEF RefuseNode
<1>2. CASE ProcessOrphan
  BY <1>0, <1>2 DEF ProcessOrphan
<1>3. CASE ProcessStructure
  BY <1>3, StructureIsFinished, NodeStaysSound
<1>4. CASE ProcessTypedNode
  BY <1>0, <1>4, TypedNodeIsFinished, NodeStaysSound
<1>5. CASE ProcessTemplate
  BY <1>5, UseStaysSound
<1>6. CASE FinishTemplate
  BY <1>6, LeavingStaysSound
<1>7. CASE ProcessNameNode
  BY <1>0, <1>7, NameNodeIsFinished, NodeStaysSound
<1>8. CASE ProcessKey
  <2> DEFINE refusal == \E i \in DOMAIN Entries : KeyRefusal(Entries[i])
  <2>1. IsAt("node") /\ AddEntries(ParentForPath(rules, RulePath(Node)), refusal)
    BY <1>8 DEF ProcessKey, IsNode
  <2>2. ~refusal => \A i \in DOMAIN Entries : ~KeyRefusal(Entries[i])
    OBVIOUS
  <2> HIDE DEF refusal
  <2> QED
    BY <2>1, <2>2, EntriesStaySound
<1>9. CASE ProcessDependencies
  <2>1. IsAt("node") /\ ~IsNode({"vr_key"})
    BY <1>9 DEF ProcessDependencies, IsNode
  <2> QED
    BY <1>9, <2>1, EntriesStaySound DEF ProcessDependencies
<1>10. CASE Finish
  BY <1>10 DEF Finish, RulesAreSound
<1> QED
  BY <1>1, <1>2, <1>3, <1>4, <1>5, <1>6, <1>7, <1>8, <1>9, <1>10 DEF Next

-----------------------------------------------------------------------------
(* No assertion fails: what the tests of the rules above a rule have shown *)
(* is what the test of the rule relies on.                                 *)

LEMMA ChildrenAreBelow ==
  ASSUME NEW t, IsRuleTree(t), NEW r
  PROVE  Children(t, r) \in Seq({i \in DOMAIN t : t[i].parent = r})
<1> DEFINE of == [rules |-> t, parent |-> r]
           S == {i \in DOMAIN t : t[i].parent = r}
           seq == [i \in DOMAIN t |-> i]
           n == Len(t)
<1>1. of.rules = t /\ of.parent = r
  OBVIOUS
<1>2. n \in Nat /\ DOMAIN t = 1 .. n
  BY RulesAreTyped
<1>3. DOMAIN seq = 1 .. n /\ \A i \in 1 .. n : seq[i] = i
  BY <1>2
<1> HIDE DEF of, n
<1>4. Children(of.rules, of.parent) = Fold(<<>>, [i \in DOMAIN of.rules |-> i], "children", of)
  BY DEF Children, Fold
<1>5. Children(t, r) = Fold(<<>>, seq, "children", of)
  BY <1>1, <1>4
<1> HIDE DEF seq
<1>6. \A i \in 1 .. n : t[i].parent = r => i \in S
  BY <1>2
<1>7. ASSUME NEW v \in Seq(S), NEW i \in 1 .. n
      PROVE  Step(v, seq[i], "children", of) \in Seq(S)
  <2>1. Step(v, seq[i], "children", of) = IF t[i].parent = r THEN Append(v, i) ELSE v
    BY <1>1, <1>3 DEF Step
  <2> HIDE DEF S
  <2>2. CASE t[i].parent = r
    <3>1. i \in S
      BY <1>6, <2>2
    <3>2. Append(v, i) \in Seq(S)
      BY <1>7, <3>1
    <3> QED
      BY <2>1, <2>2, <3>2
  <2>3. CASE t[i].parent # r
    BY <1>7, <2>1, <2>3
  <2> QED
    BY <2>2, <2>3
<1>8. <<>> \in Seq(S) /\ "children" \in FoldKinds
  BY DEF FoldKinds
<1> HIDE DEF S
<1>9. Fold(<<>>, seq, "children", of) \in Seq(S)
  <2> DEFINE Lists == Seq(S)
  <2>1. <<>> \in Lists /\ \A v \in Lists : \A i \in 1 .. n : Step(v, seq[i], "children", of) \in Lists
    BY <1>7, <1>8
  <2> HIDE DEF Lists
  <2>2. Fold(<<>>, seq, "children", of) \in Lists
    BY <1>2, <1>3, <1>8, <2>1, FoldKeeps
  <2> QED
    BY <2>2 DEF Lists
<1> QED
  BY <1>5, <1>9 DEF S

\* The way from a rule through the entry of a list, name by name.
LEMMA WayThroughEntry ==
  ASSUME NEW t, NEW r, NEW key \in Seq(STRING), NEW e \in 1 .. Len(key)
  PROVE  Descendant(t, r, key) =
           Descendant(t, Child(t, Descendant(t, r, SubSeq(key, 1, e - 1)), key[e]),
                      SubSeq(key, e + 1, Len(key)))
<1> DEFINE n == Len(key)
           head == SubSeq(key, 1, e - 1)
           tail == SubSeq(key, e + 1, n)
           list == Fold(r, head, "way", t)
           entry == Child(t, list, key[e])
<1>1. n \in Nat /\ e \in 1 .. n /\ e \in Nat /\ e - 1 \in Nat /\ e <= n /\ n - e \in Nat /\ DOMAIN key = 1 .. n
  OBVIOUS
<1>2. /\ head \in Seq(STRING) /\ DOMAIN head = 1 .. e - 1
      /\ \A i \in 1 .. e - 1 : head[i] = key[i]
  BY <1>1
<1>3. /\ tail \in Seq(STRING) /\ DOMAIN tail = 1 .. n - e
      /\ \A i \in 1 .. n - e : tail[i] = key[e + i]
  BY <1>1
<1> HIDE DEF n, head, tail, list
<1>4. "way" \in FoldKinds /\ \A v, x : Step(v, x, "way", t) = Child(t, v, x)
  BY DEF FoldKinds, Step
<1>5. PICK f : IsFold(f, r, key, n, "way", t) /\ Fold(r, key, "way", t) = f[1 .. n]
  BY <1>1, <1>4, FoldIsLast
<1>6. PICK g : IsFold(g, r, head, e - 1, "way", t) /\ Fold(r, head, "way", t) = g[1 .. e - 1]
  BY <1>1, <1>2, <1>4, FoldIsLast
<1>7. PICK h : IsFold(h, entry, tail, n - e, "way", t) /\ Fold(entry, tail, "way", t) = h[1 .. n - e]
  BY <1>1, <1>3, <1>4, FoldIsLast
<1> HIDE DEF entry
<1>8. f[{}] = r /\ \A i \in 1 .. n : f[1 .. i] = Child(t, f[1 .. i - 1], key[i])
  <2>1. f[{}] = r /\ \A i \in 1 .. n : f[1 .. i] = Step(f[1 .. i - 1], key[i], "way", t)
    BY <1>1, <1>5, FoldOnTheWay
  <2> QED
    BY <1>4, <2>1
<1>9. g[{}] = r /\ \A i \in 1 .. e - 1 : g[1 .. i] = Child(t, g[1 .. i - 1], head[i])
  <2>1. g[{}] = r /\ \A i \in 1 .. e - 1 : g[1 .. i] = Step(g[1 .. i - 1], head[i], "way", t)
    BY <1>1, <1>6, FoldOnTheWay
  <2> QED
    BY <1>4, <2>1
<1>10. h[{}] = entry /\ \A i \in 1 .. n - e : h[1 .. i] = Child(t, h[1 .. i - 1], tail[i])
  <2>1. h[{}] = entry /\ \A i \in 1 .. n - e : h[1 .. i] = Step(h[1 .. i - 1], tail[i], "way", t)
    BY <1>1, <1>7, FoldOnTheWay
  <2> QED
    BY <1>4, <2>1
<1>11. f[1 .. e - 1] = list
  <2> DEFINE T == {i \in 0 .. e - 1 : f[1 .. i] = g[1 .. i]}
  <2>1. 0 \in T
    <3>1. 1 .. 0 = {} /\ 0 \in 0 .. e - 1
      BY <1>1
    <3> QED
      BY <1>8, <1>9, <3>1
  <2>2. ASSUME NEW i \in 0 .. (e - 1) - 1, i \in T
        PROVE  i + 1 \in T
    <3>1. i + 1 \in 1 .. e - 1 /\ i + 1 \in 1 .. n /\ i + 1 \in 0 .. e - 1 /\ (i + 1) - 1 = i
      BY <1>1
    <3> QED
      BY <1>2, <1>8, <1>9, <2>2, <3>1
  <2> HIDE DEF T
  <2>3. \A i \in 0 .. e - 1 : i \in T
    BY <1>1, <2>1, <2>2, RangeInduction
  <2>4. e - 1 \in T
    BY <1>1, <2>3
  <2> QED
    BY <1>6, <2>4 DEF T, list
<1>12. f[1 .. e] = entry
  BY <1>1, <1>8, <1>11 DEF entry
<1>13. f[1 .. n] = h[1 .. n - e]
  <2> DEFINE T == {i \in 0 .. n - e : f[1 .. e + i] = h[1 .. i]}
  <2>1. 0 \in T
    <3>1. 1 .. 0 = {} /\ 0 \in 0 .. n - e /\ e + 0 = e
      BY <1>1
    <3> QED
      BY <1>10, <1>12, <3>1
  <2>2. ASSUME NEW i \in 0 .. (n - e) - 1, i \in T
        PROVE  i + 1 \in T
    <3>1. /\ i + 1 \in 1 .. n - e /\ i + 1 \in 0 .. n - e /\ (i + 1) - 1 = i
          /\ e + (i + 1) \in 1 .. n /\ (e + (i + 1)) - 1 = e + i
      BY <1>1
    <3>2. f[1 .. e + (i + 1)] = Child(t, f[1 .. e + i], key[e + (i + 1)])
      BY <1>8, <3>1
    <3>3. h[1 .. i + 1] = Child(t, h[1 .. i], tail[i + 1]) /\ tail[i + 1] = key[e + (i + 1)]
      BY <1>3, <1>10, <3>1
    <3> QED
      BY <2>2, <3>1, <3>2, <3>3
  <2> HIDE DEF T
  <2>3. \A i \in 0 .. n - e : i \in T
    BY <1>1, <2>1, <2>2, RangeInduction
  <2>4. n - e \in T /\ e + (n - e) = n
    BY <1>1, <2>3
  <2> QED
    BY <2>4 DEF T
<1>14. \A start, p : Descendant(t, start, p) = Fold(start, p, "way", t)
  BY DEF Descendant, Fold
<1>15. Descendant(t, r, key) = Descendant(t, entry, tail)
  BY <1>5, <1>7, <1>13, <1>14
<1>16. entry = Child(t, Descendant(t, r, head), key[e])
  BY <1>14 DEF entry, list
<1> QED
  BY <1>15, <1>16 DEF head, tail, n

\* A key that passed the test leads to a rule, of the right types.
LEMMA KeyHasTarget ==
  ASSUME NEW t, NEW r, NEW key \in Seq(STRING), KeyIsAccepted(t, r, key)
  PROVE  LET target == Descendant(t, r, key)
         IN  /\ target # NoRule
             /\ KeyTargetTypes(t, target) # {} /\ KeyTargetTypes(t, target) \subseteq KeyTypes
<1> DEFINE e == EntryIndex(key)
           I == {i \in 1 .. Len(key) : key[i] = "vr_entry"}
           value == Descendant(t, Child(t, Descendant(t, r, ListPath(key)), "vr_entry"), ValuePath(key))
           types == IF t[value].type = "Alternatives"
                    THEN {child.type : child \in ChildRules(t, value)} ELSE {t[value].type}
<1>1. e > 1 /\ value # NoRule /\ types \cap KeyTypes # {}
  BY Zenon DEF KeyIsAccepted
<1>2. e = IF I # {} THEN Min(I) ELSE 0
  BY DEF EntryIndex, SelectInSeq
<1>3. e \in 1 .. Len(key) /\ key[e] = "vr_entry"
  <2>1. I # {} /\ e = Min(I)
    BY <1>1, <1>2
  <2>2. I \in SUBSET Nat
    OBVIOUS
  <2>3. Min(I) \in I
    <3> HIDE DEF I
    <3> QED
      BY <2>1, <2>2, LeastExists
  <2> QED
    BY <2>1, <2>3
<1>4. ListPath(key) = SubSeq(key, 1, e - 1) /\ ValuePath(key) = SubSeq(key, e + 1, Len(key))
  BY Zenon DEF ListPath, ValuePath
<1> HIDE DEF e
<1>5. Descendant(t, r, key) = value
  BY <1>3, <1>4, WayThroughEntry
<1> HIDE DEF value
<1>6. KeyTargetTypes(t, value) # {} /\ KeyTargetTypes(t, value) \subseteq KeyTypes
  <2>1. CASE t[value].type = "Alternatives"
    <3>1. KeyTargetTypes(t, value) = {child.type : child \in ChildRules(t, value)} \cap KeyTypes
      BY <2>1, Zenon DEF KeyTargetTypes
    <3>2. types = {child.type : child \in ChildRules(t, value)}
      BY <2>1
    <3> QED
      BY <1>1, <3>1, <3>2
  <2>2. CASE t[value].type # "Alternatives"
    BY <1>1, <2>2 DEF KeyTargetTypes
  <2> QED
    BY <2>1, <2>2
<1> QED
  BY <1>1, <1>5, <1>6

\* If the parents of tested rules were tested before, the section with a key has been
\* tested before the rule that refers to it.
LEMMA SectionIsTested ==
  ASSUME NEW t, IsRuleTree(t), NEW Passed, Passed \subseteq DOMAIN t,
         \A s \in Passed : t[s].parent \in Passed \cup {NoRule},
         NEW r \in DOMAIN t, t[r].parent \in Passed \cup {NoRule},
         NEW name, SectionWithKey(t, r, name) # NoRule
  PROVE  LET section == SectionWithKey(t, r, name)
         IN  /\ section \in Passed
             /\ \E i \in DOMAIN t[section].keys : t[section].keys[i].name = name
<1> DEFINE D == DOMAIN t
           IsChain(c) == /\ c # <<>>
                         /\ \A i \in 2 .. Len(c) : c[i] \in Passed
                         /\ t[Last(c)].parent \in Passed \cup {NoRule}
           Chains == {c \in Seq(D) : IsChain(c)}
           n == Len(t)
           chain == Ancestors(t, r)
           DefinesKey(s) == \E i \in DOMAIN t[s].keys : t[s].keys[i].name = name
           above == {i \in 2 .. Len(chain) : DefinesKey(chain[i])}
<1>1. n \in Nat /\ DOMAIN t = 1 .. n
  BY RulesAreTyped
<1>2. <<r>> \in Chains
  <2>1. <<r>> \in Seq(D) /\ <<r>> # <<>> /\ Len(<<r>>) = 1 /\ Last(<<r>>) = r
    BY DEF Last
  <2>2. 2 .. 1 = {}
    OBVIOUS
  <2> QED
    BY <2>1, <2>2
<1>3. ASSUME NEW c \in Chains, NEW i \in 1 .. n
      PROVE  Step(c, t[i], "up", t) \in Chains
  <2> DEFINE up == t[Last(c)].parent
             d == Append(c, up)
  <2>1. Step(c, t[i], "up", t) = IF up = NoRule THEN c ELSE d
    BY DEF Step
  <2>2. CASE up = NoRule
    BY <1>3, <2>1, <2>2
  <2>3. CASE up # NoRule
    <3>1. c \in Seq(D) /\ (\A j \in 2 .. Len(c) : c[j] \in Passed) /\ up \in Passed
      BY <1>3, <2>3
    <3>2. up \in D /\ t[up].parent \in Passed \cup {NoRule}
      BY <3>1
    <3> HIDE DEF up, D
    <3>3. d \in Seq(D) /\ d # <<>> /\ Last(d) = up /\ Len(d) = Len(c) + 1
      BY <3>1, <3>2, PathWithName, Zenon
    <3>4. Len(c) \in Nat /\ d[Len(c) + 1] = up /\ \A j \in 1 .. Len(c) : d[j] = c[j]
      BY <3>1, <3>2
    <3> HIDE DEF d
    <3>5. \A j \in 2 .. Len(d) : d[j] \in Passed
      <4> TAKE j \in 2 .. Len(d)
      <4>1. j = Len(c) + 1 \/ j \in 2 .. Len(c)
        BY <3>3, <3>4
      <4>2. j \in 2 .. Len(c) => j \in 1 .. Len(c)
        BY <3>4
      <4> QED
        BY <3>1, <3>4, <4>1, <4>2
    <3>6. d \in Chains
      BY <3>2, <3>3, <3>5
    <3> QED
      BY <2>1, <2>3, <3>6
  <2> QED
    BY <2>2, <2>3
<1>4. chain \in Chains
  <2>1. "up" \in FoldKinds
    BY DEF FoldKinds
  <2>2. chain = Fold(<<r>>, t, "up", t)
    BY DEF Ancestors, Fold
  <2> HIDE DEF Chains, chain
  <2>3. Fold(<<r>>, t, "up", t) \in Chains
    BY <1>1, <1>2, <1>3, <2>1, FoldKeeps
  <2> QED
    BY <2>2, <2>3
<1>5. SectionWithKey(t, r, name) = IF above = {} THEN NoRule ELSE chain[Min(above)]
  BY Zenon DEF SectionWithKey
<1>6. above # {} /\ SectionWithKey(t, r, name) = chain[Min(above)]
  BY <1>5
<1>7. Len(chain) \in Nat /\ \A i \in 2 .. Len(chain) : chain[i] \in Passed
  BY <1>4
<1> HIDE DEF chain, DefinesKey
<1>8. Min(above) \in above
  <2>1. above \in SUBSET Nat
    BY <1>7
  <2> HIDE DEF above
  <2> QED
    BY <1>6, <2>1, LeastExists
<1>9. chain[Min(above)] \in Passed /\ DefinesKey(chain[Min(above)])
  BY <1>7, <1>8
<1> QED
  BY <1>6, <1>9 DEF DefinesKey

\* The tests of a rule are safe when the rules above it have passed them.
LEMMA RuleAsserts ==
  ASSUME NEW t, IsRuleTree(t), \A s \in DOMAIN t : IsSound(t[s]),
         NEW Passed, Passed \subseteq DOMAIN t, \A s \in Passed : AcceptsRule(t, s),
         \A s \in Passed : t[s].parent \in Passed \cup {NoRule},
         NEW r \in DOMAIN t, t[r].parent \in Passed \cup {NoRule}
  PROVE  AssertsRule(t, r)
<1> DEFINE rule == t[r]
           Named(type) == {i \in DOMAIN rule.constraints : rule.constraints[i].type = type}
           Safe(name) == LET section == SectionWithKey(t, r, name)
                             key == KeyNamed(t, section, name)
                         IN  section # NoRule =>
                               \A n \in DOMAIN key.keys :
                                 /\ KeyTarget(t, section, key, n) # NoRule
                                 /\ KeyTargetTypes(t, KeyTarget(t, section, key, n)) # {}
                                 /\ KeyTargetTypes(t, KeyTarget(t, section, key, n)) \subseteq KeyTypes
<1>1. IsSound(rule)
  OBVIOUS
<1>2. ASSUME NEW type \in LimitNames, HasConstraint(rule, type)
      PROVE  ConstraintOf(rule, type).form = LimitForm(rule.type)
  <2>1. \E i \in DOMAIN rule.constraints : rule.constraints[i].type = type
    BY <1>2 DEF HasConstraint
  <2>2. \E i \in DOMAIN rule.constraints :
          ConstraintOf(rule, type) = rule.constraints[i] /\ rule.constraints[i].type = type
    BY <2>1, Zenon DEF ConstraintOf
  <2>3. ConstraintOf(rule, type) \in ToSet(rule.constraints) /\ ConstraintOf(rule, type).type = type
    BY <2>2 DEF ToSet
  <2> QED
    BY <1>1, <2>3 DEF IsSound, LimitsFit
<1>3. ComparesLimits(rule) =>
        {ConstraintOf(rule, "minimum").form, ConstraintOf(rule, "maximum").form} = {LimitForm(rule.type)}
  <2> SUFFICES ASSUME ComparesLimits(rule)
               PROVE  /\ ConstraintOf(rule, "minimum").form = LimitForm(rule.type)
                      /\ ConstraintOf(rule, "maximum").form = LimitForm(rule.type)
    OBVIOUS
  <2>1. HasConstraint(rule, "minimum") /\ HasConstraint(rule, "maximum")
    BY DEF ComparesLimits
  <2>2. "minimum" \in LimitNames /\ "maximum" \in LimitNames
    BY DEF LimitNames
  <2> QED
    BY <1>2, <2>1, <2>2
<1>4. ASSUME NEW name
      PROVE  Safe(name)
  <2> DEFINE section == SectionWithKey(t, r, name)
             keys == t[section].keys
             I == {i \in 1 .. Len(keys) : keys[i].name = name}
             key == KeyNamed(t, section, name)
  <2> SUFFICES ASSUME section # NoRule, NEW n \in DOMAIN key.keys
               PROVE  /\ KeyTarget(t, section, key, n) # NoRule
                      /\ KeyTargetTypes(t, KeyTarget(t, section, key, n)) # {}
                      /\ KeyTargetTypes(t, KeyTarget(t, section, key, n)) \subseteq KeyTypes
    OBVIOUS
  <2>1. section \in Passed /\ \E i \in DOMAIN keys : keys[i].name = name
    BY SectionIsTested
  <2> HIDE DEF section
  <2>2. IsSound(t[section]) /\ KeysAreAccepted(t, section)
    BY <2>1 DEF AcceptsRule, PassesFirstTests
  <2>3. keys \in Seq(ToSet(keys)) /\ \A i \in DOMAIN keys : \A m \in DOMAIN keys[i].keys : keys[i].keys[m] \in Seq(STRING)
    BY <2>2 DEF IsSound, KeysArePaths
  <2>4. DOMAIN keys = 1 .. Len(keys) /\ I # {} /\ I \in SUBSET Nat
    BY <2>1, <2>3
  <2>5. key = keys[Min(I)]
    <3>1. key = keys[IF I # {} THEN Min(I) ELSE 0]
      BY DEF KeyNamed, SelectInSeq
    <3> QED
      BY <2>4, <3>1
  <2>6. Min(I) \in DOMAIN keys
    <3>1. Min(I) \in I
      <4> HIDE DEF I
      <4> QED
        BY <2>4, LeastExists
    <3> QED
      BY <2>4, <3>1
  <2> HIDE DEF I
  <2>7. keys # <<>>
    BY <2>1
  <2>8. \A i \in DOMAIN keys : \A m \in DOMAIN keys[i].keys : KeyIsAccepted(t, section, keys[i].keys[m])
    BY <2>2, <2>7 DEF KeysAreAccepted
  <2> HIDE DEF keys, key
  <2>9. key.keys[n] \in Seq(STRING) /\ KeyIsAccepted(t, section, key.keys[n])
    BY <2>3, <2>5, <2>6, <2>8
  <2>10. KeyTarget(t, section, key, n) = Descendant(t, section, key.keys[n])
    BY DEF KeyTarget
  <2> QED
    BY <2>9, <2>10, KeyHasTarget
<1> HIDE DEF Safe
<1>5. HasConstraint(rule, "key") /\ rule.type \in KeyTypes =>
        \A reference \in ToSet(ConstraintOf(rule, "key").operands) : Safe(reference[1])
  BY <1>4
<1>6. rule.type # Undefined
  BY <1>1 DEF IsSound
<1> QED
  BY <1>3, <1>5, <1>6, Zenon DEF AssertsRule, Safe

\* All rules below a rule are listed.
LEMMA ChildrenAreListed ==
  ASSUME NEW t, IsRuleTree(t), NEW r, NEW c \in DOMAIN t, t[c].parent = r
  PROVE  c \in ToSet(Children(t, r))
<1> DEFINE of == [rules |-> t, parent |-> r]
           seq == [i \in DOMAIN t |-> i]
           n == Len(t)
           nothing == <<>>
<1>1. of.rules = t /\ of.parent = r
  OBVIOUS
<1>2. n \in Nat /\ DOMAIN t = 1 .. n
  BY RulesAreTyped
<1>3. DOMAIN seq = 1 .. n /\ \A i \in 1 .. n : seq[i] = i
  BY <1>2
<1> HIDE DEF of, n
<1>4. Children(of.rules, of.parent) = Fold(<<>>, [i \in DOMAIN of.rules |-> i], "children", of)
  BY DEF Children, Fold
<1>5. Children(t, r) = Fold(<<>>, seq, "children", of)
  BY <1>1, <1>4
<1> HIDE DEF seq
<1>6. "children" \in FoldKinds
  BY DEF FoldKinds
<1> HIDE DEF nothing
<1>7. PICK f : IsFold(f, nothing, seq, n, "children", of) /\ Fold(nothing, seq, "children", of) = f[1 .. n]
  BY <1>2, <1>3, <1>6, FoldIsLast
<1>8. /\ f[{}] = nothing
      /\ \A i \in 1 .. n : f[1 .. i] = Step(f[1 .. i - 1], seq[i], "children", of)
  BY <1>2, <1>7, FoldOnTheWay
<1>9. ASSUME NEW i \in 1 .. n
      PROVE  f[1 .. i] = IF t[i].parent = r THEN Append(f[1 .. i - 1], i) ELSE f[1 .. i - 1]
  <2>1. f[1 .. i] = Step(f[1 .. i - 1], i, "children", of)
    BY <1>3, <1>8
  <2>2. \A v : Step(v, i, "children", of) = IF t[i].parent = r THEN Append(v, i) ELSE v
    BY <1>1 DEF Step
  <2> QED
    BY <2>1, <2>2
<1> DEFINE Lists(i) == f[1 .. i] \in Seq(Nat)
           Has(i) == \A j \in 1 .. i : t[j].parent = r => j \in ToSet(f[1 .. i])
           T == {i \in 0 .. n : Lists(i) /\ Has(i)}
<1>10. 0 \in T
  <2>1. 1 .. 0 = {} /\ 0 \in 0 .. n /\ <<>> \in Seq(Nat)
    BY <1>2
  <2> QED
    BY <1>8, <2>1 DEF nothing
<1>11. ASSUME NEW i \in 0 .. n - 1, i \in T
       PROVE  i + 1 \in T
  <2> DEFINE old == f[1 .. i]
             new == f[1 .. i + 1]
  <2>1. i \in Nat /\ i + 1 \in Nat /\ i + 1 \in 1 .. n /\ i + 1 \in 0 .. n /\ (i + 1) - 1 = i
    BY <1>2
  <2>2. new = IF t[i + 1].parent = r THEN Append(old, i + 1) ELSE old
    BY <1>9, <2>1
  <2>3. old \in Seq(Nat) /\ \A j \in 1 .. i : t[j].parent = r => j \in ToSet(old)
    BY <1>11
  <2>4. \A j \in 1 .. i + 1 : j \in 1 .. i \/ j = i + 1
    BY <2>1
  <2> HIDE DEF old, new
  <2>5. CASE t[i + 1].parent = r
    <3>1. new = Append(old, i + 1) /\ new \in Seq(Nat)
      BY <2>1, <2>2, <2>3, <2>5
    <3>2. \A j \in ToSet(old) \cup {i + 1} : j \in ToSet(new)
      BY <2>1, <2>3, <3>1 DEF ToSet
    <3>3. \A j \in 1 .. i + 1 : t[j].parent = r => j \in ToSet(new)
      BY <2>3, <2>4, <3>2
    <3> QED
      BY <2>1, <3>1, <3>3 DEF new
  <2>6. CASE t[i + 1].parent # r
    <3>1. new = old
      BY <2>2, <2>6
    <3>2. \A j \in 1 .. i + 1 : t[j].parent = r => j \in ToSet(new)
      BY <2>3, <2>4, <2>6, <3>1
    <3> QED
      BY <2>1, <2>3, <3>1, <3>2 DEF new
  <2> QED
    BY <2>5, <2>6
<1> HIDE DEF T
<1>12. \A i \in 0 .. n : i \in T
  BY <1>2, <1>10, <1>11, RangeInduction
<1>13. n \in T
  BY <1>2, <1>12
<1>14. c \in ToSet(f[1 .. n])
  BY <1>2, <1>13 DEF T
<1> QED
  BY <1>5, <1>7, <1>14 DEF nothing

\* These rules have passed the tests, and the rules on the pile are tested next: what is
\* below a rule that has passed has passed as well, or it waits.
IsTested(passed, pile) ==
  /\ passed \subseteq DOMAIN rules
  /\ \A r \in passed : AcceptsRule(rules, r) /\ rules[r].parent \in passed \cup {NoRule}
  /\ pile \in Seq({r \in DOMAIN rules : rules[r].parent \in passed \cup {NoRule}})
  /\ Root \in passed \cup ToSet(pile)
  /\ \A r \in DOMAIN rules : rules[r].parent \in passed => r \in passed \cup ToSet(pile)

TestedSoFar ==
  /\ status # "failed"
  /\ status = "read" => \E passed : IsTested(passed, unchecked)
  /\ status = "accepted" => \A r \in DOMAIN rules : AcceptsRule(rules, r)

LEMMA RootIsTestedFirst ==
  ASSUME IsRuleTree(rules)
  PROVE  IsTested({}, <<Root>>)
<1>1. Root \in DOMAIN rules /\ rules[Root].parent = NoRule
  BY RulesAreTyped DEF IsRuleTree
<1>2. ToSet(<<Root>>) = {Root}
  BY DEF ToSet
<1>3. <<Root>> \in Seq({r \in DOMAIN rules : rules[r].parent \in {} \cup {NoRule}})
  BY <1>1
<1> QED
  BY <1>2, <1>3 DEF IsTested

\* A rule that passes makes place for the rules below it.
LEMMA RulePasses ==
  ASSUME IsRuleTree(rules), NEW passed, NEW pile, pile # <<>>, IsTested(passed, pile),
         AcceptsRule(rules, Last(pile))
  PROVE  IsTested(passed \cup {Last(pile)}, Front(pile) \o Children(rules, Last(pile)))
<1> DEFINE r == Last(pile)
           rest == Front(pile)
           children == Children(rules, r)
           more == passed \cup {r}
           D == {s \in DOMAIN rules : rules[s].parent \in passed \cup {NoRule}}
           E == {s \in DOMAIN rules : rules[s].parent \in more \cup {NoRule}}
           C == {s \in DOMAIN rules : rules[s].parent = r}
           next == rest \o children
<1>1. pile \in Seq(D) /\ D \subseteq E /\ C \subseteq E
  BY DEF IsTested
<1>2. r \in D /\ rest \in Seq(D) /\ Len(pile) \in Nat \ {0} /\ Len(rest) = Len(pile) - 1 /\ r = pile[Len(pile)]
      /\ \A i \in 1 .. Len(pile) - 1 : rest[i] = pile[i]
  <2> HIDE DEF D
  <2> QED
    BY <1>1, PathParts, Zenon
<1>3. children \in Seq(C)
  BY ChildrenAreBelow
<1>4. \A s \in C : s \in ToSet(children)
  <2> HIDE DEF children
  <2> TAKE s \in C
  <2> QED
    BY ChildrenAreListed DEF children
<1>5. r \in DOMAIN rules /\ rules[r].parent \in more \cup {NoRule}
  BY <1>2
<1>6. \A s \in ToSet(pile) : s = r \/ s \in ToSet(rest)
  <2> TAKE s \in ToSet(pile)
  <2> HIDE DEF D
  <2>1. PICK i \in 1 .. Len(pile) : s = pile[i]
    BY <1>1 DEF ToSet
  <2>2. i = Len(pile) \/ i \in 1 .. Len(pile) - 1
    BY <1>2
  <2>3. DOMAIN rest = 1 .. Len(pile) - 1
    BY <1>2
  <2> HIDE DEF r, rest
  <2> QED
    BY <1>2, <2>1, <2>2, <2>3 DEF ToSet
<1> HIDE DEF children, rest, r
<1>7. next \in Seq(E) /\ ToSet(rest) \subseteq ToSet(next) /\ ToSet(children) \subseteq ToSet(next)
  <2>1. rest \in Seq(E) /\ children \in Seq(E)
    BY <1>1, <1>2, <1>3
  <2> HIDE DEF E
  <2>2. next \in Seq(E)
    BY <2>1
  <2>3. \A i \in DOMAIN rest : i \in DOMAIN next /\ next[i] = rest[i]
    BY <2>1
  <2>4. \A i \in DOMAIN children : Len(rest) + i \in DOMAIN next /\ next[Len(rest) + i] = children[i]
    BY <2>1
  <2> HIDE DEF next
  <2> QED
    BY <2>2, <2>3, <2>4 DEF ToSet
<1> HIDE DEF next
<1>8. \A s \in passed \cup ToSet(pile) : s \in more \cup ToSet(next)
  BY <1>6, <1>7
<1>9. more \subseteq DOMAIN rules /\ Root \in more \cup ToSet(next)
  BY <1>5, <1>8 DEF IsTested
<1>10. \A s \in more : AcceptsRule(rules, s) /\ rules[s].parent \in more \cup {NoRule}
  BY <1>5 DEF IsTested, r
<1>11. \A s \in DOMAIN rules : rules[s].parent \in more => s \in more \cup ToSet(next)
  BY <1>4, <1>7, <1>8 DEF IsTested
<1>12. IsTested(more, next)
  BY <1>7, <1>9, <1>10, <1>11 DEF IsTested
<1> QED
  BY <1>12 DEF more, next, r, rest, children

\* When nothing waits, all rules have passed.
LEMMA AllHavePassed ==
  ASSUME IsRuleTree(rules), NEW passed, IsTested(passed, <<>>)
  PROVE  \A r \in DOMAIN rules : AcceptsRule(rules, r)
<1> DEFINE Lacking == DOMAIN rules \ passed
           Depths == {Len(rules[r].path) : r \in Lacking}
<1>1. ToSet(<<>>) = {}
  BY DEF ToSet
<1>2. Root \in passed /\ \A r \in DOMAIN rules : rules[r].parent \in passed => r \in passed
  BY <1>1 DEF IsTested
<1>3. \A r \in DOMAIN rules : rules[r].path \in Seq(STRING)
  BY DEF IsRuleTree, IsRule
<1>4. ASSUME Lacking # {}
      PROVE  FALSE
  <2>1. Depths # {}
    BY <1>4
  <2> HIDE DEF Lacking
  <2>8. Depths \in SUBSET Nat
    <3>1. \A r \in Lacking : Len(rules[r].path) \in Nat
      BY <1>3 DEF Lacking
    <3> QED
      BY <3>1
  <2> USE DEF Lacking
  <2>2. Min(Depths) \in Depths /\ \A d \in Depths : Min(Depths) <= d
    <3> HIDE DEF Depths
    <3> QED
      BY <2>1, <2>8, LeastExists
  <2>3. PICK r \in Lacking : \A s \in Lacking : Len(rules[r].path) <= Len(rules[s].path)
    BY <2>2
  <2> DEFINE s == rules[r].parent
  <2>4. r # Root /\ rules[r].path # <<>> /\ s \in DOMAIN rules /\ rules[s].path = Front(rules[r].path)
    BY <1>2, <2>3 DEF IsRuleTree
  <2>5. Len(rules[r].path) \in Nat \ {0} /\ Len(rules[s].path) = Len(rules[r].path) - 1
    <3>1. rules[r].path \in Seq(STRING)
      BY <1>3, <2>3
    <3> QED
      BY <2>4, <3>1, PathParts, Zenon
  <2>6. s \in Lacking
    BY <1>2, <2>3, <2>4
  <2>7. Len(rules[r].path) <= Len(rules[s].path)
    BY <2>3, <2>6
  <2> QED
    BY <2>5, <2>7
<1> QED
  BY <1>4 DEF IsTested

\* The tests of the top of the pile are safe, and it gives way to what is below it.
LEMMA RuleIsTested ==
  ASSUME IsRuleTree(rules), RulesAreSound, TestedSoFar, ValidateRule
  PROVE  TestedSoFar'
<1> DEFINE r == Last(unchecked)
           next == Front(unchecked) \o Children(rules, r)
<1>1. status = "read" /\ unchecked # <<>> /\ rules' = rules /\ WithChildren = next
  BY DEF ValidateRule, WithChildren
<1>2. PICK passed : IsTested(passed, unchecked)
  BY <1>1 DEF TestedSoFar
<1>3. r \in DOMAIN rules /\ rules[r].parent \in passed \cup {NoRule}
  <2> DEFINE D == {s \in DOMAIN rules : rules[s].parent \in passed \cup {NoRule}}
  <2>1. unchecked \in Seq(D) /\ unchecked # <<>>
    BY <1>1, <1>2 DEF IsTested
  <2> HIDE DEF D
  <2>2. Last(unchecked) \in D
    BY <2>1, PathParts, Zenon
  <2> QED
    BY <2>2 DEF D
<1>4. AssertsRule(rules, r)
  <2> HIDE DEF r
  <2>1. /\ \A s \in DOMAIN rules : IsSound(rules[s])
        /\ passed \subseteq DOMAIN rules /\ \A s \in passed : AcceptsRule(rules, s)
        /\ \A s \in passed : rules[s].parent \in passed \cup {NoRule}
    BY <1>2 DEF RulesAreSound, IsTested
  <2> QED
    BY <1>3, <2>1, RuleAsserts
<1>5. CASE AcceptsRule(rules, r)
  <2>1. status' = "read" /\ unchecked' = next
    BY <1>1, <1>4, <1>5 DEF ValidateRule
  <2>2. IsTested(passed \cup {r}, next)
    BY <1>1, <1>2, <1>5, RulePasses
  <2>3. PICK tested, pile : tested = passed \cup {r} /\ pile = next
    OBVIOUS
  <2>4. unchecked' = pile /\ IsTested(tested, pile)
    BY <2>1, <2>2, <2>3
  <2>5. IsTested(tested, unchecked)'
    BY <1>1, <2>4 DEF IsTested
  <2>6. (\E all : IsTested(all, unchecked))'
    BY <2>5
  <2> QED
    BY <2>1, <2>6 DEF TestedSoFar
<1>6. CASE ~AcceptsRule(rules, r)
  <2>1. status' = "refused"
    BY <1>4, <1>6 DEF ValidateRule
  <2> QED
    BY <2>1 DEF TestedSoFar
<1> QED
  BY <1>5, <1>6

\* Every rule is tested before the rules are accepted, each one after its parent, and no
\* assertion fails on the way.  (RulesDefinitionValidator::validate)
THEOREM RulesAreTested == SpecBuilder => [](Inv /\ RulesAreSound /\ TestedSoFar)
<1>1. InitBuilder => RulesAreSound /\ TestedSoFar
  <2> SUFFICES ASSUME InitBuilder PROVE RulesAreSound /\ TestedSoFar
    OBVIOUS
  <2>1. Init /\ status = "reading"
    BY DEF InitBuilder, Init
  <2> QED
    BY <2>1, StartIsSound DEF TestedSoFar
<1>2. Inv /\ RulesAreSound /\ TestedSoFar /\ [NextBuilder]_builderVars => RulesAreSound' /\ TestedSoFar'
  <2> SUFFICES ASSUME Inv, RulesAreSound, TestedSoFar, [NextBuilder]_builderVars
               PROVE  RulesAreSound' /\ TestedSoFar'
    OBVIOUS
  <2>1. ReadSoFar /\ IsRuleTree(rules)
    BY DEF Inv, ReadSoFar
  <2>2. CASE Read
    <3>1. Next
      BY <2>2 DEF Read
    <3>2. RulesAreSound'
      BY <2>1, <3>1, StepIsSound
    <3>3. CASE Finish
      <4>1. status' = "read" /\ unchecked' = <<Root>> /\ rules' = rules
        BY <2>2, <3>3 DEF Read, Finish
      <4>2. IsTested({}, <<Root>>)
        BY <2>1, RootIsTestedFirst
      <4>3. IsTested({}, unchecked)'
        BY <4>1, <4>2 DEF IsTested
      <4>4. (\E passed : IsTested(passed, unchecked))'
        BY <4>3
      <4> QED
        BY <3>2, <4>1, <4>4 DEF TestedSoFar
    <3>4. CASE ~Finish
      <4>1. status' \in {"reading", "refused"}
        BY <3>1, <3>4, ReadingGoesOn
      <4> QED
        BY <3>2, <4>1 DEF TestedSoFar
    <3> QED
      BY <3>3, <3>4
  <2>3. CASE ValidateRule
    <3>1. rules' = rules
      BY <2>3 DEF ValidateRule
    <3>2. RulesAreSound'
      BY <3>1 DEF RulesAreSound
    <3> QED
      BY <2>1, <2>3, <3>2, RuleIsTested
  <2>4. CASE Accept
    <3>1. status = "read" /\ status' = "accepted" /\ unchecked = <<>> /\ rules' = rules
      BY <2>4 DEF Accept
    <3>2. PICK passed : IsTested(passed, unchecked)
      BY <3>1 DEF TestedSoFar
    <3>3. \A r \in DOMAIN rules : AcceptsRule(rules, r)
      BY <2>1, <3>1, <3>2, AllHavePassed
    <3> QED
      BY <3>1, <3>3 DEF TestedSoFar, RulesAreSound
  <2>5. CASE StopAtKeyTypes
    BY <2>5 DEF StopAtKeyTypes, TestedSoFar, RulesAreSound
  <2>6. CASE UNCHANGED builderVars
    <3>1. rules' = rules /\ status' = status /\ unchecked' = unchecked
      BY <2>6 DEF builderVars
    <3> QED
      BY <3>1 DEF TestedSoFar, RulesAreSound, IsTested
  <2> QED
    BY <2>2, <2>3, <2>4, <2>5, <2>6 DEF NextBuilder
<1> QED
  BY <1>1, <1>2, RulesAreReadInOrder, PTL DEF SpecBuilder

\* No assertion fails while the definition is validated, but for the one about the types
\* behind a key.  (RulesDefinitionValidator: REQUIRE_SAFETY and REQUIRE_DEBUG.)
THEOREM NoAssertionFails == SpecBuilder => []AssertionsHold
<1>1. TestedSoFar => AssertionsHold
  BY DEF TestedSoFar, AssertionsHold
<1> QED
  BY <1>1, RulesAreTested, PTL

\* Rules are accepted only when all of them have passed the tests.
\* (RulesDefinitionValidator::validate; Rules::validateDefinition)
THEOREM NothingIsUntested == SpecBuilder => []AcceptedRulesPass
<1>1. TestedSoFar => AcceptedRulesPass
  BY DEF TestedSoFar, AcceptedRulesPass
<1> QED
  BY <1>1, RulesAreTested, PTL
=============================================================================
