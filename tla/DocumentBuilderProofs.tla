------------------------ MODULE DocumentBuilderProofs ------------------------
(***************************************************************************)
(* Proofs about DocumentBuilder, for any names, documents of any depth and *)
(* size, and any sequence of calls.                                        *)
(***************************************************************************)
EXTENDS DocumentBuilder, FiniteSetTheorems, SequenceTheorems, WellFoundedInduction, TLAPS

\* What holds at the start of a range and is handed on holds everywhere in it.
LEMMA RangeInduction ==
  ASSUME NEW n \in Nat, NEW S, 0 \in S, \A i \in 0 .. n - 1 : i \in S => i + 1 \in S
  PROVE  \A i \in 0 .. n : i \in S
<1> DEFINE Missing == (0 .. n) \ S
           Less == OpToRel(<, Nat)
<1> SUFFICES ASSUME Missing # {} PROVE FALSE
  OBVIOUS
<1>1. Missing \subseteq Nat
  OBVIOUS
<1>2. IsWellFoundedOn(Less, Nat)
  BY NatLessThanWellFounded
<1>3. PICK i \in Missing : \A j \in Missing : ~(<<j, i>> \in Less)
  <2> HIDE DEF Missing, Less
  <2> QED
    BY <1>1, <1>2, WFMin
<1>4. i \in 1 .. n /\ i \notin S
  OBVIOUS
<1>5. i - 1 \in 0 .. n - 1 /\ (i - 1) + 1 = i /\ i - 1 \in Nat /\ i - 1 < i /\ i \in Nat
  BY <1>4
<1>6. i - 1 \notin S
  BY <1>4, <1>5
<1>7. i - 1 \in Missing
  BY <1>5, <1>6
<1>8. <<i - 1, i>> \in Less
  BY <1>5 DEF OpToRel
<1> QED
  BY <1>3, <1>7, <1>8

\* What holds of the empty sequence, and of a sequence with one more element when
\* it holds of the sequence, holds of every sequence.
LEMMA PrefixInduction ==
  ASSUME NEW D, NEW seq \in Seq(D), NEW G, <<>> \in G,
         \A s \in Seq(D), x \in D : s \in G => Append(s, x) \in G
  PROVE  seq \in G
<1> DEFINE n == Len(seq)
           S == {i \in 0 .. n : SubSeq(seq, 1, i) \in G}
<1>1. n \in Nat /\ \A i \in 1 .. n : seq[i] \in D
  OBVIOUS
<1>2. 0 \in S
  <2>1. SubSeq(seq, 1, 0) = <<>> /\ 0 \in 0 .. n
    BY <1>1
  <2> QED
    BY <2>1
<1>3. ASSUME NEW i \in 0 .. n - 1, i \in S
      PROVE  i + 1 \in S
  <2> DEFINE s == SubSeq(seq, 1, i)
             u == SubSeq(seq, 1, i + 1)
  <2>1. i \in Nat /\ i + 1 \in 0 .. n /\ i + 1 \in 1 .. n
    BY <1>1
  <2>2. /\ s \in Seq(D) /\ Len(s) = i /\ \A j \in 1 .. i : s[j] = seq[j]
        /\ u \in Seq(D) /\ Len(u) = i + 1 /\ \A j \in 1 .. i + 1 : u[j] = seq[j]
    BY <2>1
  <2> HIDE DEF s, u, n
  <2>3. /\ Append(s, seq[i + 1]) \in Seq(D) /\ Len(Append(s, seq[i + 1])) = i + 1
        /\ \A j \in 1 .. i + 1 : Append(s, seq[i + 1])[j] = u[j]
    BY <1>1, <2>1, <2>2
  <2>4. Append(s, seq[i + 1]) = u
    BY <2>2, <2>3, SeqEqual
  <2>5. Append(s, seq[i + 1]) \in G
    BY <1>1, <1>3, <2>1, <2>2 DEF s, n
  <2>6. u \in G
    BY <2>4, <2>5
  <2>7. SubSeq(seq, 1, i + 1) \in G
    BY <2>6 DEF u
  <2> QED
    BY <2>1, <2>7
<1> HIDE DEF S
<1>4. n \in S
  <2> HIDE DEF n
  <2>1. n \in Nat /\ \A i \in 0 .. n - 1 : i \in S => i + 1 \in S
    BY <1>1, <1>3
  <2>2. \A i \in 0 .. n : i \in S
    BY <1>2, <2>1, RangeInduction, Zenon
  <2> QED
    BY <2>1, <2>2
<1>5. SubSeq(seq, 1, n) = seq
  OBVIOUS
<1> QED
  BY <1>4, <1>5 DEF S

-----------------------------------------------------------------------------
\* The folds of the module, the walks to a section and the names in a path, are
\* taken step by step: a fold of one more element is one more step.
Step(v, x, kind) ==
  CASE kind = "create" -> EnterOrCreate(v, x)
    [] kind = "existing" -> EnterExisting(v, x)
    [] kind = "names" -> AddName(v, x)

Kinds == {"create", "existing", "names"}

Folded(start, seq, kind) ==
  CASE kind = "create" -> FoldLeft(EnterOrCreate, start, seq)
    [] kind = "existing" -> FoldLeft(EnterExisting, start, seq)
    [] kind = "names" -> FoldLeft(AddName, start, seq)

\* The equation that defines the fold of the first n elements, for every set of them.
IsFold(f, start, seq, n, kind) ==
  f = [s \in SUBSET (1 .. n) |->
         IF s = {} THEN start ELSE Step(f[s \ {Max(s)}], seq[Max(s)], kind)]

LEMMA FoldIsChosen ==
  ASSUME NEW start, NEW seq, NEW n, DOMAIN seq = 1 .. n, NEW kind \in Kinds
  PROVE  Folded(start, seq, kind) = (CHOOSE f : IsFold(f, start, seq, n, kind))[1 .. n]
<1>1. CASE kind = "create"
  BY <1>1 DEF Folded, FoldLeft, MapThenFoldSet, IsFold, Step
<1>2. CASE kind = "existing"
  BY <1>2 DEF Folded, FoldLeft, MapThenFoldSet, IsFold, Step
<1>3. CASE kind = "names"
  BY <1>3 DEF Folded, FoldLeft, MapThenFoldSet, IsFold, Step
<1> QED
  BY <1>1, <1>2, <1>3 DEF Kinds

LEMMA GreatestOfRange ==
  ASSUME NEW i \in Nat, NEW s \in SUBSET (1 .. i + 1), i + 1 \in s
  PROVE  Max(s) = i + 1
<1>1. \A x \in s : x \in Nat /\ x <= i + 1
  OBVIOUS
<1>2. \A x \in s : (\A y \in s : x >= y) => x = i + 1
  BY <1>1
<1>3. \A y \in s : i + 1 >= y
  BY <1>1
<1> QED
  BY <1>2, <1>3 DEF Max

LEMMA FoldExists ==
  ASSUME NEW start, NEW seq, NEW n \in Nat, NEW kind
  PROVE  \E f : IsFold(f, start, seq, n, kind)
<1> DEFINE S == {i \in 0 .. n : \E f : IsFold(f, start, seq, i, kind)}
<1>1. 0 \in S
  <2> DEFINE f == [s \in SUBSET (1 .. 0) |-> start]
  <2>1. \A s \in SUBSET (1 .. 0) : s = {}
    OBVIOUS
  <2>2. f = [s \in SUBSET (1 .. 0) |->
               IF s = {} THEN start ELSE Step(f[s \ {Max(s)}], seq[Max(s)], kind)]
    BY <2>1
  <2> QED
    BY <2>2 DEF IsFold
<1>2. ASSUME NEW i \in 0 .. n - 1, i \in S
      PROVE  i + 1 \in S
  <2>1. PICK f : IsFold(f, start, seq, i, kind)
    BY <1>2
  <2> DEFINE g == [s \in SUBSET (1 .. i + 1) |->
                     IF i + 1 \in s THEN Step(f[s \ {i + 1}], seq[i + 1], kind) ELSE f[s]]
  <2>2. i \in Nat /\ i + 1 \in 0 .. n
    OBVIOUS
  <2>3. f = [s \in SUBSET (1 .. i) |->
               IF s = {} THEN start ELSE Step(f[s \ {Max(s)}], seq[Max(s)], kind)]
    BY <2>1 DEF IsFold
  <2>4. ASSUME NEW s \in SUBSET (1 .. i + 1)
        PROVE  g[s] = IF s = {} THEN start ELSE Step(g[s \ {Max(s)}], seq[Max(s)], kind)
    <3>1. CASE i + 1 \in s
      <4>1. Max(s) = i + 1
        BY <2>2, <3>1, GreatestOfRange
      <4>2. s \ {i + 1} \in SUBSET (1 .. i + 1) /\ i + 1 \notin s \ {i + 1}
        OBVIOUS
      <4>3. g[s \ {i + 1}] = f[s \ {i + 1}]
        BY <4>2
      <4>4. g[s] = Step(f[s \ {i + 1}], seq[i + 1], kind)
        BY <3>1
      <4> HIDE DEF g
      <4> QED
        BY <3>1, <4>1, <4>3, <4>4
    <3>2. CASE i + 1 \notin s
      <4>1. s \in SUBSET (1 .. i)
        BY <2>2, <3>2
      <4>2. s \ {Max(s)} \in SUBSET (1 .. i + 1) /\ i + 1 \notin s \ {Max(s)}
        BY <3>2
      <4>3. g[s] = f[s] /\ g[s \ {Max(s)}] = f[s \ {Max(s)}]
        BY <3>2, <4>2
      <4>4. f[s] = IF s = {} THEN start ELSE Step(f[s \ {Max(s)}], seq[Max(s)], kind)
        BY <2>3, <4>1
      <4> HIDE DEF g
      <4> QED
        BY <4>3, <4>4
    <3> QED
      BY <3>1, <3>2
  <2>5. IsFold(g, start, seq, i + 1, kind)
    <3>1. g = [s \in SUBSET (1 .. i + 1) |-> g[s]]
      OBVIOUS
    <3> HIDE DEF g
    <3> QED
      BY <2>4, <3>1 DEF IsFold
  <2> QED
    BY <2>2, <2>5
<1> HIDE DEF S
<1>3. n \in S
  BY <1>1, <1>2, RangeInduction
<1> QED
  BY <1>3 DEF S

LEMMA FoldIsLast ==
  ASSUME NEW start, NEW seq, NEW n \in Nat, DOMAIN seq = 1 .. n, NEW kind \in Kinds
  PROVE  \E f : IsFold(f, start, seq, n, kind) /\ Folded(start, seq, kind) = f[1 .. n]
<1>1. \E f : IsFold(f, start, seq, n, kind)
  BY FoldExists
<1>2. IsFold(CHOOSE f : IsFold(f, start, seq, n, kind), start, seq, n, kind)
  BY <1>1, Zenon
<1>3. Folded(start, seq, kind) = (CHOOSE f : IsFold(f, start, seq, n, kind))[1 .. n]
  BY FoldIsChosen
<1> QED
  BY <1>2, <1>3, Zenon

\* The values of a fold on the way.
LEMMA FoldOnTheWay ==
  ASSUME NEW start, NEW seq, NEW n \in Nat, NEW kind, NEW f, IsFold(f, start, seq, n, kind)
  PROVE  /\ f[{}] = start
         /\ \A i \in 1 .. n : f[1 .. i] = Step(f[1 .. i - 1], seq[i], kind)
<1>1. f = [s \in SUBSET (1 .. n) |->
             IF s = {} THEN start ELSE Step(f[s \ {Max(s)}], seq[Max(s)], kind)]
  BY DEF IsFold
<1>2. f[{}] = start
  <2>1. {} \in SUBSET (1 .. n)
    OBVIOUS
  <2> QED
    BY <1>1, <2>1
<1>3. ASSUME NEW i \in 1 .. n
      PROVE  f[1 .. i] = Step(f[1 .. i - 1], seq[i], kind)
  <2>1. 1 .. i \in SUBSET (1 .. n) /\ i \in 1 .. i /\ i - 1 \in Nat /\ (i - 1) + 1 = i
    OBVIOUS
  <2>2. Max(1 .. i) = i
    BY <2>1, GreatestOfRange
  <2>3. (1 .. i) \ {i} = 1 .. i - 1 /\ 1 .. i # {}
    BY <2>1
  <2>4. f[1 .. i] = Step(f[(1 .. i) \ {Max(1 .. i)}], seq[Max(1 .. i)], kind)
    BY <1>1, <2>1, <2>3
  <2> QED
    BY <2>2, <2>3, <2>4
<1> QED
  BY <1>2, <1>3

LEMMA FoldOfNothing ==
  ASSUME NEW start, NEW kind \in Kinds
  PROVE  Folded(start, <<>>, kind) = start
<1>1. PICK seq : seq = <<>>
  OBVIOUS
<1>2. DOMAIN seq = 1 .. 0 /\ 1 .. 0 = {}
  BY <1>1
<1>3. PICK f : IsFold(f, start, seq, 0, kind) /\ Folded(start, seq, kind) = f[1 .. 0]
  BY <1>2, FoldIsLast
<1>4. f = [s \in SUBSET (1 .. 0) |->
             IF s = {} THEN start ELSE Step(f[s \ {Max(s)}], seq[Max(s)], kind)]
  BY <1>3 DEF IsFold
<1>5. f[{}] = start
  <2>1. {} \in SUBSET (1 .. 0)
    OBVIOUS
  <2> QED
    BY <1>4, <2>1
<1> QED
  BY <1>1, <1>2, <1>3, <1>5

LEMMA FoldOfOneMore ==
  ASSUME NEW start, NEW S, NEW seq \in Seq(S), NEW x \in S, NEW kind \in Kinds
  PROVE  Folded(start, Append(seq, x), kind) = Step(Folded(start, seq, kind), x, kind)
<1> DEFINE n == Len(seq)
           more == Append(seq, x)
<1>1. /\ n \in Nat /\ n + 1 \in Nat /\ (n + 1) - 1 = n
      /\ DOMAIN seq = 1 .. n /\ DOMAIN more = 1 .. n + 1
      /\ \A i \in 1 .. n : more[i] = seq[i]
      /\ more[n + 1] = x
  OBVIOUS
<1> HIDE DEF more, n
<1>2. PICK f : IsFold(f, start, seq, n, kind) /\ Folded(start, seq, kind) = f[1 .. n]
  BY <1>1, FoldIsLast
<1>3. PICK g : IsFold(g, start, more, n + 1, kind) /\ Folded(start, more, kind) = g[1 .. n + 1]
  BY <1>1, FoldIsLast
<1> DEFINE T == {i \in 0 .. n : f[1 .. i] = g[1 .. i]}
<1>4. /\ f[{}] = start
      /\ \A i \in 1 .. n : f[1 .. i] = Step(f[1 .. i - 1], seq[i], kind)
  BY <1>1, <1>2, FoldOnTheWay
<1>5. /\ g[{}] = start
      /\ \A i \in 1 .. n + 1 : g[1 .. i] = Step(g[1 .. i - 1], more[i], kind)
  BY <1>1, <1>3, FoldOnTheWay
<1>6. 0 \in T
  <2>1. 1 .. 0 = {} /\ 0 \in 0 .. n
    BY <1>1
  <2> QED
    BY <1>4, <1>5, <2>1
<1>7. ASSUME NEW i \in 0 .. n - 1, i \in T
      PROVE  i + 1 \in T
  <2>1. /\ i + 1 \in 1 .. n /\ i + 1 \in 1 .. n + 1 /\ i + 1 \in 0 .. n
        /\ (i + 1) - 1 = i
    BY <1>1
  <2> QED
    BY <1>1, <1>4, <1>5, <1>7, <2>1
<1> HIDE DEF T
<1>8. n \in T
  BY <1>1, <1>6, <1>7, RangeInduction
<1>9. g[1 .. n + 1] = Step(g[1 .. n], x, kind) /\ f[1 .. n] = g[1 .. n]
  BY <1>1, <1>5, <1>8 DEF T
<1> QED
  BY <1>2, <1>3, <1>9 DEF more

-----------------------------------------------------------------------------
\* Paths

Elements == Names \cup Nat

\* A path and the element in front of it.
LEMMA PathProperties ==
  ASSUME NEW p \in Seq(Elements), NEW x \in Elements
  PROVE  /\ Append(p, x) \in Seq(Elements) /\ Append(p, x) # Root
         /\ Len(Append(p, x)) = Len(p) + 1 /\ Append(p, x) # p
         /\ Front(Append(p, x)) = p /\ Last(Append(p, x)) = x
<1> DEFINE n == Len(p)
           q == Append(p, x)
<1>1. /\ n \in Nat /\ q \in Seq(Elements) /\ Len(q) = n + 1
      /\ \A i \in 1 .. n : q[i] = p[i]
      /\ q[n + 1] = x
  OBVIOUS
<1>2. Front(q) = SubSeq(q, 1, n) /\ Last(q) = q[n + 1]
  BY <1>1 DEF Front, Last
<1>3. SubSeq(q, 1, n) = p
  <2>1. /\ SubSeq(q, 1, n) \in Seq(Elements) /\ Len(SubSeq(q, 1, n)) = n
        /\ \A i \in 1 .. n : SubSeq(q, 1, n)[i] = q[i]
    BY <1>1
  <2> HIDE DEF q
  <2> QED
    BY <1>1, <2>1, SeqEqual
<1>4. q # Root /\ q # p
  BY <1>1 DEF Root
<1> QED
  BY <1>1, <1>2, <1>3, <1>4

LEMMA PathSplits ==
  ASSUME NEW p \in Seq(Elements), p # Root
  PROVE  /\ Front(p) \in Seq(Elements) /\ Last(p) \in Elements
         /\ p = Append(Front(p), Last(p))
<1>1. PICK q \in Seq(Elements), x \in Elements : p = Append(q, x)
  BY SequenceEmptyOrAppend DEF Root
<1>2. Front(p) = q /\ Last(p) = x
  BY <1>1, PathProperties
<1> QED
  BY <1>1, <1>2

-----------------------------------------------------------------------------
\* Trees

IsTree(t) ==
  /\ t \in [DOMAIN t -> ElementTypes]
  /\ DOMAIN t \subseteq Seq(Elements)
  /\ Root \in DOMAIN t
  /\ \A p \in DOMAIN t : t[p] = "document" <=> p = Root

\* What an element tells about the element in which it is.
Fits(t, p) ==
  /\ Front(p) \in DOMAIN t
  /\ t[Front(p)] # "value"
  /\ t[p] = "value" => t[Front(p)] # "intermediate"
  /\ Last(p) \in Nat <=> t[Front(p)] = "list"
  /\ Last(p) \in TextNames => t[Front(p)] = "texts"
  /\ Last(p) \in RegularNames => t[Front(p)] # "texts"
  /\ Last(p) \in MetaNames => t[p] = "value"
  /\ Last(p) \in Nat => t[p] \in {"names", "texts"}
  /\ t[p] = "list" => Last(p) \in RegularNames

Numbered(t, p, n) == Children(t, p) = {Append(p, i) : i \in 1 .. n}

\* The invariant of a tree while a section list is being made.
TreeInv(t) ==
  /\ IsTree(t)
  /\ \A p \in DOMAIN t \ {Root} : Fits(t, p)
  /\ \A p \in DOMAIN t : t[p] = "list" => \E n \in Nat : Numbered(t, p, n)

NoEmptyList(t) == \A p \in DOMAIN t : t[p] = "list" => Children(t, p) # {}

LEMMA ChildrenOf ==
  ASSUME NEW t, IsTree(t), NEW p \in Seq(Elements), NEW q
  PROVE  q \in Children(t, p) <=>
           q \in DOMAIN t /\ \E x \in Elements : q = Append(p, x)
<1>1. ASSUME q \in Children(t, p)
      PROVE  q \in DOMAIN t /\ \E x \in Elements : q = Append(p, x)
  BY <1>1, PathSplits DEF Children, IsTree
<1>2. ASSUME q \in DOMAIN t, NEW x \in Elements, q = Append(p, x)
      PROVE  q \in Children(t, p)
  BY <1>2, PathProperties DEF Children
<1> QED
  BY <1>1, <1>2

\* The elements of a list are counted by their numbers.
LEMMA CountOfNumbered ==
  ASSUME NEW t, NEW p \in Seq(Elements), NEW n \in Nat, Numbered(t, p, n)
  PROVE  Cardinality(Children(t, p)) = n
<1> DEFINE f == [i \in 1 .. n |-> Append(p, i)]
           S == {Append(p, i) : i \in 1 .. n}
<1>1. ASSUME NEW i \in 1 .. n, NEW j \in 1 .. n, Append(p, i) = Append(p, j)
      PROVE  i = j
  <2>1. i \in Elements /\ j \in Elements
    BY DEF Elements
  <2> QED
    BY <1>1, <2>1, PathProperties
<1>2. f \in [1 .. n -> S] /\ \A i \in 1 .. n : f[i] = Append(p, i)
  OBVIOUS
<1>3. f \in Bijection(1 .. n, S)
  <2> HIDE DEF f
  <2>1. \A i, j \in 1 .. n : f[i] = f[j] => i = j
    BY <1>1, <1>2
  <2>2. \A q \in S : \E i \in 1 .. n : f[i] = q
    BY <1>2
  <2> HIDE DEF S
  <2> QED
    BY <1>2, <2>1, <2>2 DEF Bijection, Injection, Surjection, IsInjective
<1>4. IsFiniteSet(1 .. n) /\ Cardinality(1 .. n) = n
  <2>1. 1 \in Int /\ n \in Int /\ (IF 1 > n THEN 0 ELSE n - 1 + 1) = n
    OBVIOUS
  <2> QED
    BY <2>1, FS_Interval
<1>5. ExistsBijection(1 .. n, S)
  BY <1>3, Zenon DEF ExistsBijection
<1>6. Cardinality(S) = n
  BY <1>4, <1>5, FS_Bijection
<1> QED
  BY <1>6 DEF Numbered

LEMMA RootIsAPath == Root \in Seq(Elements)
BY DEF Root

\* A new element: the tree that AddChildValue makes.
Grow(t, p, x, type) ==
  [path \in DOMAIN t \cup {Append(p, x)} |->
     CASE path = Append(p, x) -> type
       [] path = p /\ x \in TextNames -> "texts"
       [] OTHER -> t[path]]

\* What it takes to make it.
MayGrow(t, p, x, type) ==
  /\ p \in DOMAIN t /\ Append(p, x) \notin DOMAIN t
  /\ type \in ElementTypes \ {"document"}
  /\ t[p] # "value"
  /\ t[p] = "list" => type = "names" /\ x \in Nat /\ Numbered(t, p, x - 1) /\ x # 0
  /\ t[p] # "list" => x \in Names
  /\ type = "value" => t[p] # "intermediate"
  /\ x \in MetaNames => type = "value"
  /\ type = "list" => x \in RegularNames
  /\ x \in TextNames =>
       /\ p # Root
       /\ t[p] \in {"intermediate", "names"} => Children(t, p) = {}
  /\ x \in RegularNames => t[p] # "texts"

\* What is kept of a tree: no element is lost, and a type only changes while
\* nothing is lost by it.
Kept(t, t2) ==
  \A p \in DOMAIN t :
    /\ p \in DOMAIN t2
    /\ \/ t2[p] = t[p]
       \/ t[p] = "intermediate" /\ t2[p] = "names"
       \/ /\ t[p] \in {"intermediate", "names"}
          /\ t2[p] = "texts"
          /\ Children(t, p) = {}

\* The tree t2 is the tree t with the new element.
Grown(t2, t, p, x, type) ==
  /\ p \in Seq(Elements) /\ x \in Elements
  /\ Append(p, x) \in Seq(Elements) /\ Append(p, x) # Root /\ Append(p, x) # p
  /\ Front(Append(p, x)) = p /\ Last(Append(p, x)) = x
  /\ DOMAIN t2 = DOMAIN t \cup {Append(p, x)}
  /\ t2[Append(p, x)] = type
  /\ \A q \in DOMAIN t : t2[q] = IF q = p /\ x \in TextNames THEN "texts" ELSE t[q]
  /\ x \in TextNames =>
       \/ t[p] = "texts"
       \/ t[p] \in {"intermediate", "names"} /\ Children(t, p) = {}

LEMMA GrowBasics ==
  ASSUME NEW t, TreeInv(t), NEW p, NEW x, NEW type, MayGrow(t, p, x, type)
  PROVE  Grown(Grow(t, p, x, type), t, p, x, type)
<1>1. p \in Seq(Elements) /\ x \in Elements
  BY DEF TreeInv, IsTree, MayGrow, Elements
<1>2. /\ Append(p, x) \in Seq(Elements) /\ Append(p, x) # Root /\ Append(p, x) # p
      /\ Front(Append(p, x)) = p /\ Last(Append(p, x)) = x
  BY <1>1, PathProperties
<1>3. DOMAIN Grow(t, p, x, type) = DOMAIN t \cup {Append(p, x)}
  BY DEF Grow
<1>4. Grow(t, p, x, type)[Append(p, x)] = type
  BY <1>2 DEF Grow
<1>5. ASSUME NEW q \in DOMAIN t
      PROVE  Grow(t, p, x, type)[q] = IF q = p /\ x \in TextNames THEN "texts" ELSE t[q]
  <2>1. q # Append(p, x)
    BY DEF MayGrow
  <2> QED
    BY <2>1 DEF Grow
<1>6. ASSUME x \in TextNames
      PROVE  \/ t[p] = "texts"
             \/ t[p] \in {"intermediate", "names"} /\ Children(t, p) = {}
  <2>1. x \notin Nat
    BY <1>6, NamesAssumption
  <2>2. t[p] \in ElementTypes /\ t[p] \notin {"list", "value", "document"}
    BY <1>6, <2>1 DEF MayGrow, TreeInv, IsTree
  <2> QED
    BY <1>6, <2>2 DEF MayGrow, ElementTypes, MapTypes
<1> QED
  BY <1>1, <1>2, <1>3, <1>4, <1>5, <1>6 DEF Grown

LEMMA GrowChildren ==
  ASSUME NEW t, TreeInv(t), NEW p, NEW x, NEW type, MayGrow(t, p, x, type)
  PROVE  LET t2 == Grow(t, p, x, type) IN
         /\ \A q : q # p => Children(t2, q) = Children(t, q)
         /\ Children(t2, p) = Children(t, p) \cup {Append(p, x)}
         /\ Children(t2, Append(p, x)) = {}
<1> DEFINE child == Append(p, x)
           t2 == Grow(t, p, x, type)
<1>1. /\ child # Root /\ Front(child) = p /\ child # p /\ child \notin DOMAIN t
      /\ DOMAIN t2 = DOMAIN t \cup {child}
  <2>1. child \notin DOMAIN t
    BY DEF MayGrow
  <2>2. Grown(t2, t, p, x, type)
    BY GrowBasics
  <2> QED
    BY <2>1, <2>2 DEF Grown
<1>2. ASSUME NEW q \in DOMAIN t \ {Root}
      PROVE  Front(q) \in DOMAIN t
  BY DEF TreeInv, Fits
<1> HIDE DEF t2, child
<1>3. \A q : q # p => Children(t2, q) = Children(t, q)
  BY <1>1 DEF Children
<1>4. Children(t2, p) = Children(t, p) \cup {child}
  BY <1>1 DEF Children
<1>5. Children(t2, child) = {}
  BY <1>1, <1>2 DEF Children
<1> QED
  BY <1>3, <1>4, <1>5 DEF t2, child

LEMMA GrowKeeps ==
  ASSUME NEW t, TreeInv(t), NEW p, NEW x, NEW type, MayGrow(t, p, x, type)
  PROVE  Kept(t, Grow(t, p, x, type))
<1> DEFINE t2 == Grow(t, p, x, type)
<1>1. /\ \A q \in DOMAIN t : t2[q] = IF q = p /\ x \in TextNames THEN "texts" ELSE t[q]
      /\ DOMAIN t \subseteq DOMAIN t2
      /\ x \in TextNames =>
           \/ t[p] = "texts"
           \/ t[p] \in {"intermediate", "names"} /\ Children(t, p) = {}
  <2>1. Grown(t2, t, p, x, type)
    BY GrowBasics
  <2> QED
    BY <2>1 DEF Grown
<1> HIDE DEF t2
<1>2. Kept(t, t2)
  BY <1>1 DEF Kept
<1> QED
  BY <1>2 DEF t2

LEMMA GrowPreserves ==
  ASSUME NEW t, TreeInv(t), NEW p, NEW x, NEW type, MayGrow(t, p, x, type)
  PROVE  TreeInv(Grow(t, p, x, type))
<1> DEFINE child == Append(p, x)
           t2 == Grow(t, p, x, type)
<1>1. /\ p \in Seq(Elements) /\ x \in Elements
      /\ child \in Seq(Elements) /\ child # Root /\ child # p
      /\ Front(child) = p /\ Last(child) = x
      /\ DOMAIN t2 = DOMAIN t \cup {child}
      /\ t2[child] = type
      /\ \A q \in DOMAIN t :
           t2[q] = IF q = p /\ x \in TextNames THEN "texts" ELSE t[q]
      /\ x \in TextNames =>
           \/ t[p] = "texts"
           \/ t[p] \in {"intermediate", "names"} /\ Children(t, p) = {}
  <2>1. Grown(t2, t, p, x, type)
    BY GrowBasics
  <2> HIDE DEF t2
  <2> QED
    BY <2>1 DEF Grown
<1>2. /\ \A q : q # p => Children(t2, q) = Children(t, q)
      /\ Children(t2, p) = Children(t, p) \cup {child}
      /\ Children(t2, child) = {}
  BY GrowChildren
<1>3. /\ t \in [DOMAIN t -> ElementTypes] /\ DOMAIN t \subseteq Seq(Elements)
      /\ Root \in DOMAIN t /\ \A q \in DOMAIN t : t[q] = "document" <=> q = Root
      /\ p \in DOMAIN t /\ child \notin DOMAIN t
      /\ type \in ElementTypes /\ type # "document"
      /\ x \in TextNames => p # Root
  BY DEF TreeInv, IsTree, MayGrow
<1>4. IsTree(t2)
  <2>1. t2 \in [DOMAIN t2 -> ElementTypes]
    <3>1. \A q \in DOMAIN t2 : t2[q] \in ElementTypes
      BY <1>1, <1>3 DEF ElementTypes, MapTypes
    <3>2. t2 = [q \in DOMAIN t2 |-> t2[q]]
      BY DEF Grow
    <3> HIDE DEF t2
    <3> QED
      BY <3>1, <3>2
  <2> HIDE DEF t2, child
  <2>2. DOMAIN t2 \subseteq Seq(Elements) /\ Root \in DOMAIN t2
    BY <1>1, <1>3
  <2>3. \A q \in DOMAIN t2 : t2[q] = "document" <=> q = Root
    BY <1>1, <1>3
  <2> QED
    BY <2>1, <2>2, <2>3 DEF IsTree
<1> HIDE DEF t2, child
<1>5. ASSUME NEW q \in DOMAIN t2 \ {Root}
      PROVE  Fits(t2, q)
  <2>1. CASE q = child
    <3>1. /\ t[p] # "value"
          /\ t[p] = "list" => type = "names" /\ x \in Nat
          /\ t[p] # "list" => x \in Names
          /\ type = "value" => t[p] # "intermediate"
          /\ x \in MetaNames => type = "value"
          /\ type = "list" => x \in RegularNames
          /\ x \in RegularNames => t[p] # "texts"
      BY DEF MayGrow
    <3>2. \A y : y \in Names => y \notin Nat
      BY NamesAssumption DEF Names
    <3>3. x \in RegularNames => x \in Names /\ x \notin TextNames
      BY NamesAssumption DEF Names
    <3>4. x \in TextNames => x \in Names
      BY DEF Names
    <3>5. t2[p] = IF x \in TextNames THEN "texts" ELSE t[p]
      BY <1>1, <1>3
    <3> QED
      BY <1>1, <1>3, <2>1, <3>1, <3>2, <3>3, <3>4, <3>5 DEF Fits
  <2>2. CASE q # child
    <3>1. q \in DOMAIN t /\ q # Root /\ Fits(t, q)
      BY <1>1, <2>2 DEF TreeInv
    <3>2. /\ Front(q) \in DOMAIN t
          /\ t2[q] = IF q = p /\ x \in TextNames THEN "texts" ELSE t[q]
          /\ t2[Front(q)] = IF Front(q) = p /\ x \in TextNames THEN "texts" ELSE t[Front(q)]
      BY <1>1, <3>1 DEF Fits
    <3>3. Front(q) = p => q \in Children(t, p)
      BY <3>1 DEF Children
    <3>4. CASE Front(q) = p /\ x \in TextNames
      <4>1. t[p] = "texts"
        BY <1>1, <3>3, <3>4
      <4>2. q # p
        BY <1>3, <3>1, <3>4, PathSplits, PathProperties
      <4> QED
        BY <1>1, <3>1, <3>2, <3>4, <4>1, <4>2 DEF Fits
    <3>5. CASE ~(Front(q) = p /\ x \in TextNames)
      <4>1. t2[Front(q)] = t[Front(q)]
        BY <3>2, <3>5
      <4>2. CASE q = p /\ x \in TextNames
        <5>1. t[p] \in {"texts", "intermediate", "names"} /\ t2[q] = "texts"
          BY <1>1, <3>2, <4>2
        <5>2. Last(q) \notin MetaNames
          BY <3>1, <4>2, <5>1 DEF Fits
        <5> QED
          BY <1>1, <3>1, <3>2, <4>1, <4>2, <5>1, <5>2 DEF Fits
      <4>3. CASE ~(q = p /\ x \in TextNames)
        BY <1>1, <3>1, <3>2, <4>1, <4>3 DEF Fits
      <4> QED
        BY <4>2, <4>3
    <3> QED
      BY <3>4, <3>5
  <2> QED
    BY <2>1, <2>2
<1>6. ASSUME NEW q \in DOMAIN t2, t2[q] = "list"
      PROVE  \E n \in Nat : Numbered(t2, q, n)
  <2>1. CASE q = child
    <3>1. Numbered(t2, q, 0)
      BY <1>2, <2>1 DEF Numbered
    <3> QED
      BY <3>1
  <2>2. CASE q # child
    <3>1. q \in DOMAIN t /\ t[q] = "list"
      BY <1>1, <1>6, <2>2
    <3>2. CASE q = p
      <4>1. Children(t, p) = {Append(p, i) : i \in 1 .. x - 1} /\ x \in Nat \ {0}
        BY <3>1, <3>2 DEF MayGrow, Numbered
      <4>2. \A i : i \in 1 .. x <=> i \in 1 .. x - 1 \/ i = x
        BY <4>1
      <4>3. Children(t2, p) = {Append(p, i) : i \in 1 .. x}
        BY <1>2, <4>1, <4>2 DEF child
      <4> QED
        BY <3>2, <4>1, <4>3 DEF Numbered
    <3>3. CASE q # p
      <4>1. PICK n \in Nat : Numbered(t, q, n)
        BY <3>1 DEF TreeInv
      <4> QED
        BY <1>2, <3>3, <4>1 DEF Numbered
    <3> QED
      BY <3>2, <3>3
  <2> QED
    BY <2>1, <2>2
<1>7. TreeInv(t2)
  BY <1>4, <1>5, <1>6 DEF TreeInv
<1> QED
  BY <1>7 DEF t2

-----------------------------------------------------------------------------
\* Walks

Sound(t) == TreeInv(t) /\ NoEmptyList(t)

At(t, at) == [tree |-> t, at |-> at, error |-> "ok"]
Refused(t, at, error) == [tree |-> t, at |-> at, error |-> error]

\* The walk along the names, in a tree that has them all, ends at this element.
Leads(t, names, at) == Folded(At(t, Root), names, "existing") = At(t, at)

LEMMA NamePathOfRoot == NamePathOf(Root) = <<>>
<1>1. Folded(<<>>, <<>>, "names") = <<>>
  BY FoldOfNothing DEF Kinds
<1> QED
  BY <1>1 DEF Folded, NamePathOf, Root

LEMMA NamePathGrows ==
  ASSUME NEW p \in Seq(Elements), NEW x \in Elements
  PROVE  NamePathOf(Append(p, x)) = AddName(NamePathOf(p), x)
<1>1. Folded(<<>>, Append(p, x), "names") = Step(Folded(<<>>, p, "names"), x, "names")
  BY FoldOfOneMore DEF Kinds
<1> QED
  BY <1>1 DEF Folded, Step, NamePathOf

\* Where a step along an existing name ends.
Entered(t, at, name, q) ==
  LET path == Append(at, name) IN
  /\ q \in DOMAIN t /\ t[q] \in MapTypes
  /\ NamePathOf(q) = Append(NamePathOf(at), name)
  /\ \/ q = path /\ t[path] \notin {"list", "value"}
     \/ t[path] = "list" /\ q = Append(path, Cardinality(Children(t, path)))

LEMMA EnterLeads ==
  ASSUME NEW t, Sound(t), NEW at \in DOMAIN t, NEW name \in Names, Append(at, name) \in DOMAIN t
  PROVE  \/ Enter(At(t, at), Append(at, name)) = Refused(t, at, "NameConflict")
         \/ \E q : Enter(At(t, at), Append(at, name)) = At(t, q) /\ Entered(t, at, name, q)
<1> DEFINE path == Append(at, name)
<1>1. at \in Seq(Elements) /\ name \in Elements /\ path \in Seq(Elements) /\ path # Root
  BY PathProperties DEF Sound, TreeInv, IsTree, Elements
<1>2. NamePathOf(path) = Append(NamePathOf(at), name)
  BY <1>1, NamePathGrows DEF AddName
<1>3. t[path] \in ElementTypes
  BY DEF Sound, TreeInv, IsTree
<1>4. Last(path) = name /\ Front(path) = at
  BY <1>1, PathProperties
<1> HIDE DEF path
<1>5. CASE t[path] = "list"
  <2>1. PICK n \in Nat : Numbered(t, path, n)
    BY <1>5, path \in DOMAIN t DEF Sound, TreeInv, path
  <2>2. Cardinality(Children(t, path)) = n
    BY <1>1, <2>1, CountOfNumbered
  <2>3. Children(t, path) # {}
    BY <1>5, path \in DOMAIN t DEF Sound, NoEmptyList, path
  <2>4. n \in 1 .. n
    BY <2>1, <2>3 DEF Numbered
  <2>5. Append(path, n) \in Children(t, path)
    BY <2>1, <2>4 DEF Numbered
  <2>6. Append(path, n) \in DOMAIN t \ {Root}
    BY <2>5 DEF Children
  <2>7. n \in Elements /\ n \notin Names
    BY <2>1, NamesAssumption DEF Elements, Names
  <2>8. Last(Append(path, n)) = n
    BY <1>1, <2>7, PathProperties
  <2>9. t[Append(path, n)] \in MapTypes
    BY <2>1, <2>6, <2>8 DEF Sound, TreeInv, Fits, MapTypes
  <2>10. NamePathOf(Append(path, n)) = NamePathOf(path)
    BY <1>1, <2>7, NamePathGrows DEF AddName
  <2>11. Enter(At(t, at), path) = At(t, Append(path, n))
    BY <1>5, <2>2 DEF Enter, At
  <2>12. Entered(t, at, name, Append(path, n))
    BY <1>2, <1>5, <2>2, <2>6, <2>9, <2>10 DEF Entered, path
  <2> QED
    BY <2>11, <2>12 DEF path
<1>6. CASE t[path] = "value"
  <2>1. Enter(At(t, at), path) = Refused(t, at, "NameConflict")
    BY <1>6 DEF Enter, At, Refused
  <2> QED
    BY <2>1 DEF path
<1>7. CASE t[path] \notin {"list", "value"}
  <2>1. Enter(At(t, at), path) = At(t, path)
    BY <1>7 DEF Enter, At
  <2>2. t[path] \in MapTypes /\ path \in DOMAIN t
    BY <1>3, <1>7 DEF ElementTypes, path
  <2>3. Entered(t, at, name, path)
    BY <1>2, <1>7, <2>2 DEF Entered, path
  <2> QED
    BY <2>1, <2>3 DEF path
<1> QED
  BY <1>5, <1>6, <1>7

\* What is known of a walk along the names in a tree.
Walked(w, t, names) ==
  /\ w = Refused(t, w.at, w.error)
  /\ w.error \in {"ok", "Syntax", "NameConflict"}
  /\ w.error = "ok" => w.at \in DOMAIN t /\ t[w.at] \in MapTypes /\ NamePathOf(w.at) = names

LEMMA WalkStarts ==
  ASSUME NEW t, Sound(t)
  PROVE  Walked(At(t, Root), t, <<>>) /\ Leads(t, <<>>, Root)
<1>1. NamePathOf(Root) = <<>>
  BY NamePathOfRoot
<1>2. Folded(At(t, Root), <<>>, "existing") = At(t, Root)
  BY FoldOfNothing DEF Kinds
<1>3. Root \in DOMAIN t /\ t[Root] = "document"
  BY DEF Sound, TreeInv, IsTree
<1> QED
  BY <1>1, <1>2, <1>3 DEF Walked, At, Refused, Leads, MapTypes

LEMMA WalkGoesOn ==
  ASSUME NEW names \in Seq(Names), NEW name \in Names, NEW t
  PROVE  Folded(At(t, Root), Append(names, name), "existing")
           = EnterExisting(Folded(At(t, Root), names, "existing"), name)
<1>1. Folded(At(t, Root), Append(names, name), "existing")
        = Step(Folded(At(t, Root), names, "existing"), name, "existing")
  BY FoldOfOneMore DEF Kinds
<1> QED
  BY <1>1 DEF Step

LEMMA ExistingStep ==
  ASSUME NEW t, Sound(t), NEW names \in Seq(Names), NEW name \in Names,
         NEW w, Walked(w, t, names)
  PROVE  Walked(EnterExisting(w, name), t, Append(names, name))
<1> DEFINE v == EnterExisting(w, name)
<1>1. CASE Failed(w)
  <2>1. v = w
    BY <1>1 DEF EnterExisting
  <2> QED
    BY <1>1, <2>1 DEF Failed, Walked
<1>2. CASE ~Failed(w)
  <2>1. w = At(t, w.at) /\ w.at \in DOMAIN t /\ NamePathOf(w.at) = names /\ w.tree = t
    BY <1>2 DEF Walked, Failed, At, Refused
  <2>2. CASE Append(w.at, name) \in DOMAIN t
    <3>1. v = Enter(At(t, w.at), Append(w.at, name))
      BY <1>2, <2>1, <2>2 DEF EnterExisting
    <3>2. CASE v = Refused(t, w.at, "NameConflict")
      BY <3>2 DEF Walked, Refused
    <3>3. CASE \E q : v = At(t, q) /\ Entered(t, w.at, name, q)
      BY <2>1, <3>3 DEF Walked, At, Refused, Entered
    <3> QED
      BY <2>1, <2>2, <3>1, <3>2, <3>3, EnterLeads
  <2>3. CASE Append(w.at, name) \notin DOMAIN t
    <3>1. v = Refused(t, w.at, "Syntax")
      BY <1>2, <2>1, <2>3 DEF EnterExisting, At, Refused, Failed
    <3> QED
      BY <3>1 DEF Walked, Refused
  <2> QED
    BY <2>2, <2>3
<1> QED
  BY <1>1, <1>2

LEMMA ExistingWalk ==
  ASSUME NEW t, Sound(t), NEW names \in Seq(Names)
  PROVE  Walked(Folded(At(t, Root), names, "existing"), t, names)
<1> DEFINE G == {s \in Seq(Names) : Walked(Folded(At(t, Root), s, "existing"), t, s)}
<1>1. <<>> \in G
  <2>1. Folded(At(t, Root), <<>>, "existing") = At(t, Root)
    BY FoldOfNothing DEF Kinds
  <2> QED
    BY <2>1, WalkStarts
<1>2. ASSUME NEW s \in Seq(Names), NEW name \in Names, s \in G
      PROVE  Append(s, name) \in G
  BY <1>2, WalkGoesOn, ExistingStep
<1> HIDE DEF G
<1>3. names \in G
  BY <1>1, <1>2, PrefixInduction
<1> QED
  BY <1>3 DEF G

\* A walk that leads somewhere leads to a container with these names.
LEMMA LeadsToContainer ==
  ASSUME NEW t, Sound(t), NEW names \in Seq(Names), NEW at, Leads(t, names, at)
  PROVE  at \in DOMAIN t /\ t[at] \in MapTypes /\ NamePathOf(at) = names
<1>1. Walked(At(t, at), t, names)
  BY ExistingWalk DEF Leads
<1> QED
  BY <1>1 DEF Walked, At

\* A walk that leads somewhere came from a container.
LEMMA LeadsBefore ==
  ASSUME NEW t, Sound(t), NEW names \in Seq(Names), NEW name \in Names, NEW q,
         Leads(t, Append(names, name), q)
  PROVE  \E at \in DOMAIN t :
           /\ Leads(t, names, at)
           /\ Append(at, name) \in DOMAIN t
           /\ Enter(At(t, at), Append(at, name)) = At(t, q)
           /\ Entered(t, at, name, q)
<1> DEFINE w == Folded(At(t, Root), names, "existing")
<1>1. Walked(w, t, names)
  BY ExistingWalk
<1>2. EnterExisting(w, name) = At(t, q)
  BY WalkGoesOn DEF Leads
<1>3. Leads(t, names, w.at) <=> w = At(t, w.at)
  BY DEF Leads
<1> HIDE DEF w
<1>4. ~Failed(w)
  BY <1>2 DEF EnterExisting, At, Failed
<1>5. w = At(t, w.at) /\ w.at \in DOMAIN t /\ w.tree = t
  BY <1>1, <1>4 DEF Walked, At, Refused, Failed
<1>6. Append(w.at, name) \in DOMAIN t
  <2>1. Append(w.at, name) \notin DOMAIN t => [w EXCEPT !.error = "Syntax"] = At(t, q)
    BY <1>2, <1>4, <1>5 DEF EnterExisting
  <2>2. [w EXCEPT !.error = "Syntax"].error = "Syntax" /\ At(t, q).error = "ok"
    BY <1>5 DEF At
  <2> QED
    BY <2>1, <2>2
<1>7. Enter(At(t, w.at), Append(w.at, name)) = At(t, q)
  BY <1>2, <1>4, <1>5, <1>6 DEF EnterExisting
<1>8. Entered(t, w.at, name, q)
  <2>1. At(t, q) # Refused(t, w.at, "NameConflict")
    BY DEF At, Refused
  <2>2. \A r : At(t, q) = At(t, r) => q = r
    BY DEF At
  <2> QED
    BY <1>5, <1>6, <1>7, <2>1, <2>2, EnterLeads
<1> QED
  BY <1>3, <1>5, <1>6, <1>7, <1>8

\* The lists above a depth have the elements they had.
SameLists(t, t2, depth) ==
  \A p \in DOMAIN t : t[p] = "list" /\ Len(p) < depth => Children(t2, p) = Children(t, p)

\* What is kept of a tree leads where it led.
LEMMA LeadsLater ==
  ASSUME NEW t, Sound(t), NEW t2, Kept(t, t2), Root \in DOMAIN t2,
         NEW depth \in Nat, SameLists(t, t2, depth),
         NEW names \in Seq(Names), NEW at, Leads(t, names, at), Len(at) <= depth
  PROVE  Leads(t2, names, at)
<1> DEFINE G == {s \in Seq(Names) :
                   \A q : Leads(t, s, q) /\ Len(q) <= depth => Leads(t2, s, q)}
<1>1. <<>> \in G
  <2>1. /\ Folded(At(t, Root), <<>>, "existing") = At(t, Root)
        /\ Folded(At(t2, Root), <<>>, "existing") = At(t2, Root)
    BY FoldOfNothing DEF Kinds
  <2>2. \A q : At(t, Root) = At(t, q) => q = Root
    BY DEF At
  <2> QED
    BY <2>1, <2>2 DEF Leads
<1>2. ASSUME NEW s \in Seq(Names), NEW name \in Names, s \in G,
             NEW q, Leads(t, Append(s, name), q), Len(q) <= depth
      PROVE  Leads(t2, Append(s, name), q)
  <2>1. PICK p \in DOMAIN t : /\ Leads(t, s, p)
                              /\ Append(p, name) \in DOMAIN t
                              /\ Enter(At(t, p), Append(p, name)) = At(t, q)
                              /\ Entered(t, p, name, q)
    BY <1>2, LeadsBefore
  <2> DEFINE path == Append(p, name)
  <2>2. /\ p \in Seq(Elements) /\ Len(p) \in Nat /\ path \in Seq(Elements)
        /\ Len(path) = Len(p) + 1 /\ q \in DOMAIN t /\ q \in Seq(Elements) /\ Len(q) \in Nat
    <3>1. p \in Seq(Elements) /\ q \in DOMAIN t /\ q \in Seq(Elements) /\ name \in Elements
      BY <2>1 DEF Sound, TreeInv, IsTree, Entered, Elements
    <3> QED
      BY <3>1, PathProperties
  <2>3. EnterExisting(At(t2, p), name) = Enter(At(t2, p), path)
    BY <2>1 DEF EnterExisting, Kept, At, Failed
  <2>4. path \in DOMAIN t2 /\ (t2[path] = t[path] \/ {t[path], t2[path]} \cap {"list", "value"} = {})
    BY <2>1 DEF Kept
  <2>5. CASE t[path] = "list"
    <3>1. q = Append(path, Cardinality(Children(t, path)))
      BY <2>1, <2>5 DEF Entered
    <3>2. Len(q) = Len(path) + 1
      BY <2>2, <3>1
    <3>3. Len(p) <= depth /\ Len(path) < depth
      BY <1>2, <2>2, <3>2
    <3>4. Children(t2, path) = Children(t, path)
      BY <2>1, <2>5, <3>3 DEF SameLists
    <3>5. t2[path] = "list"
      BY <2>4, <2>5
    <3>6. Enter(At(t2, p), path) = At(t2, q)
      BY <3>1, <3>4, <3>5 DEF Enter, At
    <3>7. Leads(t2, s, p)
      BY <1>2, <2>1, <3>3
    <3> QED
      BY <2>3, <3>6, <3>7, WalkGoesOn DEF Leads
  <2>6. CASE t[path] # "list"
    <3>1. q = path /\ t[path] \notin {"list", "value"}
      BY <2>1, <2>6 DEF Entered
    <3>2. Len(p) <= depth
      BY <1>2, <2>2, <3>1
    <3>3. t2[path] \notin {"list", "value"}
      BY <2>4, <3>1
    <3>4. Enter(At(t2, p), path) = At(t2, q)
      BY <3>1, <3>3 DEF Enter, At
    <3>5. Leads(t2, s, p)
      BY <1>2, <2>1, <3>2
    <3> QED
      BY <2>3, <3>4, <3>5, WalkGoesOn DEF Leads
  <2> QED
    BY <2>5, <2>6
<1>3. \A s \in Seq(Names), name \in Names : s \in G => Append(s, name) \in G
  BY <1>2
<1> HIDE DEF G
<1>4. names \in G
  BY <1>1, <1>3, PrefixInduction
<1> QED
  BY <1>4 DEF G

\* A tree to which elements were added, but not to its lists.
Later(t, t2) ==
  /\ Kept(t, t2)
  /\ \A p \in DOMAIN t : t[p] = "list" => Children(t2, p) = Children(t, p)

LEMMA LaterLeads ==
  ASSUME NEW t, Sound(t), NEW t2, Later(t, t2),
         NEW names \in Seq(Names), NEW at, Leads(t, names, at)
  PROVE  Leads(t2, names, at)
<1>1. at \in DOMAIN t
  BY LeadsToContainer
<1>2. at \in Seq(Elements) /\ Root \in DOMAIN t
  BY <1>1 DEF Sound, TreeInv, IsTree
<1>3. Len(at) \in Nat /\ Len(at) <= Len(at)
  BY <1>2
<1>4. Kept(t, t2) /\ Root \in DOMAIN t2 /\ SameLists(t, t2, Len(at))
  BY <1>2 DEF Later, Kept, SameLists
<1> QED
  BY <1>3, <1>4, LeadsLater

LEMMA LaterIsTransitive ==
  ASSUME NEW t, NEW t2, NEW t3, Later(t, t2), Later(t2, t3)
  PROVE  Later(t, t3)
<1>1. ASSUME NEW p \in DOMAIN t
      PROVE  /\ p \in DOMAIN t2 /\ p \in DOMAIN t3
             /\ Children(t, p) \subseteq Children(t2, p)
             /\ t[p] = "list" => Children(t3, p) = Children(t, p)
             /\ \/ t3[p] = t[p]
                \/ t[p] = "intermediate" /\ t3[p] = "names"
                \/ /\ t[p] \in {"intermediate", "names"}
                   /\ t3[p] = "texts"
                   /\ Children(t, p) = {}
  <2>1. p \in DOMAIN t2 /\ p \in DOMAIN t3
    BY DEF Later, Kept
  <2>2. Children(t, p) \subseteq Children(t2, p)
    BY DEF Later, Kept, Children
  <2>3. /\ \/ t2[p] = t[p]
           \/ t[p] = "intermediate" /\ t2[p] = "names"
           \/ t[p] \in {"intermediate", "names"} /\ t2[p] = "texts" /\ Children(t, p) = {}
        /\ \/ t3[p] = t2[p]
           \/ t2[p] = "intermediate" /\ t3[p] = "names"
           \/ t2[p] \in {"intermediate", "names"} /\ t3[p] = "texts" /\ Children(t2, p) = {}
    BY <2>1 DEF Later, Kept
  <2>4. t[p] = "list" => Children(t3, p) = Children(t, p)
    BY <2>1, <2>3 DEF Later
  <2> QED
    BY <2>1, <2>2, <2>3, <2>4
<1> QED
  BY <1>1 DEF Later, Kept

LEMMA LaterIsReflexive ==
  ASSUME NEW t
  PROVE  Later(t, t)
BY DEF Later, Kept

LEMMA AddChildGrows ==
  ASSUME NEW t, NEW at, NEW x, NEW type
  PROVE  AddChildValue(At(t, at), x, type) =
           IF Refusal(t, at, x, type) = "ok" THEN At(Grow(t, at, x, type), Append(at, x))
           ELSE Refused(t, at, Refusal(t, at, x, type))
BY DEF AddChildValue, At, Refused, Failed, Grow

\* A section that is not refused may be added, and no assertion fails.
LEMMA SectionMayGrow ==
  ASSUME NEW t, Sound(t), NEW at \in DOMAIN t, t[at] \in MapTypes,
         NEW name \in Names \ MetaNames, Append(at, name) \notin DOMAIN t,
         NEW type \in {"intermediate", "names", "list"},
         type = "list" => name \notin TextNames
  PROVE  /\ Refusal(t, at, name, type) \in {"ok", "Syntax", "NameConflict"}
         /\ Refusal(t, at, name, type) = "ok" => MayGrow(t, at, name, type)
<1>1. t[at] \notin {"list", "value"}
  BY DEF MapTypes
<1>2. name \in RegularNames => name \notin TextNames
  BY NamesAssumption
<1>3. CASE at = Root
  <2>1. Refusal(t, at, name, type) = IF name \in TextNames THEN "NameConflict" ELSE "ok"
    BY <1>3 DEF Refusal, RootRefusal
  <2>2. t[at] = "document"
    BY <1>3 DEF Sound, TreeInv, IsTree
  <2> QED
    BY <1>1, <2>1, <2>2 DEF MayGrow, ElementTypes, MapTypes, Names
<1>4. CASE at # Root
  <2>1. Refusal(t, at, name, type) = ContainerRefusal(t, at, name, type)
    BY <1>4 DEF Refusal
  <2>2. ContainerRefusal(t, at, name, type) \in {"ok", "Syntax", "NameConflict"}
    BY <1>1 DEF ContainerRefusal
  <2>3. ASSUME ContainerRefusal(t, at, name, type) = "ok"
        PROVE  MayGrow(t, at, name, type)
    <3>1. ~Mixes(t, at, name)
      BY <2>3 DEF ContainerRefusal
    <3> QED
      BY <1>1, <1>4, <3>1 DEF MayGrow, Mixes, ElementTypes, MapTypes, Names
  <2> QED
    BY <2>1, <2>2, <2>3
<1> QED
  BY <1>3, <1>4

\* A new element that is not a list leaves the tree sound.
LEMMA GrowIsSound ==
  ASSUME NEW t, Sound(t), NEW p, NEW x, NEW type, MayGrow(t, p, x, type), type # "list"
  PROVE  Sound(Grow(t, p, x, type))
<1> DEFINE t2 == Grow(t, p, x, type)
<1>1. TreeInv(t2)
  BY GrowPreserves DEF Sound
<1>2. Grown(t2, t, p, x, type)
  BY GrowBasics DEF Sound
<1> HIDE DEF t2
<1>3. ASSUME NEW q \in DOMAIN t2, t2[q] = "list"
      PROVE  Children(t2, q) # {}
  <2>1. q \in DOMAIN t /\ t[q] = "list"
    BY <1>2, <1>3 DEF Grown
  <2>2. Children(t, q) # {}
    BY <2>1 DEF Sound, NoEmptyList
  <2> QED
    BY <1>2, <2>2 DEF Children, Grown
<1> QED
  BY <1>1, <1>3 DEF Sound, NoEmptyList, t2

\* Outside of lists, a new element makes a later tree.
LEMMA GrowIsLater ==
  ASSUME NEW t, Sound(t), NEW p, NEW x, NEW type, MayGrow(t, p, x, type), t[p] # "list"
  PROVE  Later(t, Grow(t, p, x, type))
<1>1. \A q : q # p => Children(Grow(t, p, x, type), q) = Children(t, q)
  BY GrowChildren DEF Sound
<1>2. Kept(t, Grow(t, p, x, type))
  BY GrowKeeps DEF Sound
<1> QED
  BY <1>1, <1>2 DEF Later

\* A new container is led to by the names of its path.
LEMMA GrowLeads ==
  ASSUME NEW t, Sound(t), NEW p, NEW name \in Names, NEW type \in MapTypes,
         MayGrow(t, p, name, type), t[p] # "list",
         NEW names \in Seq(Names), Leads(t, names, p)
  PROVE  Leads(Grow(t, p, name, type), Append(names, name), Append(p, name))
<1> DEFINE t2 == Grow(t, p, name, type)
           child == Append(p, name)
<1>1. Leads(t2, names, p)
  BY GrowIsLater, LaterLeads
<1>2. Grown(t2, t, p, name, type)
  BY GrowBasics DEF Sound
<1> HIDE DEF t2
<1>3. child \in DOMAIN t2 /\ t2[child] = type
  BY <1>2 DEF Grown
<1>4. EnterExisting(At(t2, p), name) = At(t2, child)
  BY <1>3 DEF EnterExisting, At, Failed, Enter, MapTypes
<1>5. Folded(At(t2, Root), Append(names, name), "existing") = At(t2, child)
  BY <1>1, <1>4, WalkGoesOn DEF Leads
<1> QED
  BY <1>5 DEF Leads, t2

-----------------------------------------------------------------------------
\* The walk to a section, which creates what is missing

\* What is known of a walk from the tree t0 along the names.
Created(w, t0, names) ==
  /\ w = Refused(w.tree, w.at, w.error)
  /\ w.error \in {"ok", "Syntax", "NameConflict"}
  /\ Sound(w.tree) /\ Later(t0, w.tree)
  /\ \A p \in DOMAIN w.tree \ DOMAIN t0 : w.tree[p] \in {"intermediate", "texts"}
  /\ w.error = "ok" => /\ w.at \in DOMAIN w.tree /\ w.tree[w.at] \in MapTypes
                       /\ NamePathOf(w.at) = names
                       /\ Leads(w.tree, names, w.at)

LEMMA CreateStep ==
  ASSUME NEW t0, NEW names \in Seq(Names \ MetaNames), NEW name \in Names \ MetaNames,
         NEW w, Created(w, t0, names)
  PROVE  Created(EnterOrCreate(w, name), t0, Append(names, name))
<1> DEFINE v == EnterOrCreate(w, name)
           t == w.tree
           path == Append(w.at, name)
<1>0. names \in Seq(Names) /\ name \in Names
  OBVIOUS
<1>1. CASE Failed(w)
  <2>1. v = w
    BY <1>1 DEF EnterOrCreate
  <2> QED
    BY <1>1, <2>1 DEF Failed, Created
<1>2. CASE ~Failed(w)
  <2>1. /\ w = At(t, w.at) /\ w.at \in DOMAIN t /\ t[w.at] \in MapTypes /\ Sound(t)
        /\ NamePathOf(w.at) = names /\ Leads(t, names, w.at) /\ Later(t0, t)
        /\ \A p \in DOMAIN t \ DOMAIN t0 : t[p] \in {"intermediate", "texts"}
    BY <1>2 DEF Created, Failed, At, Refused
  <2>2. CASE path \in DOMAIN t
    <3>1. v = Enter(At(t, w.at), path) /\ EnterExisting(At(t, w.at), name) = v
      BY <1>2, <2>1, <2>2 DEF EnterOrCreate, EnterExisting
    <3>2. CASE v = Refused(t, w.at, "NameConflict")
      BY <2>1, <3>2 DEF Created, Refused
    <3>3. ASSUME NEW q, v = At(t, q), Entered(t, w.at, name, q)
          PROVE  Created(v, t0, Append(names, name))
      <4>1. Leads(t, Append(names, name), q)
        BY <1>0, <2>1, <3>1, <3>3, WalkGoesOn DEF Leads
      <4>2. /\ v.tree = t /\ v.at = q /\ v.error = "ok"
            /\ v = Refused(v.tree, v.at, v.error)
        BY <3>3 DEF At, Refused
      <4> HIDE DEF v
      <4> QED
        BY <2>1, <3>3, <4>1, <4>2 DEF Created, Entered
    <3> QED
      BY <1>0, <2>1, <2>2, <3>1, <3>2, <3>3, EnterLeads
  <2>3. CASE path \notin DOMAIN t
    <3>1. v = AddChildValue(At(t, w.at), name, "intermediate")
      BY <1>2, <2>1, <2>3 DEF EnterOrCreate
    <3> DEFINE refusal == Refusal(t, w.at, name, "intermediate")
    <3>2. /\ refusal \in {"ok", "Syntax", "NameConflict"}
          /\ refusal = "ok" => MayGrow(t, w.at, name, "intermediate")
      BY <2>1, <2>3, SectionMayGrow
    <3>3. CASE refusal # "ok"
      <4>1. v = Refused(t, w.at, refusal)
        BY <3>1, <3>3, AddChildGrows
      <4>2. v.tree = t /\ v.at = w.at /\ v.error = refusal
        BY <4>1 DEF Refused
      <4> HIDE DEF v, refusal
      <4>3. Created(v, t0, Append(names, name))
        BY <2>1, <3>2, <3>3, <4>1, <4>2 DEF Created
      <4> QED
        BY <4>3 DEF v
    <3>4. CASE refusal = "ok"
      <4> DEFINE t2 == Grow(t, w.at, name, "intermediate")
      <4>1. v = At(t2, path)
        BY <3>1, <3>4, AddChildGrows
      <4>2. MayGrow(t, w.at, name, "intermediate") /\ t[w.at] # "list"
        BY <2>1, <3>2, <3>4 DEF MapTypes
      <4>3. Sound(t2) /\ Later(t, t2)
        BY <2>1, <4>2, GrowIsSound, GrowIsLater
      <4>4. Leads(t2, Append(names, name), path)
        BY <1>0, <2>1, <4>2, GrowLeads, "intermediate" \in MapTypes DEF MapTypes
      <4>5. Grown(t2, t, w.at, name, "intermediate")
        BY <2>1, <4>2, GrowBasics DEF Sound
      <4> HIDE DEF t2
      <4>6. /\ v.tree = t2 /\ v.at = path /\ v.error = "ok"
            /\ v = Refused(v.tree, v.at, v.error)
        BY <4>1 DEF At, Refused
      <4>7. Later(t0, t2)
        BY <2>1, <4>3, LaterIsTransitive
      <4>8. NamePathOf(path) = Append(names, name)
        <5>1. w.at \in Seq(Elements) /\ name \in Elements
          BY <2>1 DEF Sound, TreeInv, IsTree, Elements
        <5> QED
          BY <1>0, <2>1, <5>1, NamePathGrows DEF AddName
      <4>9. \A p \in DOMAIN t2 \ DOMAIN t0 : t2[p] \in {"intermediate", "texts"}
        BY <2>1, <4>5 DEF Grown
      <4>10. path \in DOMAIN t2 /\ t2[path] \in MapTypes
        BY <4>5 DEF Grown, MapTypes
      <4> HIDE DEF v, path
      <4>11. Created(v, t0, Append(names, name))
        BY <4>3, <4>4, <4>6, <4>7, <4>8, <4>9, <4>10 DEF Created
      <4> QED
        BY <4>11 DEF v
    <3> QED
      BY <3>3, <3>4
  <2> QED
    BY <2>2, <2>3
<1> QED
  BY <1>1, <1>2

LEMMA CreateStarts ==
  ASSUME NEW t, Sound(t)
  PROVE  Created(At(t, Root), t, <<>>)
<1>1. Walked(At(t, Root), t, <<>>) /\ Leads(t, <<>>, Root)
  BY WalkStarts
<1>2. Later(t, t)
  BY LaterIsReflexive
<1> QED
  BY <1>1, <1>2 DEF Created, Walked, At, Refused

LEMMA CreateWalk ==
  ASSUME NEW t, Sound(t), NEW names \in Seq(Names \ MetaNames)
  PROVE  Created(FoldLeft(EnterOrCreate, At(t, Root), names), t, names)
<1> DEFINE G == {s \in Seq(Names \ MetaNames) : Created(Folded(At(t, Root), s, "create"), t, s)}
<1>1. <<>> \in G
  <2>1. Folded(At(t, Root), <<>>, "create") = At(t, Root)
    BY FoldOfNothing DEF Kinds
  <2> QED
    BY <2>1, CreateStarts
<1>2. ASSUME NEW s \in Seq(Names \ MetaNames), NEW name \in Names \ MetaNames, s \in G
      PROVE  Append(s, name) \in G
  <2>1. Folded(At(t, Root), Append(s, name), "create")
          = Step(Folded(At(t, Root), s, "create"), name, "create")
    BY FoldOfOneMore DEF Kinds
  <2>2. Folded(At(t, Root), Append(s, name), "create")
          = EnterOrCreate(Folded(At(t, Root), s, "create"), name)
    BY <2>1 DEF Step
  <2>3. Created(Folded(At(t, Root), s, "create"), t, s)
    BY <1>2
  <2>4. Created(EnterOrCreate(Folded(At(t, Root), s, "create"), name), t, Append(s, name))
    BY <2>3, CreateStep
  <2> QED
    BY <2>2, <2>4
<1> HIDE DEF G
<1>3. names \in G
  BY <1>1, <1>2, PrefixInduction
<1> QED
  BY <1>3 DEF G, Folded

LEMMA NamePathIsNames ==
  ASSUME NEW p \in Seq(Elements)
  PROVE  NamePathOf(p) \in Seq(Names)
<1> DEFINE G == {s \in Seq(Elements) : NamePathOf(s) \in Seq(Names)}
<1>1. <<>> \in G
  <2>1. NamePathOf(<<>>) = <<>>
    BY NamePathOfRoot DEF Root
  <2>2. <<>> \in Seq(Names) /\ <<>> \in Seq(Elements)
    OBVIOUS
  <2>3. NamePathOf(<<>>) \in Seq(Names)
    BY <2>1, <2>2, Zenon
  <2> QED
    BY <2>2, <2>3
<1>2. ASSUME NEW s \in Seq(Elements), NEW x \in Elements, s \in G
      PROVE  Append(s, x) \in G
  <2>1. NamePathOf(Append(s, x)) = AddName(NamePathOf(s), x)
    BY NamePathGrows
  <2>2. Append(s, x) \in Seq(Elements) /\ NamePathOf(s) \in Seq(Names)
    BY <1>2
  <2>3. AddName(NamePathOf(s), x) \in Seq(Names)
    BY <2>2 DEF AddName
  <2> QED
    BY <2>1, <2>2, <2>3
<1> HIDE DEF G
<1>3. p \in G
  BY <1>1, <1>2, PrefixInduction
<1> QED
  BY <1>3 DEF G

LEMMA KeptIsTransitive ==
  ASSUME NEW t, NEW t2, NEW t3, Kept(t, t2), Kept(t2, t3)
  PROVE  Kept(t, t3)
<1>1. ASSUME NEW p \in DOMAIN t
      PROVE  /\ p \in DOMAIN t3
             /\ \/ t3[p] = t[p]
                \/ t[p] = "intermediate" /\ t3[p] = "names"
                \/ t[p] \in {"intermediate", "names"} /\ t3[p] = "texts" /\ Children(t, p) = {}
  <2>1. Children(t, p) \subseteq Children(t2, p)
    BY DEF Kept, Children
  <2> QED
    BY <2>1 DEF Kept
<1> QED
  BY <1>1 DEF Kept

\* An intermediate section is defined.
LEMMA DefineSection ==
  ASSUME NEW t, Sound(t), NEW p \in DOMAIN t, t[p] = "intermediate"
  PROVE  Sound([t EXCEPT ![p] = "names"]) /\ Later(t, [t EXCEPT ![p] = "names"])
<1> DEFINE t2 == [t EXCEPT ![p] = "names"]
<1>1. /\ t \in [DOMAIN t -> ElementTypes] /\ DOMAIN t \subseteq Seq(Elements)
      /\ Root \in DOMAIN t /\ \A q \in DOMAIN t : t[q] = "document" <=> q = Root
  BY DEF Sound, TreeInv, IsTree
<1>2. /\ t2 \in [DOMAIN t -> ElementTypes] /\ DOMAIN t2 = DOMAIN t
      /\ \A q \in DOMAIN t : t2[q] = IF q = p THEN "names" ELSE t[q]
  BY <1>1 DEF ElementTypes, MapTypes
<1> HIDE DEF t2
<1>3. \A q : Children(t2, q) = Children(t, q)
  BY <1>2 DEF Children
<1>4. IsTree(t2)
  BY <1>1, <1>2 DEF IsTree
<1>5. ASSUME NEW q \in DOMAIN t2 \ {Root}
      PROVE  Fits(t2, q)
  <2>1. q \in DOMAIN t /\ Fits(t, q) /\ Front(q) \in DOMAIN t
    BY <1>2 DEF Sound, TreeInv, Fits
  <2>2. /\ t2[q] = IF q = p THEN "names" ELSE t[q]
        /\ t2[Front(q)] = IF Front(q) = p THEN "names" ELSE t[Front(q)]
    BY <1>2, <2>1
  <2> QED
    BY <1>2, <2>1, <2>2 DEF Fits
<1>6. \A q \in DOMAIN t2 : t2[q] = "list" => t[q] = "list" /\ q \in DOMAIN t
  BY <1>2
<1>7. Sound(t2)
  BY <1>3, <1>4, <1>5, <1>6 DEF Sound, TreeInv, NoEmptyList, Numbered
<1>8. Later(t, t2)
  BY <1>2, <1>3 DEF Later, Kept
<1> QED
  BY <1>7, <1>8 DEF t2

-----------------------------------------------------------------------------
\* The new section

\* What is known of the end of a call that adds a section.
Made(v, t0) ==
  /\ v.error \in {"ok", "Syntax", "NameConflict"}
  /\ Sound(v.tree) /\ Kept(t0, v.tree)
  /\ v.error # "ok" =>
       /\ Later(t0, v.tree)
       /\ \A p \in DOMAIN v.tree \ DOMAIN t0 : v.tree[p] \in {"intermediate", "texts"}
  /\ v.error = "ok" =>
       /\ v.at \in DOMAIN v.tree /\ v.tree[v.at] \in {"names", "texts"}
       /\ Leads(v.tree, NamePathOf(v.at), v.at)

LEMMA FailedIsMade ==
  ASSUME NEW t0, NEW names, NEW w, Created(w, t0, names), NEW v,
         v.tree = w.tree, v.error \in {"Syntax", "NameConflict"}
  PROVE  Made(v, t0)
BY DEF Created, Made, Later

LEMMA SectionIsMade ==
  ASSUME NEW t0, NEW names \in Seq(Names \ MetaNames), NEW name \in Names \ MetaNames,
         NEW w, Created(w, t0, names)
  PROVE  Made(MakeSection(w, name), t0)
<1> DEFINE v == MakeSection(w, name)
           t == w.tree
           path == Append(w.at, name)
<1>0. names \in Seq(Names) /\ name \in Names
  OBVIOUS
<1>1. CASE Failed(w)
  <2>1. v = w
    BY <1>1 DEF MakeSection
  <2>2. w.error \in {"Syntax", "NameConflict"}
    BY <1>1 DEF Failed, Created
  <2> QED
    BY <2>1, <2>2, FailedIsMade
<1>2. CASE ~Failed(w)
  <2>1. /\ w = At(t, w.at) /\ w.at \in DOMAIN t /\ t[w.at] \in MapTypes /\ Sound(t)
        /\ NamePathOf(w.at) = names /\ Leads(t, names, w.at) /\ Later(t0, t)
    BY <1>2 DEF Created, Failed, At, Refused
  <2>2. NamePathOf(path) = Append(names, name)
    <3>1. w.at \in Seq(Elements) /\ name \in Elements
      BY <2>1 DEF Sound, TreeInv, IsTree, Elements
    <3> QED
      BY <1>0, <2>1, <3>1, NamePathGrows DEF AddName
  <2>3. CASE path \notin DOMAIN t
    <3> DEFINE refusal == Refusal(t, w.at, name, "names")
               t2 == Grow(t, w.at, name, "names")
    <3>1. v = AddChildValue(At(t, w.at), name, "names")
      BY <1>2, <2>1, <2>3 DEF MakeSection
    <3>2. /\ refusal \in {"ok", "Syntax", "NameConflict"}
          /\ refusal = "ok" => MayGrow(t, w.at, name, "names")
      BY <2>1, <2>3, SectionMayGrow
    <3>3. CASE refusal # "ok"
      <4>1. v = Refused(t, w.at, refusal)
        BY <3>1, <3>3, AddChildGrows
      <4>2. v.tree = t /\ v.error = refusal
        BY <4>1 DEF Refused
      <4> HIDE DEF v, refusal
      <4>3. Made(v, t0)
        BY <3>2, <3>3, <4>2, FailedIsMade
      <4> QED
        BY <4>3 DEF v
    <3>4. CASE refusal = "ok"
      <4>1. v = At(t2, path)
        BY <3>1, <3>4, AddChildGrows
      <4>2. MayGrow(t, w.at, name, "names") /\ t[w.at] # "list"
        BY <2>1, <3>2, <3>4 DEF MapTypes
      <4>3. Sound(t2) /\ Later(t, t2)
        BY <2>1, <4>2, GrowIsSound, GrowIsLater
      <4>4. Leads(t2, Append(names, name), path)
        BY <1>0, <2>1, <4>2, GrowLeads, "names" \in MapTypes DEF MapTypes
      <4>5. Grown(t2, t, w.at, name, "names")
        BY <2>1, <4>2, GrowBasics DEF Sound
      <4>6. v.tree = t2 /\ v.at = path /\ v.error = "ok"
        BY <4>1 DEF At
      <4>7. Kept(t0, t2)
        BY <2>1, <4>3, LaterIsTransitive DEF Later
      <4> HIDE DEF v, t2
      <4>8. path \in DOMAIN t2 /\ t2[path] = "names"
        BY <4>5 DEF Grown
      <4> HIDE DEF path
      <4>9. Made(v, t0)
        BY <2>2, <4>3, <4>4, <4>6, <4>7, <4>8 DEF Made
      <4> QED
        BY <4>9 DEF v
    <3> QED
      BY <3>3, <3>4
  <2>4. CASE path \in DOMAIN t /\ t[path] = "intermediate"
    <3> DEFINE t2 == [t EXCEPT ![path] = "names"]
    <3>1. v.tree = t2 /\ v.at = path /\ v.error = "ok"
      <4>1. v = [w EXCEPT !.tree[path] = "names", !.at = path]
        BY <1>2, <2>4 DEF MakeSection
      <4> QED
        BY <2>1, <4>1 DEF At
    <3>2. Sound(t2) /\ Later(t, t2)
      BY <2>1, <2>4, DefineSection
    <3>3. path \in DOMAIN t2 /\ t2[path] = "names"
      BY <2>4
    <3>4. Kept(t0, t2)
      BY <2>1, <3>2, LaterIsTransitive DEF Later
    <3> HIDE DEF t2
    <3>5. Leads(t2, names, w.at)
      BY <1>0, <2>1, <3>2, LaterLeads
    <3>6. EnterExisting(At(t2, w.at), name) = At(t2, path)
      BY <3>3 DEF EnterExisting, At, Failed, Enter
    <3>7. Leads(t2, Append(names, name), path)
      BY <1>0, <3>5, <3>6, WalkGoesOn DEF Leads
    <3> HIDE DEF v, path
    <3>8. Made(v, t0)
      BY <2>2, <3>1, <3>2, <3>3, <3>4, <3>7 DEF Made
    <3> QED
      BY <3>8 DEF v
  <2>5. CASE path \in DOMAIN t /\ t[path] # "intermediate"
    <3>1. v.tree = t /\ v.error = "NameConflict"
      <4>1. v = [w EXCEPT !.error = "NameConflict"]
        BY <1>2, <2>5 DEF MakeSection
      <4> QED
        BY <2>1, <4>1 DEF At
    <3> HIDE DEF v
    <3>2. Made(v, t0)
      BY <3>1, FailedIsMade
    <3> QED
      BY <3>2 DEF v
  <2> QED
    BY <2>3, <2>4, <2>5
<1> QED
  BY <1>1, <1>2

\* A section list that takes one more element: t2 has the list, which may still be
\* empty, and n elements in it.
LEMMA ElementIsMade ==
  ASSUME NEW t, Sound(t), NEW at \in DOMAIN t, NEW name \in Names \ MetaNames,
         NEW names \in Seq(Names), Leads(t, names, at), NamePathOf(at) = names,
         NEW t2, TreeInv(t2), Kept(t, t2), Append(at, name) \in DOMAIN t2,
         t2[Append(at, name)] = "list", name \notin TextNames,
         \A q \in DOMAIN t2 : t2[q] = "list" /\ q # Append(at, name) => Children(t2, q) # {},
         \A q \in DOMAIN t : t[q] = "list" => Children(t2, q) = Children(t, q)
  PROVE  LET v == AddChildValue(At(t2, Append(at, name)),
                                NextNumber(t2, Append(at, name)), "names")
         IN  Made(v, t)
<1> DEFINE path == Append(at, name)
<1>1. at \in Seq(Elements) /\ name \in Elements /\ path \in Seq(Elements) /\ path # Root
  BY PathProperties DEF Sound, TreeInv, IsTree, Elements
<1>2. Last(path) = name /\ Len(path) = Len(at) + 1 /\ Len(at) \in Nat
  BY <1>1, PathProperties
<1>3. NamePathOf(path) = Append(names, name)
  BY <1>1, NamePathGrows DEF AddName
<1> HIDE DEF path
<1>4. path \in DOMAIN t2 /\ t2[path] = "list"
  BY DEF path
<1>5. PICK n \in Nat : Numbered(t2, path, n)
  BY <1>4 DEF TreeInv
<1> DEFINE number == n + 1
           child == Append(path, number)
           t3 == Grow(t2, path, number, "names")
<1>6. NextNumber(t2, path) = number
  BY <1>1, <1>5, CountOfNumbered DEF NextNumber
<1>7. number \in Nat /\ number # 0 /\ number - 1 = n /\ number \in Elements /\ number \notin Names
  BY NamesAssumption DEF Elements, Names
<1>8. child \notin DOMAIN t2
  <2>1. ASSUME child \in DOMAIN t2
        PROVE  FALSE
    <3>1. child \in Children(t2, path)
      BY <1>1, <1>7, <2>1, ChildrenOf DEF TreeInv
    <3>2. PICK i \in 1 .. n : child = Append(path, i)
      BY <1>5, <3>1 DEF Numbered
    <3>3. i \in Elements
      BY DEF Elements
    <3>4. i = number
      BY <1>1, <1>7, <3>2, <3>3, PathProperties
    <3> QED
      BY <3>4
  <2> QED
    BY <2>1
<1>9. MayGrow(t2, path, number, "names")
  <2>1. number \notin TextNames /\ number \notin RegularNames /\ number \notin MetaNames
    BY <1>7, NamesAssumption DEF Names
  <2> HIDE DEF number
  <2>2. Numbered(t2, path, number - 1)
    BY <1>5, <1>7
  <2> QED
    BY <1>4, <1>7, <1>8, <2>1, <2>2 DEF MayGrow, ElementTypes, MapTypes
<1>10. Refusal(t2, path, number, "names") = "ok"
  <2>1. ~Mixes(t2, path, number)
    BY <1>4 DEF Mixes
  <2> HIDE DEF number
  <2> QED
    BY <1>1, <1>2, <1>4, <2>1 DEF Refusal, ContainerRefusal
<1>11. AddChildValue(At(t2, path), number, "names") = At(t3, child)
  BY <1>10, AddChildGrows
<1>12. Grown(t3, t2, path, number, "names") /\ TreeInv(t3) /\ Kept(t2, t3)
  BY <1>9, GrowBasics, GrowPreserves, GrowKeeps
<1>13. /\ \A q : q # path => Children(t3, q) = Children(t2, q)
       /\ Children(t3, path) = Children(t2, path) \cup {child}
  BY <1>9, GrowChildren
<1>14. Numbered(t3, path, number)
  <2>1. \A i : i \in 1 .. number <=> i \in 1 .. n \/ i = number
    OBVIOUS
  <2> HIDE DEF number, t3
  <2> QED
    BY <1>5, <1>13, <2>1 DEF Numbered
<1> HIDE DEF t3, number
<1>15. Sound(t3)
  <2>1. ASSUME NEW q \in DOMAIN t3, t3[q] = "list"
        PROVE  Children(t3, q) # {}
    <3>1. q # child /\ q \in DOMAIN t2 /\ (q # path => t2[q] = "list")
      BY <1>12, <2>1 DEF Grown
    <3> QED
      BY <1>13, <3>1 DEF path
  <2> QED
    BY <1>12, <2>1 DEF Sound, NoEmptyList
<1>16. Kept(t, t3)
  BY <1>12, KeptIsTransitive
<1>17. Leads(t3, names, at)
  <2>1. SameLists(t, t3, Len(at))
    <3>1. ASSUME NEW q \in DOMAIN t, t[q] = "list", Len(q) < Len(at)
          PROVE  Children(t3, q) = Children(t, q)
      <4>1. q # path
        BY <1>2, <3>1
      <4> QED
        BY <1>13, <3>1, <4>1
    <3> QED
      BY <3>1 DEF SameLists
  <2>2. Root \in DOMAIN t3
    BY <1>15 DEF Sound, TreeInv, IsTree
  <2>3. Len(at) <= Len(at)
    BY <1>2
  <2> QED
    BY <1>2, <1>16, <2>1, <2>2, <2>3, LeadsLater
<1>18. path \in DOMAIN t3 /\ t3[path] = "list" /\ child \in DOMAIN t3 /\ t3[child] = "names"
  <2>1. number \notin TextNames
    BY <1>7 DEF Names
  <2> QED
    BY <1>4, <1>12, <2>1 DEF Grown
<1>19. Enter(At(t3, at), path) = At(t3, child)
  <2>1. Cardinality(Children(t3, path)) = number
    BY <1>1, <1>7, <1>14, CountOfNumbered
  <2> QED
    BY <1>18, <2>1 DEF Enter, At
<1>20. Leads(t3, Append(names, name), child)
  <2>1. EnterExisting(At(t3, at), name) = At(t3, child)
    BY <1>18, <1>19 DEF EnterExisting, At, Failed, path
  <2> QED
    BY <1>17, <2>1, WalkGoesOn DEF Leads
<1>21. NamePathOf(child) = Append(names, name)
  BY <1>1, <1>3, <1>7, NamePathGrows DEF AddName
<1> HIDE DEF child
<1>22. Made(At(t3, child), t)
  BY <1>15, <1>16, <1>18, <1>20, <1>21 DEF Made, At
<1> QED
  BY <1>6, <1>11, <1>22 DEF path

LEMMA NumberIsNotRefused ==
  ASSUME NEW t, NEW at \in Seq(Elements), NEW name \in Names, name \notin TextNames,
         t[Append(at, name)] = "list", NEW number
  PROVE  AddChildValue(At(t, Append(at, name)), number, "names").error = "ok"
<1> DEFINE path == Append(at, name)
<1>1. path # Root /\ Last(path) = name
  BY PathProperties DEF Elements
<1> HIDE DEF path
<1>2. Refusal(t, path, number, "names") = "ok"
  BY <1>1, t[path] = "list" DEF Refusal, ContainerRefusal, Mixes, path
<1>3. AddChildValue(At(t, path), number, "names") = At(Grow(t, path, number, "names"), Append(path, number))
  BY <1>2, AddChildGrows
<1> QED
  BY <1>3 DEF At, path

\* A section list takes a new element, and a list that is missing is made first.
LEMMA ListElementIsMade ==
  ASSUME NEW t0, NEW names \in Seq(Names \ MetaNames), NEW name \in Names \ MetaNames,
         name \notin TextNames, NEW w, Created(w, t0, names)
  PROVE  Made(MakeElement(w, name), t0)
<1> DEFINE v == MakeElement(w, name)
           t == w.tree
           path == Append(w.at, name)
<1>0. names \in Seq(Names) /\ name \in Names
  OBVIOUS
<1>1. CASE Failed(w)
  <2>1. v = w
    BY <1>1 DEF MakeElement
  <2>2. w.error \in {"Syntax", "NameConflict"}
    BY <1>1 DEF Failed, Created
  <2> QED
    BY <2>1, <2>2, FailedIsMade
<1>2. CASE ~Failed(w)
  <2>1. /\ w = At(t, w.at) /\ w.at \in DOMAIN t /\ t[w.at] \in MapTypes /\ Sound(t)
        /\ NamePathOf(w.at) = names /\ Leads(t, names, w.at) /\ Kept(t0, t)
    BY <1>2 DEF Created, Failed, At, Refused, Later
  <2>2. ASSUME NEW r, Made(r, t)
        PROVE  r.error = "ok" => Made(r, t0)
    BY <2>1, <2>2, KeptIsTransitive DEF Made
  <2>3. CASE path \in DOMAIN t /\ t[path] # "list"
    <3>1. v.tree = t /\ v.error = "NameConflict"
      <4>1. v = [w EXCEPT !.error = "NameConflict"]
        BY <1>2, <2>3 DEF MakeElement
      <4> QED
        BY <2>1, <4>1 DEF At
    <3> HIDE DEF v
    <3>2. Made(v, t0)
      BY <3>1, FailedIsMade
    <3> QED
      BY <3>2 DEF v
  <2>4. CASE path \in DOMAIN t /\ t[path] = "list"
    <3> DEFINE r == AddChildValue(At(t, path), NextNumber(t, path), "names")
    <3>1. v = r
      <4>1. [w EXCEPT !.at = path] = At(t, path) /\ At(t, path).tree = t
        <5>1. \A u, a, b : [At(u, a) EXCEPT !.at = b] = At(u, b) /\ At(u, b).tree = u
          BY DEF At
        <5>2. PICK u, a : w = At(u, a)
          BY <2>1
        <5>3. w.tree = u
          BY <5>1, <5>2
        <5>4. [w EXCEPT !.at = path] = At(u, path)
          BY <5>1, <5>2
        <5> QED
          BY <5>1, <5>3, <5>4
      <4> QED
        BY <1>2, <2>4, <4>1 DEF MakeElement
    <3>2. Made(r, t)
      <4>1. TreeInv(t) /\ Kept(t, t)
        BY <2>1 DEF Sound, Kept
      <4>2. \A q \in DOMAIN t : t[q] = "list" => Children(t, q) # {}
        BY <2>1 DEF Sound, NoEmptyList
      <4> QED
        BY <1>0, <2>1, <2>4, <4>1, <4>2, ElementIsMade
    <3>3. r.error = "ok"
      <4>1. w.at \in Seq(Elements)
        BY <2>1 DEF Sound, TreeInv, IsTree
      <4> QED
        BY <1>0, <2>4, <4>1, NumberIsNotRefused
    <3> HIDE DEF r
    <3>4. Made(r, t0)
      BY <2>2, <3>2, <3>3
    <3> QED
      BY <3>1, <3>4
  <2>5. CASE path \notin DOMAIN t
    <3> DEFINE refusal == Refusal(t, w.at, name, "list")
               list == AddChildValue(At(t, w.at), name, "list")
               t2 == Grow(t, w.at, name, "list")
    <3>1. /\ refusal \in {"ok", "Syntax", "NameConflict"}
          /\ refusal = "ok" => MayGrow(t, w.at, name, "list")
      BY <2>1, <2>5, SectionMayGrow
    <3>2. v = AddChildValue(list, NextNumber(list.tree, path), "names")
      BY <1>2, <2>1, <2>5 DEF MakeElement
    <3>3. CASE refusal # "ok"
      <4>1. list = Refused(t, w.at, refusal)
        BY <3>3, AddChildGrows
      <4>2. Failed(list) /\ list.tree = t /\ list.error = refusal
        BY <3>3, <4>1 DEF Failed, Refused
      <4> HIDE DEF list, refusal
      <4>3. v = list
        BY <3>2, <4>2 DEF AddChildValue
      <4>4. Made(list, t0)
        BY <3>1, <3>3, <4>2, FailedIsMade
      <4> QED
        BY <4>3, <4>4
    <3>4. CASE refusal = "ok"
      <4> DEFINE r == AddChildValue(At(t2, path), NextNumber(t2, path), "names")
      <4>1. list = At(t2, path)
        BY <3>4, AddChildGrows
      <4>2. v = r
        <5>1. list.tree = t2
          BY <4>1 DEF At
        <5> QED
          BY <3>2, <4>1, <5>1
      <4>3. MayGrow(t, w.at, name, "list") /\ t[w.at] # "list"
        BY <2>1, <3>1, <3>4 DEF MapTypes
      <4>4. TreeInv(t2) /\ Later(t, t2) /\ Grown(t2, t, w.at, name, "list")
        BY <2>1, <4>3, GrowPreserves, GrowIsLater, GrowBasics DEF Sound
      <4> HIDE DEF t2
      <4>5. path \in DOMAIN t2 /\ t2[path] = "list" /\ w.at \in DOMAIN t2
        BY <2>1, <4>4 DEF Grown
      <4>6. ASSUME NEW q \in DOMAIN t2, t2[q] = "list", q # path
            PROVE  Children(t2, q) # {}
        <5>1. q \in DOMAIN t /\ t[q] = "list"
          BY <4>4, <4>6 DEF Grown
        <5> QED
          BY <2>1, <4>4, <5>1 DEF Sound, NoEmptyList, Later
      <4>7. Made(r, t)
        BY <1>0, <2>1, <4>4, <4>5, <4>6, ElementIsMade DEF Later
      <4>8. r.error = "ok"
        <5>1. w.at \in Seq(Elements)
          BY <2>1 DEF Sound, TreeInv, IsTree
        <5> QED
          BY <1>0, <4>5, <5>1, NumberIsNotRefused
      <4> HIDE DEF r
      <4>9. Made(r, t0)
        BY <2>2, <4>7, <4>8
      <4> QED
        BY <4>2, <4>9
    <3> QED
      BY <3>3, <3>4
  <2> QED
    BY <2>3, <2>4, <2>5
<1> QED
  BY <1>1, <1>2

LEMMA NamesOfPath ==
  ASSUME NEW n \in Nat \ {0}, NEW S, NEW namePath \in [1 .. n -> S]
  PROVE  Front(namePath) \in Seq(S) /\ Last(namePath) \in S /\ Len(namePath) = n
<1>1. namePath \in Seq(S) /\ Len(namePath) = n
  OBVIOUS
<1>2. n - 1 \in Nat /\ n - 1 <= n /\ n \in 1 .. n
  OBVIOUS
<1>3. Front(namePath) = SubSeq(namePath, 1, n - 1) /\ Last(namePath) = namePath[n]
  BY <1>1, <1>2 DEF Front, Last
<1>4. SubSeq(namePath, 1, n - 1) \in Seq(S)
  BY <1>1, <1>2
<1> QED
  BY <1>1, <1>2, <1>3, <1>4

LEMMA SectionNames ==
  ASSUME NEW namePath \in SectionPaths
  PROVE  /\ Front(namePath) \in Seq(Names \ MetaNames)
         /\ Last(namePath) \in Names \ MetaNames
<1>1. PICK n \in 1 .. MaxPath : namePath \in [1 .. n -> Names \ MetaNames]
  BY DEF SectionPaths
<1>2. n \in Nat \ {0}
  BY BoundsAssumption
<1> QED
  BY <1>1, <1>2, NamesOfPath

LEMMA ValueNames ==
  ASSUME NEW namePath \in ValuePaths
  PROVE  Front(namePath) \in Seq(Names) /\ Last(namePath) \in Names
<1>1. PICK n \in 1 .. MaxPath : namePath \in [1 .. n -> Names]
  BY DEF ValuePaths
<1>2. n \in Nat \ {0}
  BY BoundsAssumption
<1> QED
  BY <1>1, <1>2, NamesOfPath

\* A value that is not refused may be added, and no assertion fails.
LEMMA ValueMayGrow ==
  ASSUME NEW t, Sound(t), NEW at \in DOMAIN t, t[at] \in MapTypes, NEW name \in Names
  PROVE  /\ Refusal(t, at, name, "value") \in {"ok", "Syntax", "NameConflict"}
         /\ Refusal(t, at, name, "value") = "ok" =>
              /\ at = Root => name \in MetaNames
              /\ Append(at, name) \notin DOMAIN t => MayGrow(t, at, name, "value")
<1>1. t[at] \notin {"list", "value"}
  BY DEF MapTypes
<1>2. name \in RegularNames => name \notin TextNames
  BY NamesAssumption
<1>3. CASE at = Root
  <2>1. Refusal(t, at, name, "value") = IF name \notin MetaNames THEN "Syntax"
                                        ELSE IF name \in TextNames THEN "NameConflict" ELSE "ok"
    BY <1>3 DEF Refusal, RootRefusal
  <2>2. t[at] = "document"
    BY <1>3 DEF Sound, TreeInv, IsTree
  <2> QED
    BY <1>1, <2>1, <2>2 DEF MayGrow, ElementTypes, MapTypes, Names
<1>4. CASE at # Root
  <2>1. Refusal(t, at, name, "value") = ContainerRefusal(t, at, name, "value")
    BY <1>4 DEF Refusal
  <2>2. ContainerRefusal(t, at, name, "value") \in {"ok", "Syntax", "NameConflict"}
    BY <1>1 DEF ContainerRefusal
  <2>3. ASSUME ContainerRefusal(t, at, name, "value") = "ok", Append(at, name) \notin DOMAIN t
        PROVE  MayGrow(t, at, name, "value")
    <3>1. ~Mixes(t, at, name) /\ t[at] # "intermediate"
      BY <2>3 DEF ContainerRefusal, MapTypes
    <3> QED
      BY <1>1, <1>2, <1>4, <2>3, <3>1 DEF MayGrow, Mixes, ElementTypes, MapTypes, Names
  <2> QED
    BY <1>4, <2>1, <2>2, <2>3
<1> QED
  BY <1>3, <1>4

\* At the root, a value with a name that is taken changes nothing in the tree.
LEMMA TakenRootName ==
  ASSUME NEW t, Sound(t), NEW name \in MetaNames, Append(Root, name) \in DOMAIN t
  PROVE  Grow(t, Root, name, "value") = t
<1> DEFINE child == Append(Root, name)
<1>1. name \in Elements /\ name \notin TextNames
  BY NamesAssumption DEF Elements, Names
<1>2. child # Root /\ Last(child) = name
  BY <1>1, RootIsAPath, PathProperties
<1>3. t[child] = "value"
  BY <1>2 DEF Sound, TreeInv, Fits
<1>4. t = [q \in DOMAIN t |-> t[q]]
  BY DEF Sound, TreeInv, IsTree
<1> HIDE DEF child
<1>5. Grow(t, Root, name, "value") = [q \in DOMAIN t \cup {child} |->
                                        IF q = child THEN "value" ELSE t[q]]
  BY <1>1 DEF Grow, child
<1>6. DOMAIN t \cup {child} = DOMAIN t
  BY DEF child
<1> QED
  BY <1>3, <1>4, <1>5, <1>6

-----------------------------------------------------------------------------
\* The invariant

\* The last section is a section that its names lead to.
Resolved(t, section) ==
  /\ section \in DOMAIN t
  /\ section # Root =>
       t[section] \in {"names", "texts"} /\ Leads(t, NamePathOf(section), section)

Inv ==
  /\ Sound(tree)
  /\ Resolved(tree, lastSection)
  /\ hidden \in Nat
  /\ outcome \in {"ok", "Syntax", "NameConflict"}

LEMMA ResolvedLater ==
  ASSUME NEW t, Sound(t), NEW t2, Later(t, t2), NEW section, Resolved(t, section)
  PROVE  Resolved(t2, section)
<1>1. section \in DOMAIN t2
  BY DEF Resolved, Later, Kept
<1>2. ASSUME section # Root
      PROVE  t2[section] \in {"names", "texts"} /\ Leads(t2, NamePathOf(section), section)
  <2>1. section \in Seq(Elements)
    BY DEF Resolved, Sound, TreeInv, IsTree
  <2>2. NamePathOf(section) \in Seq(Names)
    BY <2>1, NamePathIsNames
  <2>3. t[section] \in {"names", "texts"} /\ Leads(t, NamePathOf(section), section)
    BY <1>2 DEF Resolved
  <2>4. Leads(t2, NamePathOf(section), section)
    BY <2>2, <2>3, LaterLeads
  <2> QED
    BY <2>3, <2>4 DEF Resolved, Later, Kept
<1> QED
  BY <1>1, <1>2 DEF Resolved

LEMMA EmptyIsSound == Sound(EmptyDocument)
<1>1. DOMAIN EmptyDocument = {Root} /\ EmptyDocument[Root] = "document"
  BY DEF EmptyDocument
<1>2. IsTree(EmptyDocument)
  <2>1. EmptyDocument \in [DOMAIN EmptyDocument -> ElementTypes]
    BY DEF EmptyDocument, ElementTypes, MapTypes
  <2> QED
    BY <1>1, <2>1, RootIsAPath DEF IsTree
<1> QED
  BY <1>1, <1>2 DEF Sound, TreeInv, NoEmptyList

LEMMA InvInit == Init => Inv
<1> SUFFICES ASSUME Init PROVE Inv
  OBVIOUS
<1>1. tree = [path \in {Root} |-> "document"] /\ lastSection = Root /\ hidden = 0 /\ outcome = "ok"
  BY DEF Init, EmptyDocument, NoSection
<1>2. Sound(tree)
  BY <1>1, EmptyIsSound DEF EmptyDocument
<1> QED
  BY <1>1, <1>2 DEF Inv, Resolved

\* What a call leaves of the tree, other than a reset.
Promise ==
  /\ tree' # EmptyDocument => Kept(tree, tree')
  /\ outcome' # "ok" =>
       /\ \A path \in DOMAIN tree' \ DOMAIN tree : tree'[path] \in {"intermediate", "texts"}
       /\ UNCHANGED <<lastSection, hidden>>

LEMMA FinishKeeps ==
  ASSUME Inv, NEW v, Made(v, tree), FinishSection(v)
  PROVE  Inv' /\ Promise
<1>1. /\ tree' = v.tree /\ outcome' = v.error /\ hidden' = hidden
      /\ lastSection' = IF v.error # "ok" THEN lastSection ELSE v.at
  BY DEF FinishSection, Failed
<1>2. Sound(tree') /\ Kept(tree, tree')
  BY <1>1 DEF Made
<1>3. Resolved(tree', lastSection')
  <2>1. CASE v.error # "ok"
    BY <1>1, <2>1, ResolvedLater DEF Inv, Made
  <2>2. CASE v.error = "ok"
    BY <1>1, <2>2 DEF Made, Resolved
  <2> QED
    BY <2>1, <2>2
<1> QED
  BY <1>1, <1>2, <1>3 DEF Inv, Made, Promise

\* The walk of addValue.
LEMMA ValueWalk ==
  ASSUME Inv, NEW namePath \in ValuePaths
  PROVE  \E names : Walked(ResolveForValue(namePath), tree, names)
<1>1. CASE Len(namePath) = 1
  <2>1. ResolveForValue(namePath) = At(tree, lastSection)
    BY <1>1 DEF ResolveForValue, StartAt, At
  <2>2. lastSection \in DOMAIN tree /\ tree[lastSection] \in MapTypes
    BY DEF Inv, Resolved, Sound, TreeInv, IsTree, MapTypes
  <2>3. Walked(At(tree, lastSection), tree, NamePathOf(lastSection))
    BY <2>2 DEF Walked, At, Refused
  <2> QED
    BY <2>1, <2>3
<1>2. CASE Len(namePath) # 1
  <2>1. ResolveForValue(namePath) = Folded(At(tree, Root), Front(namePath), "existing")
    BY <1>2 DEF ResolveForValue, StartAt, At, Folded
  <2> QED
    BY <2>1, ValueNames, ExistingWalk DEF Inv
<1> QED
  BY <1>1, <1>2

LEMMA AddValueKeeps ==
  ASSUME Inv, NEW namePath \in ValuePaths, AddValue(namePath)
  PROVE  Inv' /\ Promise
<1> DEFINE name == Last(namePath)
           section == ResolveForValue(namePath)
           at == section.at
           taken == ~Failed(section) /\ Append(section.at, name) \in DOMAIN tree
           w == AddChildValue(section, name, "value")
<1>1. name \in Names
  BY ValueNames
<1>2. PICK names : Walked(section, tree, names)
  BY ValueWalk
<1>3. /\ lastSection' = lastSection
      /\ \/ /\ taken /\ at # Root
            /\ outcome' = "NameConflict" /\ tree' = tree /\ hidden' = hidden
         \/ /\ ~(taken /\ at # Root)
            /\ outcome' = w.error /\ tree' = w.tree
            /\ hidden' = hidden + IF taken /\ ~Failed(w) THEN 1 ELSE 0
  BY DEF AddValue
<1> HIDE DEF name, section
<1>4. Sound(tree) /\ Resolved(tree, lastSection) /\ hidden \in Nat
  BY DEF Inv
<1>5. ASSUME tree' = tree, hidden' = hidden, outcome' \in {"Syntax", "NameConflict"}
      PROVE  Inv' /\ Promise
  BY <1>3, <1>4, <1>5 DEF Inv, Promise, Kept
<1>6. CASE Failed(section)
  <2>1. w = section
    BY <1>6 DEF AddChildValue
  <2>2. section.tree = tree /\ section.error \in {"Syntax", "NameConflict"}
    <3>1. section = Refused(tree, section.at, section.error)
      BY <1>2 DEF Walked
    <3>2. \A a, e : Refused(tree, a, e).tree = tree
      BY DEF Refused
    <3> QED
      BY <1>2, <1>6, <3>1, <3>2 DEF Walked, Failed
  <2> QED
    BY <1>3, <1>4, <1>5, <1>6, <2>1, <2>2
<1>7. CASE ~Failed(section)
  <2>1. section = At(tree, at) /\ at \in DOMAIN tree /\ tree[at] \in MapTypes
    BY <1>2, <1>7 DEF Walked, Failed, At, Refused
  <2> DEFINE refusal == Refusal(tree, at, name, "value")
             t2 == Grow(tree, at, name, "value")
  <2>2. /\ refusal \in {"ok", "Syntax", "NameConflict"}
        /\ refusal = "ok" =>
             /\ at = Root => name \in MetaNames
             /\ Append(at, name) \notin DOMAIN tree => MayGrow(tree, at, name, "value")
    BY <1>1, <1>4, <2>1, ValueMayGrow
  <2>3. w = IF refusal = "ok" THEN At(t2, Append(at, name)) ELSE Refused(tree, at, refusal)
    BY <2>1, AddChildGrows
  <2>4. CASE taken /\ at # Root
    BY <1>3, <1>5, <2>4
  <2>5. CASE ~(taken /\ at # Root) /\ refusal # "ok"
    <3>1. w.tree = tree /\ w.error = refusal /\ Failed(w)
      BY <2>3, <2>5 DEF Refused, Failed
    <3> HIDE DEF w, refusal
    <3> QED
      BY <1>3, <1>4, <1>5, <2>2, <2>5, <3>1
  <2>6. CASE ~(taken /\ at # Root) /\ refusal = "ok"
    <3>1. w.tree = t2 /\ w.error = "ok"
      BY <2>3, <2>6 DEF At
    <3>2. Sound(t2) /\ Later(tree, t2)
      <4>1. CASE taken
        <5>1. t2 = tree
          BY <1>4, <2>2, <2>6, <4>1, TakenRootName
        <5> QED
          BY <1>4, <5>1, LaterIsReflexive
      <4>2. CASE ~taken
        <5>1. MayGrow(tree, at, name, "value") /\ tree[at] # "list"
          BY <1>7, <2>1, <2>2, <2>6, <4>2 DEF MapTypes
        <5> QED
          BY <1>4, <5>1, GrowIsSound, GrowIsLater
      <4> QED
        BY <4>1, <4>2
    <3>3. Resolved(t2, lastSection)
      BY <1>4, <3>2, ResolvedLater
    <3> HIDE DEF w, t2, taken
    <3>4. tree' = t2 /\ outcome' = "ok" /\ hidden' \in Nat /\ lastSection' = lastSection
      BY <1>3, <1>4, <2>6, <3>1
    <3> QED
      BY <3>2, <3>3, <3>4 DEF Inv, Promise, Later
  <2> QED
    BY <2>4, <2>5, <2>6
<1> QED
  BY <1>6, <1>7

LEMMA InvNext ==
  ASSUME Inv, [Next]_vars
  PROVE  Inv' /\ [Promise]_vars
<1>1. ASSUME NEW namePath \in SectionPaths, AddSectionMap(namePath)
      PROVE  Inv' /\ Promise
  <2>1. Created(ResolveForSection(namePath), tree, Front(namePath))
    <3>1. ResolveForSection(namePath) = FoldLeft(EnterOrCreate, At(tree, Root), Front(namePath))
      BY DEF ResolveForSection, StartAt, At
    <3> QED
      BY <3>1, SectionNames, CreateWalk DEF Inv
  <2>2. Made(MakeSection(ResolveForSection(namePath), Last(namePath)), tree)
    BY <2>1, SectionNames, SectionIsMade
  <2> QED
    BY <1>1, <2>2, FinishKeeps DEF AddSectionMap
<1>2. ASSUME NEW namePath \in SectionPaths, AddSectionList(namePath)
      PROVE  Inv' /\ Promise
  <2>1. CASE Last(namePath) \in TextNames
    <3>1. outcome' = "Syntax" /\ UNCHANGED <<tree, hidden, lastSection>>
      BY <1>2, <2>1 DEF AddSectionList
    <3> QED
      BY <3>1 DEF Inv, Promise, Kept
  <2>2. CASE Last(namePath) \notin TextNames
    <3>1. Created(ResolveForSection(namePath), tree, Front(namePath))
      <4>1. ResolveForSection(namePath) = FoldLeft(EnterOrCreate, At(tree, Root), Front(namePath))
        BY DEF ResolveForSection, StartAt, At
      <4> QED
        BY <4>1, SectionNames, CreateWalk DEF Inv
    <3>2. Made(MakeElement(ResolveForSection(namePath), Last(namePath)), tree)
      BY <2>2, <3>1, SectionNames, ListElementIsMade
    <3> QED
      BY <1>2, <2>2, <3>2, FinishKeeps DEF AddSectionList
  <2> QED
    BY <2>1, <2>2
<1>3. ASSUME NEW namePath \in ValuePaths, AddValue(namePath)
      PROVE  Inv' /\ Promise
  BY <1>3, AddValueKeeps
<1>4. CASE Reset
  <2>1. tree' = EmptyDocument /\ hidden' = 0 /\ lastSection' = Root /\ outcome' = "ok"
    BY <1>4 DEF Reset, NoSection
  <2>2. Root \in DOMAIN tree'
    BY <2>1 DEF EmptyDocument
  <2> QED
    BY <2>1, <2>2, EmptyIsSound DEF Inv, Promise, Resolved
<1>5. CASE UNCHANGED vars
  BY <1>5 DEF Inv, vars
<1> QED
  BY <1>1, <1>2, <1>3, <1>4, <1>5 DEF Next

-----------------------------------------------------------------------------
\* The theorems

\* After every sequence of calls, the tree is sound, the last section is led to by
\* its names, and no assertion of the builder has failed.
THEOREM InvIsInvariant == Spec => []Inv
<1>1. Inv /\ [Next]_vars => Inv'
  BY InvNext
<1> QED
  BY InvInit, <1>1, PTL DEF Spec

\* Text names and regular names are never mixed in a container, whatever the order
\* in which sections and values were added.
THEOREM NamesNeverMix == Spec => []NamesAreNotMixed
<1>1. Inv => NamesAreNotMixed
  BY DEF Inv, Sound, TreeInv, Fits, NamesAreNotMixed
<1> QED
  BY InvIsInvariant, <1>1, PTL

\* Nothing is below a value, values are only in sections that are defined, and the
\* elements of every section list are numbered without a gap.
THEOREM TreeStaysWellFormed == Spec => []TreeIsWellFormed
<1>1. ASSUME Inv, NEW path \in DOMAIN tree \ {Root}
      PROVE  /\ Front(path) \in DOMAIN tree
             /\ tree[Front(path)] # "value"
             /\ tree[path] = "value" => tree[Front(path)] # "intermediate"
  BY <1>1 DEF Inv, Sound, TreeInv, Fits
<1>2. ASSUME Inv, NEW path \in DOMAIN tree, tree[path] = "list"
      PROVE  LET elements == Children(tree, path) IN
               /\ elements # {}
               /\ {Last(p) : p \in elements} = 1 .. Cardinality(elements)
               /\ \A p \in elements : tree[p] \in {"names", "texts"}
  <2>1. path \in Seq(Elements) /\ TreeInv(tree)
    BY <1>2 DEF Inv, Sound, TreeInv, IsTree
  <2>2. PICK n \in Nat : Numbered(tree, path, n)
    BY <1>2 DEF Inv, Sound, TreeInv
  <2>3. Cardinality(Children(tree, path)) = n
    BY <2>1, <2>2, CountOfNumbered
  <2>4. Children(tree, path) = {Append(path, i) : i \in 1 .. n}
    BY <2>2 DEF Numbered
  <2>5. \A i \in 1 .. n : Last(Append(path, i)) = i /\ i \in Nat
    BY <2>1, PathProperties DEF Elements
  <2>6. {Last(p) : p \in Children(tree, path)} = 1 .. n
    <3>1. \A p \in Children(tree, path) : Last(p) \in 1 .. n
      BY <2>4, <2>5
    <3>2. \A i \in 1 .. n : \E p \in Children(tree, path) : Last(p) = i
      BY <2>4, <2>5
    <3> QED
      BY <3>1, <3>2
  <2>7. Children(tree, path) # {}
    BY <1>2 DEF Inv, Sound, NoEmptyList
  <2>8. ASSUME NEW p \in Children(tree, path)
        PROVE  tree[p] \in {"names", "texts"}
    <3>1. Last(p) \in Nat
      BY <2>4, <2>5
    <3> QED
      BY <2>1, <3>1 DEF Children, TreeInv, Fits
  <2> QED
    BY <2>3, <2>6, <2>7, <2>8
<1>3. Inv => TreeIsWellFormed
  BY <1>1, <1>2 DEF TreeIsWellFormed
<1> QED
  BY InvIsInvariant, <1>3, PTL

\* The section to which values are added by their name alone is the one that its
\* full name path leads to, also after calls that failed half way.
THEOREM LastSectionLeadsToItself == Spec => []LastSectionIsResolved
<1>1. Inv => LastSectionIsResolved
  <2> SUFFICES ASSUME Inv, lastSection # Root
               PROVE  /\ tree[lastSection] \in {"names", "texts"}
                      /\ LET w == FoldLeft(EnterExisting, StartAt(Root), NamePathOf(lastSection))
                         IN ~Failed(w) /\ w.at = lastSection
    BY DEF LastSectionIsResolved, NoSection
  <2> DEFINE w == FoldLeft(EnterExisting, StartAt(Root), NamePathOf(lastSection))
  <2>1. /\ tree[lastSection] \in {"names", "texts"}
        /\ Leads(tree, NamePathOf(lastSection), lastSection)
    BY DEF Inv, Resolved
  <2>2. w = Folded(At(tree, Root), NamePathOf(lastSection), "existing")
    BY DEF Folded, StartAt, At
  <2> HIDE DEF w
  <2>3. w = At(tree, lastSection)
    BY <2>1, <2>2 DEF Leads
  <2>4. ~Failed(w) /\ w.at = lastSection
    BY <2>3 DEF At, Failed
  <2> QED
    BY <2>1, <2>4 DEF w
<1> QED
  BY InvIsInvariant, <1>1, PTL

\* None of the builder's assertions and none of its checks against a forbidden
\* change of a type ever fails.
THEOREM AssertionsNeverFail == Spec => []NoLogicError
<1>1. Inv => NoLogicError
  BY DEF Inv, NoLogicError
<1> QED
  BY InvIsInvariant, <1>1, PTL

\* No element is lost or replaced before the builder is reset.
THEOREM NoElementIsLost == Spec => NothingIsLost
<1> DEFINE P == tree' # EmptyDocument =>
                  \A path \in DOMAIN tree :
                    /\ path \in DOMAIN tree'
                    /\ \/ tree'[path] = tree[path]
                       \/ tree[path] = "intermediate" /\ tree'[path] = "names"
                       \/ /\ tree[path] \in {"intermediate", "names"}
                          /\ tree'[path] = "texts"
                          /\ Children(tree, path) = {}
<1>1. Inv /\ [Next]_vars => [P]_vars
  <2> SUFFICES ASSUME Inv, [Next]_vars, ~UNCHANGED vars PROVE P
    OBVIOUS
  <2>1. Promise
    BY InvNext
  <2> QED
    BY <2>1 DEF Promise, Kept
<1> QED
  BY InvIsInvariant, <1>1, PTL DEF Spec, NothingIsLost

\* A call that fails leaves nothing behind but sections that nobody defined.
THEOREM FailuresLeaveNoContent == Spec => FailureAddsNoContent
<1> DEFINE P == outcome' # "ok" =>
                  /\ \A path \in DOMAIN tree' \ DOMAIN tree : tree'[path] \in {"intermediate", "texts"}
                  /\ UNCHANGED <<lastSection, hidden>>
<1>1. Inv /\ [Next]_vars => [P]_vars
  <2> SUFFICES ASSUME Inv, [Next]_vars, ~UNCHANGED vars PROVE P
    OBVIOUS
  <2>1. Promise
    BY InvNext
  <2> QED
    BY <2>1 DEF Promise
<1> QED
  BY InvIsInvariant, <1>1, PTL DEF Spec, FailureAddsNoContent
=============================================================================
