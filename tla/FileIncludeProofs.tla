-------------------------- MODULE FileIncludeProofs --------------------------
(***************************************************************************)
(* Proofs about FileInclude, for any file systems, include texts, features *)
(* and limits, and any number of changes made by other programs.           *)
(***************************************************************************)
EXTENDS FileInclude, FiniteSetTheorems, SequenceTheorems, WellFoundedInduction, TLAPS

\* What holds at the start of a range and is handed on holds everywhere in it.
LEMMA RangeInduction ==
  ASSUME NEW n \in Nat, NEW S, 0 \in S, \A i \in 0 .. n - 1 : i \in S => i + 1 \in S
  PROVE  \A i \in 0 .. n : i \in S
<1> DEFINE Missing == (0 .. n) \ S
           Less == OpToRel(<, Nat)
<1> SUFFICES ASSUME Missing # {} PROVE FALSE
  OBVIOUS
<1>1. Missing \subseteq Nat
  OBVIOUS
<1>2. IsWellFoundedOn(Less, Nat)
  BY NatLessThanWellFounded
<1>3. PICK i \in Missing : \A j \in Missing : ~(<<j, i>> \in Less)
  <2> HIDE DEF Missing, Less
  <2> QED
    BY <1>1, <1>2, WFMin
<1>4. i \in 1 .. n /\ i \notin S
  OBVIOUS
<1>5. i - 1 \in 0 .. n - 1 /\ (i - 1) + 1 = i /\ i - 1 \in Nat /\ i - 1 < i /\ i \in Nat
  BY <1>4
<1>6. i - 1 \notin S
  BY <1>4, <1>5
<1>7. i - 1 \in Missing
  BY <1>5, <1>6
<1>8. <<i - 1, i>> \in Less
  BY <1>5 DEF OpToRel
<1> QED
  BY <1>3, <1>7, <1>8

-----------------------------------------------------------------------------
(* A lookup, step by step *)

IsRun(f, system, path, k) ==
  f = [n \in 0 .. k |-> IF n = 0 THEN StartOfLookup(path) ELSE Follow(system, f[n - 1])]

LEMMA RunExists ==
  ASSUME NEW system, NEW path, NEW k \in Nat
  PROVE  \E f : IsRun(f, system, path, k)
<1> DEFINE S == {i \in 0 .. k : \E f : IsRun(f, system, path, i)}
<1>1. 0 \in S
  <2> DEFINE f == [n \in 0 .. 0 |-> StartOfLookup(path)]
  <2>1. IsRun(f, system, path, 0)
    BY DEF IsRun
  <2> QED
    BY <2>1
<1>2. ASSUME NEW i \in 0 .. k - 1, i \in S
      PROVE  i + 1 \in S
  <2>1. PICK f : IsRun(f, system, path, i)
    BY <1>2
  <2> DEFINE g == [n \in 0 .. i + 1 |-> IF n = 0 THEN StartOfLookup(path) ELSE Follow(system, f[n - 1])]
  <2>2. \A n \in 0 .. i : g[n] = f[n]
    BY <2>1 DEF IsRun
  <2>3. \A n \in 0 .. i + 1 : n # 0 => n - 1 \in 0 .. i
    OBVIOUS
  <2>4. g = [n \in 0 .. i + 1 |-> IF n = 0 THEN StartOfLookup(path) ELSE Follow(system, g[n - 1])]
    BY <2>2, <2>3
  <2>5. IsRun(g, system, path, i + 1)
    <3> HIDE DEF g
    <3> QED
      BY <2>4 DEF IsRun
  <2>6. i + 1 \in 0 .. k
    OBVIOUS
  <2> QED
    BY <2>5, <2>6
<1> HIDE DEF S
<1>3. \A i \in 0 .. k : i \in S
  BY <1>1, <1>2, RangeInduction, Zenon
<1> QED
  BY <1>3 DEF S

After(system, path) == CHOOSE f : IsRun(f, system, path, MaxSteps)

LEMMA RunOfLookup ==
  ASSUME NEW system, NEW path
  PROVE  /\ After(system, path)[0] = StartOfLookup(path)
         /\ \A n \in 0 .. MaxSteps - 1 :
              After(system, path)[n + 1] = Follow(system, After(system, path)[n])
         /\ LET last == After(system, path)[MaxSteps]
            IN  Lookup(system, path) =
                  IF last.status = "follows" THEN [last EXCEPT !.status = "loop"] ELSE last
<1> DEFINE f == After(system, path)
<1>1. MaxSteps \in Nat
  BY DEF MaxSteps
<1>2. IsRun(f, system, path, MaxSteps)
  <2>1. \E r : IsRun(r, system, path, MaxSteps)
    BY <1>1, RunExists, Zenon
  <2> QED
    BY <2>1, Zenon DEF After
<1>3. f = [n \in 0 .. MaxSteps |-> IF n = 0 THEN StartOfLookup(path) ELSE Follow(system, f[n - 1])]
  BY <1>2 DEF IsRun
<1>4. Lookup(system, path) =
        LET last == f[MaxSteps]
        IN  IF last.status = "follows" THEN [last EXCEPT !.status = "loop"] ELSE last
  BY Zenon DEF Lookup, After, IsRun
<1> HIDE DEF f
<1>5. f[0] = StartOfLookup(path)
  BY <1>1, <1>3
<1>6. ASSUME NEW n \in 0 .. MaxSteps - 1 PROVE f[n + 1] = Follow(system, f[n])
  <2>1. n + 1 \in 0 .. MaxSteps /\ n + 1 # 0 /\ (n + 1) - 1 = n
    BY <1>1
  <2> QED
    BY <1>3, <2>1
<1> QED
  BY <1>4, <1>5, <1>6 DEF f

\* A path with real names only: every entry on it exists and is no link.
IsReal(system, path) ==
  /\ path \in Paths
  /\ \A i \in 1 .. Len(path) :
       /\ Entry(system, SubSeq(path, 1, i)).kind \notin {"none", "link"}
       /\ Entry(system, SubSeq(path, 1, i - 1)).kind = "dir"
       /\ path[i] \notin {<<".">>, <<".", ".">>}

LookupRecord(s) == s = [status |-> s.status, path |-> s.path, rest |-> s.rest, trail |-> s.trail]

\* The state of a lookup after n steps.
IsAfter(system, s, n) ==
  /\ LookupRecord(s)
  /\ s.status \in {"follows", "found", "missing"}
  /\ IsReal(system, s.path)
  /\ Len(s.path) <= n
  /\ s.status = "found" => Len(s.path) < n

LEMMA ParentIsReal ==
  ASSUME NEW system, NEW path, IsReal(system, path)
  PROVE  /\ IsReal(system, ParentPath(path))
         /\ Len(ParentPath(path)) <= Len(path)
<1>1. CASE path = <<>>
  <2>1. ParentPath(path) = path
    BY <1>1 DEF ParentPath
  <2>2. Len(path) \in Nat
    BY DEF IsReal, Paths
  <2> QED
    BY <2>1, <2>2
<1>2. CASE path # <<>>
  <2> DEFINE p == SubSeq(path, 1, Len(path) - 1)
  <2>1. path \in Seq(Texts) /\ Len(path) \in Nat \ {0}
    BY <1>2 DEF IsReal, Paths
  <2>2. p \in Seq(Texts) /\ Len(p) = Len(path) - 1 /\ \A i \in 1 .. Len(p) : p[i] = path[i]
    <3>1. 1 \in Int /\ Len(path) - 1 \in Int /\ \A i \in 1 .. Len(path) - 1 : path[i] \in Texts
      BY <2>1
    <3>2. /\ p \in Seq(Texts)
          /\ Len(p) = IF 1 <= Len(path) - 1 THEN (Len(path) - 1) - 1 + 1 ELSE 0
          /\ \A i \in 1 .. (Len(path) - 1) - 1 + 1 : p[i] = path[1 + i - 1]
      BY <3>1, SubSeqProperties
    <3> HIDE DEF p
    <3>3. Len(p) = Len(path) - 1
      <4>1. CASE 1 <= Len(path) - 1
        BY <2>1, <3>2, <4>1
      <4>2. CASE ~(1 <= Len(path) - 1)
        <5>1. Len(path) - 1 = 0
          BY <2>1, <4>2
        <5> QED
          BY <3>2, <4>2, <5>1
      <4> QED
        BY <4>1, <4>2
    <3>4. ASSUME NEW i \in 1 .. Len(p) PROVE p[i] = path[i]
      <4>1. i \in 1 .. (Len(path) - 1) - 1 + 1 /\ 1 + i - 1 = i
        BY <2>1, <3>3
      <4> QED
        BY <3>2, <4>1
    <3> QED
      BY <3>2, <3>3, <3>4
  <2>3. \A i \in 0 .. Len(p) : SubSeq(p, 1, i) = SubSeq(path, 1, i)
    BY <2>1, <2>2
  <2>4. ParentPath(path) = p
    BY <1>2 DEF ParentPath, Front
  <2> HIDE DEF p
  <2>5. ASSUME NEW i \in 1 .. Len(p)
        PROVE  /\ Entry(system, SubSeq(p, 1, i)).kind \notin {"none", "link"}
               /\ Entry(system, SubSeq(p, 1, i - 1)).kind = "dir"
               /\ p[i] \notin {<<".">>, <<".", ".">>}
    <3>1. i \in 0 .. Len(p) /\ i - 1 \in 0 .. Len(p) /\ i \in 1 .. Len(path)
      BY <2>1, <2>2
    <3>2. SubSeq(p, 1, i) = SubSeq(path, 1, i) /\ SubSeq(p, 1, i - 1) = SubSeq(path, 1, i - 1)
      BY <2>3, <3>1
    <3> QED
      BY <2>2, <3>1, <3>2 DEF IsReal
  <2>6. IsReal(system, p)
    BY <2>2, <2>5 DEF IsReal, Paths
  <2> QED
    BY <2>1, <2>2, <2>4, <2>6
<1> QED
  BY <1>1, <1>2

LEMMA NextIsReal ==
  ASSUME NEW system, IsFileSystem(system), NEW path, IsReal(system, path), NEW name,
         Entry(system, path).kind = "dir",
         name \notin {<<".">>, <<".", ".">>},
         Entry(system, Append(path, name)).kind \notin {"none", "link"}
  PROVE  IsReal(system, Append(path, name)) /\ Len(Append(path, name)) = Len(path) + 1
<1> DEFINE next == Append(path, name)
<1>1. path \in Seq(Texts)
  BY DEF IsReal, Paths
<1>2. next \in Seq(Texts)
  <2>1. next \in DOMAIN system
    BY DEF Entry, NoEntry
  <2> QED
    BY <2>1 DEF IsFileSystem, Paths
<1>3. path \in Seq(Texts \cup {name}) /\ name \in Texts \cup {name}
  BY <1>1
<1>4. /\ Len(next) = Len(path) + 1 /\ next[Len(path) + 1] = name
      /\ \A i \in 1 .. Len(path) : next[i] = path[i]
  BY <1>3
<1>5. SubSeq(next, 1, Len(path) + 1) = next
  BY <1>2, <1>4
<1>6. \A i \in 0 .. Len(path) : SubSeq(next, 1, i) = SubSeq(path, 1, i)
  BY <1>1, <1>2, <1>4
<1>7. SubSeq(path, 1, Len(path)) = path
  BY <1>1
<1>8. Entry(system, next).kind \notin {"none", "link"}
  OBVIOUS
<1> HIDE DEF next
<1>9. ASSUME NEW i \in 1 .. Len(next)
      PROVE  /\ Entry(system, SubSeq(next, 1, i)).kind \notin {"none", "link"}
             /\ Entry(system, SubSeq(next, 1, i - 1)).kind = "dir"
             /\ next[i] \notin {<<".">>, <<".", ".">>}
  <2>1. Len(path) \in Nat
    BY <1>1
  <2>2. CASE i = Len(path) + 1
    <3>1. SubSeq(next, 1, i - 1) = path
      BY <1>6, <1>7, <2>1, <2>2
    <3> QED
      BY <1>4, <1>5, <1>8, <2>2, <3>1
  <2>3. CASE i # Len(path) + 1
    <3>1. i \in 1 .. Len(path) /\ i \in 0 .. Len(path) /\ i - 1 \in 0 .. Len(path)
      BY <1>4, <2>1, <2>3
    <3>2. SubSeq(next, 1, i) = SubSeq(path, 1, i) /\ SubSeq(next, 1, i - 1) = SubSeq(path, 1, i - 1)
      BY <1>6, <3>1
    <3> QED
      BY <1>4, <3>1, <3>2 DEF IsReal
  <2> QED
    BY <2>2, <2>3
<1>10. IsReal(system, next)
  BY <1>2, <1>9 DEF IsReal, Paths
<1> QED
  BY <1>4, <1>10 DEF next

\* One step adds at most one name, and only real ones.
LEMMA FollowKeepsReal ==
  ASSUME NEW system, IsFileSystem(system), NEW n \in Nat, NEW s, IsAfter(system, s, n)
  PROVE  IsAfter(system, Follow(system, s), n + 1)
<1> DEFINE name == Head(s.rest)
           next == Append(s.path, name)
           entry == Entry(system, next)
<1>1. /\ LookupRecord(s) /\ IsReal(system, s.path) /\ Len(s.path) <= n
      /\ s.status \in {"follows", "found", "missing"} /\ (s.status = "found" => Len(s.path) < n)
  BY DEF IsAfter
<1>2. Len(s.path) \in Nat /\ <<>> \in Paths /\ Len(<<>>) = 0
  <2>1. s.path \in Seq(Texts)
    BY <1>1 DEF IsReal, Paths
  <2> QED
    BY <2>1 DEF Paths
<1>3. CASE s.status # "follows"
  <2>1. Follow(system, s) = s
    BY <1>3 DEF Follow
  <2> QED
    BY <1>1, <1>2, <2>1 DEF IsAfter
<1>4. CASE s.status = "follows" /\ s.rest = <<>>
  <2>1. Follow(system, s) = [status |-> "found", path |-> s.path, rest |-> s.rest, trail |-> s.trail]
    BY <1>1, <1>4 DEF Follow, LookupRecord
  <2> QED
    BY <1>1, <1>2, <2>1 DEF IsAfter, LookupRecord
<1>5. CASE s.status = "follows" /\ s.rest # <<>> /\ Entry(system, s.path).kind # "dir"
  <2>1. Follow(system, s) = [status |-> "missing", path |-> s.path, rest |-> s.rest, trail |-> s.trail]
    BY <1>1, <1>5 DEF Follow, LookupRecord
  <2> QED
    BY <1>1, <1>2, <2>1 DEF IsAfter, LookupRecord
<1>6. CASE s.status = "follows" /\ s.rest # <<>> /\ Entry(system, s.path).kind = "dir"
  <2>1. CASE name = <<".">>
    <3>1. Follow(system, s) = [status |-> s.status, path |-> s.path, rest |-> Tail(s.rest), trail |-> s.trail]
      BY <1>1, <1>6, <2>1 DEF Follow, LookupRecord
    <3> QED
      BY <1>1, <1>2, <1>6, <3>1 DEF IsAfter, LookupRecord
  <2>2. CASE name = <<".", ".">>
    <3> DEFINE up == ParentPath(s.path)
    <3>1. Follow(system, s) = [status |-> s.status, path |-> up, rest |-> Tail(s.rest), trail |-> s.trail]
      <4>1. <<".", ".">> # <<".">>
        OBVIOUS
      <4>2. Follow(system, s) =
              LET moved == [s EXCEPT !.rest = Tail(@)] IN [moved EXCEPT !.path = ParentPath(@)]
        BY <1>6, <2>2, <4>1, Zenon DEF Follow
      <4> QED
        BY <1>1, <4>2 DEF LookupRecord
    <3>2. IsReal(system, up) /\ Len(up) <= Len(s.path)
      BY <1>1, ParentIsReal
    <3>3. Len(up) \in Nat
      BY <3>2 DEF IsReal, Paths
    <3> HIDE DEF up
    <3> QED
      BY <1>1, <1>2, <1>6, <3>1, <3>2, <3>3 DEF IsAfter, LookupRecord
  <2>3. CASE name \notin {<<".">>, <<".", ".">>} /\ entry.kind = "none"
    <3>1. Follow(system, s) =
            [status |-> "missing", path |-> s.path, rest |-> Tail(s.rest), trail |-> s.trail \cup {next}]
      BY <1>1, <1>6, <2>3 DEF Follow, LookupRecord
    <3> QED
      BY <1>1, <1>2, <1>6, <3>1 DEF IsAfter, LookupRecord
  <2>4. CASE name \notin {<<".">>, <<".", ".">>} /\ entry.kind = "link"
    <3>1. Follow(system, s) =
            [status |-> s.status, path |-> <<>>, rest |-> entry.target \o Tail(s.rest),
             trail |-> s.trail \cup {next}]
      BY <1>1, <1>6, <2>4 DEF Follow, LookupRecord
    <3>2. IsReal(system, <<>>)
      <4>1. 1 .. Len(<<>>) = {}
        BY <1>2
      <4> QED
        BY <1>2, <4>1, Zenon DEF IsReal
    <3> QED
      BY <1>1, <1>2, <1>6, <3>1, <3>2 DEF IsAfter, LookupRecord
  <2>5. CASE name \notin {<<".">>, <<".", ".">>} /\ entry.kind \notin {"none", "link"}
    <3>1. Follow(system, s) =
            [status |-> s.status, path |-> next, rest |-> Tail(s.rest), trail |-> s.trail \cup {next}]
      BY <1>1, <1>6, <2>5 DEF Follow, LookupRecord
    <3>2. IsReal(system, next) /\ Len(next) = Len(s.path) + 1
      BY <1>1, <1>6, <2>5, NextIsReal
    <3> HIDE DEF next
    <3> QED
      BY <1>1, <1>2, <1>6, <3>1, <3>2 DEF IsAfter, LookupRecord
  <2> QED
    BY <2>1, <2>2, <2>3, <2>4, <2>5
<1> QED
  BY <1>3, <1>4, <1>5, <1>6

\* A lookup that finds an entry gives a real path, that a lookup can walk again.
LEMMA FoundIsReal ==
  ASSUME NEW system, IsFileSystem(system), NEW path, Exists(system, path)
  PROVE  IsReal(system, Canonical(system, path)) /\ Len(Canonical(system, path)) < MaxSteps
<1> DEFINE f == After(system, path)
           S == {n \in 0 .. MaxSteps : IsAfter(system, f[n], n)}
<1>1. MaxSteps \in Nat
  BY DEF MaxSteps
<1>2. f[0] = StartOfLookup(path) /\ \A n \in 0 .. MaxSteps - 1 : f[n + 1] = Follow(system, f[n])
  BY RunOfLookup
<1>3. LET last == f[MaxSteps]
      IN  Lookup(system, path) =
            IF last.status = "follows" THEN [last EXCEPT !.status = "loop"] ELSE last
  BY RunOfLookup
<1> HIDE DEF f
<1>4. 0 \in S
  <2>1. Len(<<>>) = 0 /\ <<>> \in Paths
    BY DEF Paths
  <2>2. IsReal(system, <<>>)
    <3>1. 1 .. Len(<<>>) = {}
      BY <2>1
    <3> QED
      BY <2>1, <3>1, Zenon DEF IsReal
  <2>3. IsAfter(system, f[0], 0)
    BY <1>2, <2>1, <2>2 DEF IsAfter, LookupRecord, StartOfLookup
  <2> QED
    BY <1>1, <2>3
<1>5. ASSUME NEW n \in 0 .. MaxSteps - 1, n \in S
      PROVE  n + 1 \in S
  <2>1. n \in Nat /\ n + 1 \in 0 .. MaxSteps
    BY <1>1
  <2>2. IsAfter(system, f[n + 1], n + 1)
    BY <1>2, <1>5, <2>1, FollowKeepsReal
  <2> QED
    BY <2>1, <2>2
<1> HIDE DEF S
<1>6. \A n \in 0 .. MaxSteps : n \in S
  BY <1>1, <1>4, <1>5, RangeInduction, Zenon
<1>7. IsAfter(system, f[MaxSteps], MaxSteps)
  <2>1. MaxSteps \in 0 .. MaxSteps
    BY <1>1
  <2> QED
    BY <1>6, <2>1 DEF S
<1>8. Lookup(system, path).status = "found"
  BY DEF Exists
<1>9. f[MaxSteps].status # "follows"
  <2>1. SUFFICES ASSUME f[MaxSteps].status = "follows" PROVE FALSE
    OBVIOUS
  <2>2. Lookup(system, path).status = "loop"
    BY <1>3, <1>7, <2>1 DEF IsAfter, LookupRecord
  <2> QED
    BY <1>8, <2>2
<1>10. Lookup(system, path) = f[MaxSteps]
  BY <1>3, <1>9
<1> QED
  BY <1>7, <1>8, <1>10 DEF Canonical, IsAfter

\* A real path, followed for n steps.
OnTheWay(p, n, s) ==
  /\ LookupRecord(s)
  /\ n <= Len(p) => /\ s.status = "follows"
                    /\ s.path = SubSeq(p, 1, n)
                    /\ s.rest = SubSeq(p, n + 1, Len(p))
  /\ n > Len(p) => s.status = "found" /\ s.path = p

LEMMA FollowRealPath ==
  ASSUME NEW system, NEW p, IsReal(system, p), NEW n \in Nat, NEW s, OnTheWay(p, n, s)
  PROVE  OnTheWay(p, n + 1, Follow(system, s))
<1>1. p \in Seq(Texts) /\ Len(p) \in Nat
  BY DEF IsReal, Paths
<1>2. LookupRecord(s)
  BY DEF OnTheWay
<1>3. CASE n > Len(p)
  <2>1. s.status = "found" /\ s.path = p
    BY <1>3 DEF OnTheWay
  <2>2. Follow(system, s) = s
    BY <2>1 DEF Follow
  <2>3. n + 1 > Len(p) /\ ~(n + 1 <= Len(p))
    BY <1>1, <1>3
  <2> QED
    BY <1>2, <2>1, <2>2, <2>3 DEF OnTheWay
<1>4. CASE n = Len(p)
  <2>1. s.status = "follows" /\ s.path = p /\ s.rest = <<>>
    <3>1. SubSeq(p, 1, Len(p)) = p /\ SubSeq(p, Len(p) + 1, Len(p)) = <<>>
      BY <1>1
    <3>2. n <= Len(p)
      BY <1>1, <1>4
    <3> QED
      BY <1>4, <3>1, <3>2 DEF OnTheWay
  <2>2. Follow(system, s) = [status |-> "found", path |-> s.path, rest |-> s.rest, trail |-> s.trail]
    BY <1>2, <2>1 DEF Follow, LookupRecord
  <2>3. n + 1 > Len(p) /\ ~(n + 1 <= Len(p))
    BY <1>1, <1>4
  <2> QED
    BY <2>1, <2>2, <2>3 DEF OnTheWay, LookupRecord
<1>5. CASE n < Len(p)
  <2> DEFINE here == SubSeq(p, 1, n)
             rest == SubSeq(p, n + 1, Len(p))
             next == SubSeq(p, 1, n + 1)
  <2>1. s.status = "follows" /\ s.path = here /\ s.rest = rest
    BY <1>1, <1>5 DEF OnTheWay
  <2>2. n + 1 \in 1 .. Len(p) /\ (n + 1) - 1 = n
    BY <1>1, <1>5
  <2>3. rest # <<>> /\ Head(rest) = p[n + 1] /\ Tail(rest) = SubSeq(p, (n + 1) + 1, Len(p))
    <3>1. n + 1 \in 1 .. Len(p) /\ Len(p) \in (n + 1) .. Len(p)
      BY <1>1, <2>2
    <3>2. Head(rest) = p[n + 1] /\ Tail(rest) = SubSeq(p, (n + 1) + 1, Len(p))
      BY <1>1, <3>1, HeadTailOfSubSeq
    <3>3. Len(rest) # 0
      BY <1>1, <2>2
    <3>4. Len(<<>>) = 0
      OBVIOUS
    <3> HIDE DEF rest
    <3> QED
      BY <3>2, <3>3, <3>4, Zenon
  <2>4. Append(here, p[n + 1]) = next
    BY <1>1, <2>2
  <2>5. /\ Entry(system, next).kind \notin {"none", "link"}
        /\ Entry(system, here).kind = "dir"
        /\ p[n + 1] \notin {<<".">>, <<".", ".">>}
    BY <2>2 DEF IsReal
  <2> HIDE DEF here, rest, next
  <2>6. Follow(system, s) =
          [status |-> "follows", path |-> next, rest |-> Tail(rest), trail |-> s.trail \cup {next}]
    BY <1>2, <2>1, <2>3, <2>4, <2>5 DEF Follow, LookupRecord
  <2>7. ~(n + 1 > Len(p))
    BY <1>1, <1>5
  <2> QED
    BY <2>3, <2>6, <2>7 DEF OnTheWay, LookupRecord, next
<1> QED
  BY <1>1, <1>3, <1>4, <1>5

\* The canonical form of a real path is the path.
LEMMA RealPathIsFound ==
  ASSUME NEW system, NEW p, IsReal(system, p), Len(p) < MaxSteps
  PROVE  Exists(system, p) /\ Canonical(system, p) = p
<1> DEFINE f == After(system, p)
           S == {n \in 0 .. MaxSteps : OnTheWay(p, n, f[n])}
<1>1. MaxSteps \in Nat
  BY DEF MaxSteps
<1>2. f[0] = StartOfLookup(p) /\ \A n \in 0 .. MaxSteps - 1 : f[n + 1] = Follow(system, f[n])
  BY RunOfLookup
<1>3. LET last == f[MaxSteps]
      IN  Lookup(system, p) =
            IF last.status = "follows" THEN [last EXCEPT !.status = "loop"] ELSE last
  BY RunOfLookup
<1>4. p \in Seq(Texts) /\ Len(p) \in Nat
  BY DEF IsReal, Paths
<1> HIDE DEF f
<1>5. 0 \in S
  <2>1. SubSeq(p, 1, 0) = <<>> /\ SubSeq(p, 0 + 1, Len(p)) = p
    BY <1>4
  <2>2. OnTheWay(p, 0, f[0])
    BY <1>2, <1>4, <2>1 DEF OnTheWay, LookupRecord, StartOfLookup
  <2> QED
    BY <1>1, <2>2
<1>6. ASSUME NEW n \in 0 .. MaxSteps - 1, n \in S
      PROVE  n + 1 \in S
  <2>1. n \in Nat /\ n + 1 \in 0 .. MaxSteps
    BY <1>1
  <2>2. OnTheWay(p, n + 1, f[n + 1])
    BY <1>2, <1>6, <2>1, FollowRealPath
  <2> QED
    BY <2>1, <2>2
<1> HIDE DEF S
<1>7. \A n \in 0 .. MaxSteps : n \in S
  BY <1>1, <1>5, <1>6, RangeInduction, Zenon
<1>8. OnTheWay(p, MaxSteps, f[MaxSteps])
  <2>1. MaxSteps \in 0 .. MaxSteps
    BY <1>1
  <2> QED
    BY <1>7, <2>1 DEF S
<1>9. f[MaxSteps].status = "found" /\ f[MaxSteps].path = p
  BY <1>1, <1>4, <1>8 DEF OnTheWay
<1> QED
  BY <1>3, <1>9 DEF Exists, Canonical

LEMMA CanonicalIsCanonical ==
  ASSUME NEW system, IsFileSystem(system), NEW path, Exists(system, path)
  PROVE  /\ Exists(system, Canonical(system, path))
         /\ Canonical(system, Canonical(system, path)) = Canonical(system, path)
BY FoundIsReal, RealPathIsFound

\* A regular file has a real path, and that is not the root.
LEMMA FileHasPath ==
  ASSUME NEW system, IsFileSystem(system), NEW path, IsRegularFile(system, path)
  PROVE  Canonical(system, path) \in Paths \ {<<>>}
<1>1. Entry(system, Canonical(system, path)).kind = "file" /\ Exists(system, path)
  BY DEF IsRegularFile
<1>2. Canonical(system, path) \in Paths
  BY <1>1, FoundIsReal DEF IsReal
<1> QED
  BY <1>1, <1>2 DEF IsFileSystem

LEMMA RootIsNoFile ==
  ASSUME NEW system, IsFileSystem(system)
  PROVE  ~IsRegularFile(system, <<>>)
<1>1. Entry(system, <<>>).kind = "dir"
  BY DEF IsFileSystem
<1>2. IsReal(system, <<>>) /\ Len(<<>>) < MaxSteps
  BY <1>1 DEF IsReal, Paths, MaxSteps
<1>3. Canonical(system, <<>>) = <<>>
  BY <1>2, RealPathIsFound
<1> QED
  BY <1>1, <1>3 DEF IsRegularFile

-----------------------------------------------------------------------------
(* The sorted list holds paths again *)

IsSort(f, sources, k) ==
  f = [n \in 0 .. k |-> IF n = 0 THEN <<>> ELSE InsertSorted(f[n - 1], sources[n])]

LEMMA SortExists ==
  ASSUME NEW sources, NEW k \in Nat
  PROVE  \E f : IsSort(f, sources, k)
<1> DEFINE S == {i \in 0 .. k : \E f : IsSort(f, sources, i)}
<1>1. 0 \in S
  <2> DEFINE f == [n \in 0 .. 0 |-> <<>>]
  <2>1. IsSort(f, sources, 0)
    BY DEF IsSort
  <2> QED
    BY <2>1
<1>2. ASSUME NEW i \in 0 .. k - 1, i \in S
      PROVE  i + 1 \in S
  <2>1. PICK f : IsSort(f, sources, i)
    BY <1>2
  <2> DEFINE g == [n \in 0 .. i + 1 |-> IF n = 0 THEN <<>> ELSE InsertSorted(f[n - 1], sources[n])]
  <2>2. \A n \in 0 .. i : g[n] = f[n]
    BY <2>1 DEF IsSort
  <2>3. \A n \in 0 .. i + 1 : n # 0 => n - 1 \in 0 .. i
    OBVIOUS
  <2>4. g = [n \in 0 .. i + 1 |-> IF n = 0 THEN <<>> ELSE InsertSorted(g[n - 1], sources[n])]
    BY <2>2, <2>3
  <2>5. IsSort(g, sources, i + 1)
    <3> HIDE DEF g
    <3> QED
      BY <2>4 DEF IsSort
  <2>6. i + 1 \in 0 .. k
    OBVIOUS
  <2> QED
    BY <2>5, <2>6
<1> HIDE DEF S
<1>3. \A i \in 0 .. k : i \in S
  BY <1>1, <1>2, RangeInduction, Zenon
<1> QED
  BY <1>3 DEF S

LEMMA InsertedIsSequence ==
  ASSUME NEW D, NEW seq \in Seq(D), NEW path \in D
  PROVE  InsertSorted(seq, path) \in Seq(D)
<1> DEFINE before == {i \in DOMAIN seq : ~SortLess(path, seq[i])}
           n == Cardinality(before)
<1>1. Len(seq) \in Nat /\ DOMAIN seq = 1 .. Len(seq)
  OBVIOUS
<1>2. IsFiniteSet(1 .. Len(seq)) /\ before \subseteq 1 .. Len(seq)
  BY <1>1, FS_Interval
<1>3. n \in Nat
  BY <1>2, FS_Subset, FS_CardinalityType
<1>4. InsertSorted(seq, path) = InsertAt(seq, n + 1, path)
  BY DEF InsertSorted
<1> HIDE DEF n
<1>5. n <= Len(seq)
  <2>1. Cardinality(1 .. Len(seq)) = Len(seq)
    <3>1. Cardinality(1 .. Len(seq)) = IF 1 > Len(seq) THEN 0 ELSE Len(seq) - 1 + 1
      BY <1>1, FS_Interval
    <3> QED
      BY <1>1, <3>1
  <2>2. n <= Cardinality(1 .. Len(seq))
    BY <1>2, FS_Subset DEF n
  <2> QED
    BY <2>1, <2>2
<1>6. SubSeq(seq, 1, (n + 1) - 1) \in Seq(D)
  BY <1>1, <1>3, <1>5
<1>7. SubSeq(seq, n + 1, Len(seq)) \in Seq(D)
  BY <1>1, <1>3, <1>5
<1>8. <<path>> \in Seq(D)
  OBVIOUS
<1> QED
  BY <1>4, <1>6, <1>7, <1>8, ConcatProperties DEF InsertAt

LEMMA SortedIsSequence ==
  ASSUME NEW D, NEW sources \in Seq(D)
  PROVE  Sorted(sources) \in Seq(D)
<1> DEFINE k == Len(sources)
           f == CHOOSE g : IsSort(g, sources, k)
           S == {n \in 0 .. k : f[n] \in Seq(D)}
<1>1. k \in Nat /\ \A n \in 1 .. k : sources[n] \in D
  OBVIOUS
<1>2. Sorted(sources) = f[k]
  BY Zenon DEF Sorted, IsSort
<1>3. IsSort(f, sources, k)
  <2>1. \E g : IsSort(g, sources, k)
    BY <1>1, SortExists, Zenon
  <2> QED
    BY <2>1, Zenon
<1> HIDE DEF f, k
<1>4. f = [n \in 0 .. k |-> IF n = 0 THEN <<>> ELSE InsertSorted(f[n - 1], sources[n])]
  BY <1>3 DEF IsSort
<1>5. 0 \in S
  <2>1. <<>> \in Seq(D)
    OBVIOUS
  <2> QED
    BY <1>1, <1>4, <2>1
<1>6. ASSUME NEW n \in 0 .. k - 1, n \in S
      PROVE  n + 1 \in S
  <2>1. n + 1 \in 0 .. k /\ n + 1 \in 1 .. k /\ n + 1 # 0 /\ (n + 1) - 1 = n
    BY <1>1
  <2>2. f[n + 1] = InsertSorted(f[n], sources[n + 1])
    BY <1>4, <2>1
  <2>3. f[n] \in Seq(D) /\ sources[n + 1] \in D
    BY <1>1, <1>6, <2>1
  <2>4. f[n + 1] \in Seq(D)
    BY <2>2, <2>3, InsertedIsSequence
  <2> QED
    BY <2>1, <2>4
<1> HIDE DEF S
<1>7. \A n \in 0 .. k : n \in S
  BY <1>1, <1>5, <1>6, RangeInduction, Zenon
<1>8. k \in S
  BY <1>1, <1>7
<1> QED
  BY <1>2, <1>8 DEF S

-----------------------------------------------------------------------------
(* The suffix of a name *)

LEMMA GreatestExists ==
  ASSUME NEW n \in Nat, NEW set \in SUBSET (0 .. n), 0 \in set
  PROVE  Max(set) \in set /\ \A x \in set : Max(set) >= x
<1> DEFINE HasGreatest(t) == \E x \in t : \A y \in t : x >= y
           S == {i \in 0 .. n : HasGreatest(set \cap (0 .. i))}
<1>1. 0 \in S
  <2>1. set \cap (0 .. 0) = {0}
    OBVIOUS
  <2>2. HasGreatest({0})
    OBVIOUS
  <2> QED
    BY <2>1, <2>2
<1>2. ASSUME NEW i \in 0 .. n - 1, i \in S
      PROVE  i + 1 \in S
  <2>1. PICK x \in set \cap (0 .. i) : \A y \in set \cap (0 .. i) : x >= y
    BY <1>2
  <2>2. HasGreatest(set \cap (0 .. i + 1))
    <3>1. CASE i + 1 \in set
      <4>1. i + 1 \in set \cap (0 .. i + 1) /\ \A y \in set \cap (0 .. i + 1) : i + 1 >= y
        BY <3>1
      <4> QED
        BY <4>1
    <3>2. CASE i + 1 \notin set
      <4>1. set \cap (0 .. i + 1) = set \cap (0 .. i)
        BY <3>2
      <4> QED
        BY <2>1, <4>1
    <3> QED
      BY <3>1, <3>2
  <2>3. i + 1 \in 0 .. n
    OBVIOUS
  <2> QED
    BY <2>2, <2>3
<1>3. S \in SUBSET (0 .. n)
  OBVIOUS
<1>4. n \in S
  <2> HIDE DEF S
  <2>1. \A i \in 0 .. n : i \in S
    BY <1>1, <1>2, RangeInduction, Zenon
  <2> QED
    BY <2>1
<1>5. set \cap (0 .. n) = set
  OBVIOUS
<1>6. \E x \in set : \A y \in set : x >= y
  BY <1>4, <1>5
<1> QED
  BY <1>6 DEF Max

\* A name ends like the suffix exactly if its extension is the suffix, unless it is
\* nothing but the suffix.
LEMMA ExtensionIsSuffix ==
  ASSUME NEW name \in Texts
  PROVE  Extension(name) = FileSuffix <=> IsSuffix(FileSuffix, name) /\ name # FileSuffix
<1> DEFINE dots == {i \in DOMAIN name : name[i] = "."} \cup {0}
           n == Len(name)
           k == Len(FileSuffix)
           dot == Max(dots)
<1>1. name \in Seq(NameCharacters) /\ n \in Nat /\ DOMAIN name = 1 .. n
  BY DEF Texts
<1>2. /\ FileSuffix \in Seq(NameCharacters) /\ k \in Nat /\ k # 0 /\ FileSuffix[1] = "."
      /\ \A i \in 2 .. k : FileSuffix[i] # "."
  BY FileSuffixAssumption DEF Texts
<1>3. dots \in SUBSET (0 .. n) /\ 0 \in dots
  BY <1>1
<1>4. dot \in dots /\ \A x \in dots : dot >= x
  BY <1>1, <1>3, GreatestExists
<1>5. Extension(name) = IF dot <= 1 THEN <<>> ELSE SubSeq(name, dot, n)
  BY DEF Extension
<1> HIDE DEF dots, n, k, dot
<1>6. IsSuffix(FileSuffix, name) <=> k <= n /\ \A i \in 1 .. k : FileSuffix[i] = name[n - k + i]
  <2> DEFINE a == Reverse(FileSuffix)
             b == Reverse(name)
             c == SubSeq(b, 1, k)
  <2>1. a \in Seq(NameCharacters) /\ Len(a) = k /\ \A i \in 1 .. k : a[i] = FileSuffix[(k - i) + 1]
    BY <1>2 DEF Reverse, k
  <2>2. b \in Seq(NameCharacters) /\ Len(b) = n /\ \A i \in 1 .. n : b[i] = name[(n - i) + 1]
    BY <1>1 DEF Reverse, n
  <2>3. SubSeq(a, 1, k) = a
    BY <2>1
  <2>4. IsSuffix(FileSuffix, name) <=> k <= n /\ a = c
    BY <2>1, <2>2, <2>3 DEF IsSuffix, IsPrefix
  <2>5. ASSUME k <= n
        PROVE  c \in Seq(NameCharacters) /\ Len(c) = k /\ \A i \in 1 .. k : c[i] = b[i]
    BY <1>1, <1>2, <2>2, <2>5
  <2> HIDE DEF a, b, c
  <2>6. ASSUME k <= n, a = c, NEW i \in 1 .. k
        PROVE  FileSuffix[i] = name[n - k + i]
    <3> DEFINE j == (k - i) + 1
    <3>1. j \in 1 .. k /\ j \in 1 .. n /\ (k - j) + 1 = i /\ (n - j) + 1 = n - k + i
      BY <1>1, <1>2, <2>6
    <3> HIDE DEF j
    <3>2. a[j] = FileSuffix[i] /\ b[j] = name[n - k + i] /\ c[j] = b[j]
      BY <2>1, <2>2, <2>5, <2>6, <3>1
    <3> QED
      BY <2>6, <3>2
  <2>7. ASSUME k <= n, \A i \in 1 .. k : FileSuffix[i] = name[n - k + i]
        PROVE  a = c
    <3>1. ASSUME NEW j \in 1 .. k PROVE a[j] = c[j]
      <4> DEFINE i == (k - j) + 1
      <4>1. i \in 1 .. k /\ j \in 1 .. n /\ (n - j) + 1 = n - k + i
        BY <1>1, <1>2, <2>7
      <4>2. a[j] = FileSuffix[i] /\ b[j] = name[(n - j) + 1] /\ c[j] = b[j]
        BY <2>1, <2>2, <2>5, <2>7, <4>1
      <4> HIDE DEF i
      <4>3. FileSuffix[i] = name[n - k + i]
        BY <2>7, <4>1
      <4> QED
        BY <4>1, <4>2, <4>3
    <3> QED
      BY <2>1, <2>5, <2>7, <3>1, SeqEqual
  <2> QED
    BY <2>4, <2>6, <2>7
<1>7. \A i \in 1 .. n : i \in dots <=> name[i] = "."
  BY <1>1 DEF dots
<1>8. ASSUME Extension(name) = FileSuffix
      PROVE  IsSuffix(FileSuffix, name) /\ name # FileSuffix
  <2>1. dot > 1
    <3>1. FileSuffix # <<>>
      BY <1>2 DEF k
    <3> QED
      BY <1>3, <1>4, <1>5, <1>8, <3>1
  <2>2. dot \in 2 .. n /\ FileSuffix = SubSeq(name, dot, n)
    BY <1>1, <1>3, <1>4, <1>5, <1>8, <2>1
  <2>3. /\ Len(SubSeq(name, dot, n)) = (n - dot) + 1
        /\ \A i \in 1 .. (n - dot) + 1 : SubSeq(name, dot, n)[i] = name[dot + i - 1]
    BY <1>1, <2>2 DEF n
  <2>4. k = (n - dot) + 1
    BY <2>2, <2>3 DEF k
  <2>5. ASSUME NEW i \in 1 .. k PROVE FileSuffix[i] = name[n - k + i]
    <3>1. dot + i - 1 = n - k + i /\ i \in 1 .. (n - dot) + 1
      BY <1>1, <2>2, <2>4
    <3> QED
      BY <2>2, <2>3, <3>1
  <2>6. k <= n /\ k # n
    BY <1>1, <2>2, <2>4
  <2> QED
    BY <1>6, <2>5, <2>6 DEF n, k
<1>9. ASSUME IsSuffix(FileSuffix, name), name # FileSuffix
      PROVE  Extension(name) = FileSuffix
  <2> DEFINE d == (n - k) + 1
  <2>1. k <= n /\ \A i \in 1 .. k : FileSuffix[i] = name[n - k + i]
    BY <1>6, <1>9
  <2>2. k # n
    <3>1. SUFFICES ASSUME k = n PROVE name = FileSuffix
      BY <1>9
    <3>2. \A i \in 1 .. n : n - k + i = i
      BY <1>1, <3>1
    <3>3. \A i \in 1 .. n : name[i] = FileSuffix[i]
      BY <2>1, <3>1, <3>2
    <3> QED
      BY <1>1, <1>2, <3>1, <3>3, SeqEqual DEF n, k
  <2>3. d \in 2 .. n /\ n - k + 1 = d /\ 1 \in 1 .. k
    BY <1>1, <1>2, <2>1, <2>2
  <2>4. d \in dots
    <3>1. name[d] = FileSuffix[1]
      BY <2>1, <2>3
    <3> QED
      BY <1>2, <1>7, <2>3, <3>1
  <2> HIDE DEF d
  <2>5. dot = d
    <3>1. dot \in 0 .. n /\ dot >= d
      BY <1>3, <1>4, <2>4
    <3>2. SUFFICES ASSUME dot > d PROVE FALSE
      BY <1>1, <2>3, <3>1
    <3> DEFINE i == dot - (n - k)
    <3>3. i \in 2 .. k /\ i \in 1 .. k /\ n - k + i = dot /\ dot \in 1 .. n
      BY <1>1, <1>2, <2>1, <2>3, <3>1, <3>2
    <3> HIDE DEF i
    <3>4. FileSuffix[i] = name[dot]
      BY <2>1, <3>3
    <3> QED
      BY <1>2, <1>4, <1>7, <3>3, <3>4
  <2>6. SubSeq(name, d, n) = FileSuffix
    <3> DEFINE u == SubSeq(name, d, n)
    <3>1. u \in Seq(NameCharacters) /\ Len(u) = (n - d) + 1 /\ \A i \in 1 .. (n - d) + 1 : u[i] = name[d + i - 1]
      BY <1>1, <2>3 DEF n
    <3> HIDE DEF u
    <3>2. (n - d) + 1 = k
      BY <1>1, <1>2, <2>3
    <3>3. \A i \in 1 .. k : d + i - 1 = n - k + i
      BY <1>1, <1>2, <2>3
    <3>4. \A i \in 1 .. k : u[i] = FileSuffix[i]
      BY <2>1, <3>1, <3>2, <3>3
    <3>5. u = FileSuffix
      BY <1>2, <3>1, <3>2, <3>4, SeqEqual DEF k
    <3> QED
      BY <3>5 DEF u
  <2> QED
    BY <1>1, <1>5, <2>3, <2>5, <2>6
<1> QED
  BY <1>8, <1>9

\* The extension of a name in lower case is its extension, in lower case.
LEMMA LoweredExtension ==
  ASSUME NEW name \in Texts
  PROVE  Lowered(name) \in Texts /\ Lowered(Extension(name)) = Extension(Lowered(name))
<1> DEFINE low == Lowered(name)
           dots == {i \in DOMAIN name : name[i] = "."} \cup {0}
           dot == Max(dots)
           n == Len(name)
<1>1. name \in Seq(NameCharacters) /\ n \in Nat /\ DOMAIN name = 1 .. n /\ \A i \in 1 .. n : name[i] \in NameCharacters
  BY DEF Texts
<1>2. low = [i \in 1 .. n |-> LowerCase[name[i]]]
  BY <1>1 DEF Lowered
<1>3. low \in Seq(NameCharacters) /\ Len(low) = n /\ DOMAIN low = 1 .. n
  <2>1. \A i \in 1 .. n : LowerCase[name[i]] \in NameCharacters
    BY <1>1, LowerCaseAssumption
  <2> QED
    BY <1>1, <1>2, <2>1
<1>4. {i \in DOMAIN low : low[i] = "."} \cup {0} = dots
  <2>1. \A i \in 1 .. n : low[i] = "." <=> name[i] = "."
    BY <1>1, <1>2, LowerCaseAssumption
  <2> QED
    BY <1>1, <1>3, <2>1
<1>5. dot \in dots
  <2>1. dots \in SUBSET (0 .. n) /\ 0 \in dots
    BY <1>1
  <2> QED
    BY <1>1, <2>1, GreatestExists
<1>6. /\ Extension(name) = IF dot <= 1 THEN <<>> ELSE SubSeq(name, dot, n)
      /\ Extension(low) = IF dot <= 1 THEN <<>> ELSE SubSeq(low, dot, n)
  BY <1>3, <1>4 DEF Extension
<1>7. dot \in 0 .. n
  BY <1>1, <1>5
<1> HIDE DEF low, dots, dot, n
<1>8. CASE dot <= 1
  <2>1. Lowered(<<>>) = <<>>
    BY DEF Lowered
  <2> QED
    BY <1>3, <1>6, <1>8, <2>1 DEF Texts, low
<1>9. CASE ~(dot <= 1)
  <2> DEFINE a == SubSeq(name, dot, n)
             b == SubSeq(low, dot, n)
             m == (n - dot) + 1
  <2>1. dot \in 2 .. n /\ m \in Nat
    BY <1>1, <1>7, <1>9
  <2>2. a \in Seq(NameCharacters) /\ Len(a) = m /\ \A i \in 1 .. m : a[i] = name[dot + i - 1]
    BY <1>1, <2>1 DEF n
  <2>3. b \in Seq(NameCharacters) /\ Len(b) = m /\ \A i \in 1 .. m : b[i] = low[dot + i - 1]
    BY <1>1, <1>3, <2>1
  <2>4. \A i \in 1 .. m : dot + i - 1 \in 1 .. n
    BY <1>1, <2>1
  <2> HIDE DEF a, b
  <2>5. Lowered(a) = [i \in 1 .. m |-> LowerCase[a[i]]]
    BY <2>1, <2>2 DEF Lowered
  <2>6. \A i \in 1 .. m : LowerCase[a[i]] = b[i]
    BY <1>2, <2>2, <2>3, <2>4
  <2>7. b = [i \in 1 .. m |-> b[i]]
    BY <2>1, <2>3
  <2>8. Lowered(a) = b
    BY <2>5, <2>6, <2>7
  <2> QED
    BY <1>3, <1>6, <1>9, <2>8 DEF Texts, low, a, b
<1> QED
  BY <1>7, <1>8, <1>9

-----------------------------------------------------------------------------
(* The invariant *)

PhasesOfCheck == {"parent", "size", "directory", "open", "status", "stream"}

\* The source that is being checked passed what has been asked so far; unless the
\* file system changed since, the paths of the check are still its paths.
IsChecked ==
  phase \in PhasesOfCheck =>
    /\ Len(opened) < Len(list)
    /\ ~IsRefusedAtOnce(FileAt(NextSource), context.check)
    /\ HasRequiredSuffix(FileAt(NextSource), context.check)
    /\ stable => /\ Exists(fs, NextSource) /\ current.source = Canonical(fs, NextSource)
                 /\ phase # "parent" => /\ DirectoryExists(fs, context.includer)
                                        /\ current.directory = CanonicalDirectory(fs, context.includer)

IsSmall ==
  phase \in {"directory", "open", "status", "stream"} /\ stable /\ "LimitSize" \in context.check =>
    ~FileIsBig(fs, current.source)

IsNear ==
  phase \in {"open", "status", "stream"} =>
    DirectoryIsPermitted(current.source, current.directory, context.check)

IsOpening ==
  phase \in {"status", "stream"} /\ stable => current.file = Canonical(fs, NextSource)

PathsAreFound ==
  /\ paths \in Seq(Range(paths))
  /\ phase = "regular" => paths # <<>> /\ Head(paths) \in Paths

CurrentHasFields ==
  current = [source |-> current.source, directory |-> current.directory, file |-> current.file]

Inv ==
  /\ IsFileSystem(fs)
  /\ list \in Seq(Paths \ {<<>>})
  /\ opened \in Seq(Range(opened))
  /\ IsChecked
  /\ IsSmall
  /\ IsNear
  /\ IsOpening
  /\ PathsAreFound
  /\ CurrentHasFields
  /\ outcome = "refused" => phase = "done"
  /\ OpenedIsPermitted

LEMMA DirectoryMeans ==
  ASSUME NEW path \in Paths \ {<<>>}, NEW home, NEW features
  PROVE  DirectoryIsPermitted(path, home, features) <=>
           \/ "AnyDirectory" \in features
           \/ "SameDirectory" \in features /\ Front(path) = home
           \/ "Subdirectories" \in features /\ IsStrictPrefix(home, Front(path))
<1>1. ParentPath(path) = Front(path)
  BY DEF ParentPath
<1>2. Len(Front(path)) \in Nat
  <2>1. path \in Seq(Texts) /\ Len(path) # 0
    BY DEF Paths
  <2>2. Front(path) \in Seq(Texts)
    BY <2>1 DEF Front
  <2> QED
    BY <2>2
<1>3. IsPrefix(Front(path), Front(path))
  BY <1>2 DEF IsPrefix
<1> QED
  BY <1>1, <1>3, Zenon
  DEF DirectoryIsPermitted, IsInDirectory, IsInSameDirectory, IsStrictPrefix

\* What the features permit is what the four checks ask.
LEMMA PermittedMeans ==
  ASSUME IsFileSystem(fs), NEW source \in Paths \ {<<>>}, IsRegularFile(fs, source), NEW file,
         file.source = source,
         file.path = Canonical(fs, source),
         file.isBig = FileIsBig(fs, source),
         file.home = Canonical(fs, ParentPath(context.includer.path))
  PROVE  IsPermitted(file) <=>
           /\ HasParentDirectory(context.includer)
           /\ "LimitSize" \in context.check => ~FileIsBig(fs, source)
           /\ HasRequiredSuffix(FileAt(source), context.check)
           /\ DirectoryIsPermitted(Canonical(fs, source), file.home, context.check)
<1>1. Last(source) \in Texts
  <2>1. source \in Seq(Texts) /\ Len(source) # 0
    BY DEF Paths
  <2> QED
    BY <2>1 DEF Last
<1>2. HasRequiredSuffix(FileAt(source), context.check) <=>
        ("RequireSuffix" \in context.check =>
           IsSuffix(FileSuffix, Lowered(Last(source))) /\ Lowered(Last(source)) # FileSuffix)
  <2>1. FileAt(source).path = source
    BY DEF FileAt
  <2>2. Lowered(Last(source)) \in Texts /\ Lowered(Extension(Last(source))) = Extension(Lowered(Last(source)))
    BY <1>1, LoweredExtension
  <2>3. Extension(Lowered(Last(source))) = FileSuffix <=>
          IsSuffix(FileSuffix, Lowered(Last(source))) /\ Lowered(Last(source)) # FileSuffix
    BY <2>2, ExtensionIsSuffix
  <2> QED
    BY <2>1, <2>2, <2>3, Zenon DEF HasRequiredSuffix
<1>3. DirectoryIsPermitted(file.path, file.home, context.check) <=>
        \/ "AnyDirectory" \in context.check
        \/ "SameDirectory" \in context.check /\ Front(file.path) = file.home
        \/ "Subdirectories" \in context.check /\ IsStrictPrefix(file.home, Front(file.path))
  BY FileHasPath, DirectoryMeans
<1> QED
  BY <1>2, <1>3 DEF IsPermitted, HasParentDirectory

LEMMA NextSourceIsPath ==
  ASSUME list \in Seq(Paths \ {<<>>}), opened \in Seq(Range(opened)), Len(opened) < Len(list)
  PROVE  NextSource \in Paths \ {<<>>}
<1>1. Len(opened) \in Nat
  OBVIOUS
<1> QED
  BY <1>1 DEF NextSource

\* A step that opens nothing and refuses nothing keeps the property.
LEMMA NothingOpened ==
  ASSUME OpenedIsPermitted, UNCHANGED <<context, opened>>, outcome' # "refused"
  PROVE  OpenedIsPermitted'
<1>1. ASSUME NEW file \in Range(opened), file.stable
      PROVE  IsPermitted(file)'
  <2>1. IsPermitted(file)
    BY <1>1 DEF OpenedIsPermitted
  <2> QED
    BY <2>1 DEF IsPermitted
<1> QED
  BY <1>1 DEF OpenedIsPermitted

\* A step that refuses the next source keeps it if the checks rightly fail.
LEMMA RightlyRefused ==
  ASSUME OpenedIsPermitted, IsFileSystem(fs), UNCHANGED <<fs, context, list, opened>>,
         NextSource \in Paths \ {<<>>},
         \/ ~IsRegularFile(fs, NextSource)
         \/ ~Exists(fs, ParentPath(context.includer.path))
         \/ ~HasParentDirectory(context.includer)
         \/ "LimitSize" \in context.check /\ FileIsBig(fs, NextSource)
         \/ ~HasRequiredSuffix(FileAt(NextSource), context.check)
         \/ ~DirectoryIsPermitted(Canonical(fs, NextSource),
                                  Canonical(fs, ParentPath(context.includer.path)), context.check)
  PROVE  OpenedIsPermitted'
<1> DEFINE file == SeenFile(NextSource, NextSource)'
<1>1. ASSUME NEW f \in Range(opened), f.stable
      PROVE  IsPermitted(f)'
  <2>1. IsPermitted(f)
    BY <1>1 DEF OpenedIsPermitted
  <2> QED
    BY <2>1 DEF IsPermitted
<1>2. NextSource' = NextSource
  BY DEF NextSource
<1>3. /\ file.source = NextSource
      /\ file.path = Canonical(fs, NextSource)
      /\ file.isBig = FileIsBig(fs, NextSource)
      /\ file.home = Canonical(fs, ParentPath(context.includer.path))
  BY <1>2 DEF SeenFile
<1>4. IsPermitted(SeenFile(NextSource, NextSource))' <=> IsPermitted(file)
  BY DEF IsPermitted
<1> HIDE DEF file
<1>5. \/ ~IsRegularFile(fs, NextSource)
      \/ ~Exists(fs, ParentPath(context.includer.path))
      \/ ~IsPermitted(file)
  BY <1>3, PermittedMeans
<1>6. \/ ~IsRegularFile(fs, NextSource)'
      \/ ~Exists(fs, ParentPath(context.includer.path))'
      \/ ~IsPermitted(SeenFile(NextSource, NextSource))'
  BY <1>2, <1>4, <1>5
<1> QED
  BY <1>1, <1>6 DEF OpenedIsPermitted

-----------------------------------------------------------------------------
(* The steps *)

\* A sequence is one of its own elements.
LEMMA SequenceOfItself ==
  ASSUME NEW S, NEW seq \in Seq(S)
  PROVE  seq \in Seq(Range(seq))
<1>1. \A i \in 1 .. Len(seq) : seq[i] \in Range(seq)
  BY DEF Range
<1> QED
  BY <1>1

LEMMA InvHoldsInitially == Init => Inv
<1> SUFFICES ASSUME Init PROVE Inv
  OBVIOUS
<1>1. IsFileSystem(fs) /\ list = <<>> /\ opened = <<>> /\ paths = <<>> /\ phase = "root" /\ outcome = "none"
  BY DEF Init, ResolverInit
<1>2. list \in Seq(Paths \ {<<>>}) /\ opened \in Seq(Range(opened))
  BY <1>1
<1>3. Range(opened) = {}
  BY <1>1 DEF Range
<1>4. OpenedIsPermitted
  BY <1>1, <1>3 DEF OpenedIsPermitted
<1>5. CurrentHasFields
  BY DEF Init, NotChecked, CurrentHasFields
<1>6. PathsAreFound
  BY <1>1, SequenceOfItself DEF PathsAreFound
<1> QED
  BY <1>1, <1>2, <1>4, <1>5, <1>6 DEF Inv, IsChecked, PhasesOfCheck, IsSmall, IsNear, IsOpening

\* The resolver only works on its list.
LEMMA ResolverKeepsPaths ==
  ASSUME Inv, ResolverNext
  PROVE  /\ UNCHANGED <<fs, context>>
         /\ list' \in Seq(Paths \ {<<>>})
         /\ phase' \notin PhasesOfCheck
         /\ outcome' # "refused"
<1> USE DEF PhasesOfCheck
<1>1. IsFileSystem(fs) /\ list \in Seq(Paths \ {<<>>}) /\ (outcome = "refused" => phase = "done")
  BY DEF Inv
<1>2. CASE StartResolve
  BY <1>1, <1>2 DEF StartResolve, Fail
<1>3. CASE OpenDirectory
  BY <1>1, <1>3 DEF OpenDirectory, Fail
<1>4. CASE VisitEntry
  BY <1>1, <1>4 DEF VisitEntry, Fail
<1>5. CASE LeaveDirectory
  BY <1>1, <1>5 DEF LeaveDirectory
<1>6. CASE EndScan
  BY <1>1, <1>6 DEF EndScan
<1>7. CASE CanonicalizePath
  BY <1>1, <1>7 DEF CanonicalizePath, Fail
<1>9. CASE CreateSource
  <2>1. CASE IsRegularFile(fs, Head(paths))
    <3>1. Head(paths) \in Paths \ {<<>>}
      BY <1>1, <1>9, <2>1, RootIsNoFile DEF CreateSource, Inv, PathsAreFound
    <3>2. list' = Append(list, Head(paths)) /\ UNCHANGED <<fs, context, outcome>>
          /\ phase = "regular" /\ phase' = "create"
      BY <1>9, <2>1 DEF CreateSource
    <3> QED
      BY <1>1, <3>1, <3>2
  <2>2. CASE ~IsRegularFile(fs, Head(paths))
    BY <1>1, <1>9, <2>2 DEF CreateSource, Fail
  <2> QED
    BY <2>1, <2>2
<1>8. CASE SortSources
  <2>1. Sorted(list) \in Seq(Paths \ {<<>>})
    BY <1>1, SortedIsSequence
  <2> QED
    BY <1>1, <1>8, <2>1 DEF SortSources
<1> QED
  BY <1>2, <1>3, <1>4, <1>5, <1>6, <1>7, <1>8, <1>9 DEF ResolverNext

LEMMA ResolverFindsPaths ==
  ASSUME Inv, ResolverNext
  PROVE  PathsAreFound'
<1>1. paths \in Seq(Range(paths)) /\ IsFileSystem(fs)
      /\ (phase = "regular" => paths # <<>> /\ Head(paths) \in Paths)
  BY DEF Inv, PathsAreFound
<1>2. ASSUME UNCHANGED paths, phase' # "regular" PROVE PathsAreFound'
  BY <1>1, <1>2 DEF PathsAreFound
<1>3. CASE StartResolve
  <2>1. \/ UNCHANGED paths /\ phase' # "regular"
        \/ phase' = "create" /\ \E path : paths' = <<path>>
    BY <1>3 DEF StartResolve, Fail
  <2>2. CASE phase' = "create" /\ \E path : paths' = <<path>>
    <3>1. PICK path : paths' = <<path>>
      BY <2>2
    <3>2. <<path>> \in Seq({path})
      OBVIOUS
    <3> QED
      BY <2>2, <3>1, <3>2, SequenceOfItself DEF PathsAreFound
  <2> QED
    BY <1>2, <2>1, <2>2
<1>4. CASE OpenDirectory
  BY <1>2, <1>4 DEF OpenDirectory, Fail
<1>5. CASE VisitEntry
  <2>1. phase = "scan" /\ phase' \in {"scan", "done"} /\ (UNCHANGED paths \/ \E path : paths' = Append(paths, path))
    BY <1>5 DEF VisitEntry, Fail
  <2>2. CASE \E path : paths' = Append(paths, path)
    <3>1. PICK path : paths' = Append(paths, path)
      BY <2>2
    <3>2. paths \in Seq(Range(paths) \cup {path})
      BY <1>1
    <3>3. Append(paths, path) \in Seq(Range(paths) \cup {path})
      BY <3>2
    <3> QED
      BY <2>1, <3>1, <3>3, SequenceOfItself DEF PathsAreFound
  <2> QED
    BY <1>2, <2>1, <2>2
<1>6. CASE LeaveDirectory
  BY <1>2, <1>6 DEF LeaveDirectory
<1>7. CASE EndScan
  BY <1>2, <1>7 DEF EndScan
<1>8. CASE CanonicalizePath
  <2> DEFINE path == Canonical(fs, Head(paths))
  <2>1. CASE Exists(fs, Head(paths))
    <3>1. paths # <<>> /\ paths' = [paths EXCEPT ![1] = Canonical(fs, paths[1])]
      BY <1>8, <2>1 DEF CanonicalizePath
    <3>2. Head(paths) = paths[1]
      BY <1>1, <3>1
    <3>3. path \in Paths
      BY <1>1, <2>1, FoundIsReal DEF IsReal
    <3> HIDE DEF path
    <3>4. paths' = [paths EXCEPT ![1] = path]
      BY <3>1, <3>2 DEF path
    <3>5. paths \in Seq(Range(paths) \cup {path})
      BY <1>1
    <3>6. paths' \in Seq(Range(paths) \cup {path}) /\ paths' # <<>> /\ Head(paths') = path
      BY <3>1, <3>4, <3>5
    <3> QED
      BY <3>3, <3>6, SequenceOfItself DEF PathsAreFound
  <2>2. CASE ~Exists(fs, Head(paths))
    BY <1>2, <1>8, <2>2 DEF CanonicalizePath, Fail
  <2> QED
    BY <2>1, <2>2
<1>9. CASE CreateSource
  <2>1. CASE IsRegularFile(fs, Head(paths))
    <3>1. phase = "regular" /\ paths' = Tail(paths) /\ phase' = "create"
      BY <1>9, <2>1 DEF CreateSource
    <3>2. Tail(paths) \in Seq(Range(paths))
      BY <1>1, <3>1
    <3> QED
      BY <3>1, <3>2, SequenceOfItself DEF PathsAreFound
  <2>2. CASE ~IsRegularFile(fs, Head(paths))
    BY <1>2, <1>9, <2>2 DEF CreateSource, Fail
  <2> QED
    BY <2>1, <2>2
<1>10. CASE SortSources
  BY <1>2, <1>10 DEF SortSources
<1> QED
  BY <1>3, <1>4, <1>5, <1>6, <1>7, <1>8, <1>9, <1>10 DEF ResolverNext

\* A step that ends the run leaves nothing to be checked.
LEMMA EndKeepsInv ==
  ASSUME Inv, UNCHANGED <<fs, context, list, opened, paths>>, CurrentHasFields',
         phase' = "done", OpenedIsPermitted'
  PROVE  Inv'
BY DEF Inv, IsChecked, PhasesOfCheck, IsSmall, IsNear, IsOpening, PathsAreFound

\* A step that sets one field of the paths keeps the others.
LEMMA FieldIsSet ==
  ASSUME CurrentHasFields, NEW path
  PROVE  /\ LET set == [current EXCEPT !.directory = path]
            IN  set = [source |-> current.source, directory |-> path, file |-> current.file]
         /\ LET set == [current EXCEPT !.file = path]
            IN  set = [source |-> current.source, directory |-> current.directory, file |-> path]
BY DEF CurrentHasFields

LEMMA BeginCheckKeepsInv == ASSUME Inv, BeginCheck PROVE Inv'
<1> DEFINE source == FileAt(NextSource)
           refused == \/ IsRefusedAtOnce(source, context.check)
                      \/ ~HasRequiredSuffix(source, context.check)
                      \/ ~NeedsParentDirectory(context.includer, context.check)
                      \/ ~Exists(fs, source.path)
<1>1. /\ phase = "check" /\ Len(opened) < Len(list) /\ stable' = TRUE
      /\ current' = [NotChecked EXCEPT !.source = CanonicalSource(fs, source)]
      /\ UNCHANGED <<fs, context, list, opened, paths>>
      /\ refused => phase' = "done" /\ outcome' = "refused"
      /\ ~refused => phase' = "parent" /\ outcome' = outcome
  BY DEF BeginCheck, Fail
<1>2. NextSource \in Paths \ {<<>>}
  BY <1>1, NextSourceIsPath DEF Inv
<1>3. NextSource' = NextSource /\ source.path = NextSource
  BY <1>1 DEF NextSource, FileAt
<1>4. outcome # "refused"
  BY <1>1 DEF Inv
<1>7. current' = [source |-> Canonical(fs, NextSource), directory |-> <<>>, file |-> <<>>]
  BY <1>1, <1>3 DEF NotChecked, CanonicalSource
<1>8. CurrentHasFields'
  BY <1>7 DEF CurrentHasFields
<1> HIDE DEF source, refused
<1>5. CASE refused
  <2>1. \/ ~IsRegularFile(fs, NextSource)
        \/ ~Exists(fs, ParentPath(context.includer.path))
        \/ ~HasParentDirectory(context.includer)
        \/ "LimitSize" \in context.check /\ FileIsBig(fs, NextSource)
        \/ ~HasRequiredSuffix(FileAt(NextSource), context.check)
        \/ ~DirectoryIsPermitted(Canonical(fs, NextSource),
                                 Canonical(fs, ParentPath(context.includer.path)), context.check)
    <3>1. CASE IsRefusedAtOnce(source, context.check)
      <4>1. context.check \cap DirectoryPolicies = {}
        BY <3>1 DEF IsRefusedAtOnce, FileAt, source
      <4>2. context.check \cap {"SameDirectory", "Subdirectories", "AnyDirectory"} = {}
        BY <4>1 DEF DirectoryPolicies
      <4>3. "AnyDirectory" \notin context.check /\ "SameDirectory" \notin context.check
            /\ "Subdirectories" \notin context.check
        BY <4>2
      <4> QED
        BY <4>3 DEF DirectoryIsPermitted
    <3>2. CASE ~HasRequiredSuffix(source, context.check)
      BY <3>2 DEF source
    <3>3. CASE ~NeedsParentDirectory(context.includer, context.check)
      BY <3>3 DEF NeedsParentDirectory
    <3>4. CASE ~Exists(fs, source.path)
      BY <1>3, <3>4 DEF IsRegularFile
    <3> QED
      BY <1>5, <3>1, <3>2, <3>3, <3>4 DEF refused
  <2>2. OpenedIsPermitted'
    BY <1>1, <1>2, <2>1, RightlyRefused DEF Inv
  <2> QED
    BY <1>1, <1>5, <1>8, <2>2, EndKeepsInv
<1>6. CASE ~refused
  <2>1. OpenedIsPermitted'
    BY <1>1, <1>4, <1>6, NothingOpened DEF Inv
  <2>2. IsChecked'
    BY <1>1, <1>3, <1>6, <1>7 DEF IsChecked, refused, source
  <2> QED
    BY <1>1, <1>4, <1>6, <1>8, <2>1, <2>2 DEF Inv, IsSmall, IsNear, IsOpening, PathsAreFound
<1> QED
  BY <1>5, <1>6

\* The paths of a check that nothing disturbed.
LEMMA CheckedPaths ==
  ASSUME Inv, phase \in PhasesOfCheck \ {"parent"}, stable
  PROVE  /\ NextSource \in Paths \ {<<>>}
         /\ Exists(fs, NextSource)
         /\ HasParentDirectory(context.includer)
         /\ HasRequiredSuffix(FileAt(NextSource), context.check)
         /\ current.source = Canonical(fs, NextSource)
         /\ current.directory = Canonical(fs, ParentPath(context.includer.path))
         /\ FileIsBig(fs, current.source) = FileIsBig(fs, NextSource)
         /\ IsRegularFile(fs, current.source) <=> IsRegularFile(fs, NextSource)
         /\ Canonical(fs, current.source) = current.source
<1>1. /\ Len(opened) < Len(list)
      /\ HasRequiredSuffix(FileAt(NextSource), context.check)
      /\ Exists(fs, NextSource) /\ current.source = Canonical(fs, NextSource)
      /\ DirectoryExists(fs, context.includer)
      /\ current.directory = CanonicalDirectory(fs, context.includer)
  BY DEF Inv, IsChecked
<1>2. NextSource \in Paths \ {<<>>}
  BY <1>1, NextSourceIsPath DEF Inv
<1>3. HasParentDirectory(context.includer)
      /\ current.directory = Canonical(fs, ParentPath(context.includer.path))
  BY <1>1 DEF DirectoryExists, CanonicalDirectory
<1>4. IsFileSystem(fs)
  BY DEF Inv
<1>5. Exists(fs, current.source) /\ Canonical(fs, current.source) = current.source
  BY <1>1, <1>4, CanonicalIsCanonical
<1>6. FileIsBig(fs, current.source) = FileIsBig(fs, NextSource)
  BY <1>1, <1>5 DEF FileIsBig
<1>7. IsRegularFile(fs, current.source) <=> IsRegularFile(fs, NextSource)
  BY <1>1, <1>5 DEF IsRegularFile
<1> QED
  BY <1>1, <1>2, <1>3, <1>5, <1>6, <1>7

\* Nor does it matter what is refused once the file system has changed.
LEMMA NothingOpenedWhileUnstable ==
  ASSUME OpenedIsPermitted, UNCHANGED <<context, opened>>, ~stable'
  PROVE  OpenedIsPermitted'
<1>1. ASSUME NEW file \in Range(opened), file.stable
      PROVE  IsPermitted(file)'
  <2>1. IsPermitted(file)
    BY <1>1 DEF OpenedIsPermitted
  <2> QED
    BY <2>1 DEF IsPermitted
<1> QED
  BY <1>1 DEF OpenedIsPermitted

LEMMA CheckParentKeepsInv == ASSUME Inv, CheckParent PROVE Inv'
<1> DEFINE home == CanonicalDirectory(fs, context.includer)
<1>1. /\ phase = "parent" /\ UNCHANGED <<fs, context, list, opened, paths, stable>>
      /\ current' = [current EXCEPT !.directory = home]
      /\ IF DirectoryExists(fs, context.includer)
         THEN phase' = "size" /\ outcome' = outcome
         ELSE phase' = "done" /\ outcome' = "refused"
  BY DEF CheckParent, Fail, worldVars
<1>2. outcome # "refused"
  BY <1>1 DEF Inv
<1>3. NextSource' = NextSource
  BY <1>1 DEF NextSource
<1>4. IsChecked /\ IsFileSystem(fs) /\ OpenedIsPermitted /\ CurrentHasFields
  BY DEF Inv
<1> HIDE DEF home
<1>5. current' = [source |-> current.source, directory |-> home, file |-> current.file]
  BY <1>1, <1>4, FieldIsSet
<1>6. CurrentHasFields'
  BY <1>5 DEF CurrentHasFields
<1>7. CASE DirectoryExists(fs, context.includer)
  <2>1. OpenedIsPermitted'
    BY <1>1, <1>2, <1>4, <1>7, NothingOpened
  <2>2. IsChecked'
    BY <1>1, <1>3, <1>4, <1>5, <1>7 DEF IsChecked, PhasesOfCheck, home
  <2> QED
    BY <1>1, <1>2, <1>6, <1>7, <2>1, <2>2 DEF Inv, IsSmall, IsNear, IsOpening, PathsAreFound
<1>8. CASE ~DirectoryExists(fs, context.includer)
  <2>1. NextSource \in Paths \ {<<>>}
    BY <1>1, <1>4, NextSourceIsPath DEF Inv, IsChecked, PhasesOfCheck
  <2>2. OpenedIsPermitted'
    BY <1>1, <1>4, <1>8, <2>1, RightlyRefused DEF DirectoryExists
  <2> QED
    BY <1>1, <1>6, <1>8, <2>2, EndKeepsInv
<1> QED
  BY <1>7, <1>8

LEMMA CheckSizeKeepsInv == ASSUME Inv, CheckSize PROVE Inv'
<1> USE DEF PhasesOfCheck
<1>1. /\ phase = "size" /\ UNCHANGED <<fs, context, list, opened, paths, current, stable>>
      /\ \/ phase' = "directory" /\ outcome' = outcome
            /\ ("LimitSize" \in context.check => ~FileIsBig(fs, current.source))
         \/ phase' = "done" /\ outcome' = "system error"
         \/ phase' = "done" /\ outcome' = "refused" /\ "LimitSize" \in context.check
            /\ FileIsBig(fs, current.source)
  BY DEF CheckSize, Fail, checkVars, worldVars
<1>2. outcome # "refused"
  BY <1>1 DEF Inv
<1>3. NextSource' = NextSource
  BY <1>1 DEF NextSource
<1>4. IsChecked /\ IsFileSystem(fs) /\ OpenedIsPermitted /\ CurrentHasFields /\ CurrentHasFields'
  BY <1>1 DEF Inv, CurrentHasFields
<1>5. CASE phase' = "directory" /\ outcome' = outcome
           /\ ("LimitSize" \in context.check => ~FileIsBig(fs, current.source))
  <2>1. OpenedIsPermitted'
    BY <1>1, <1>2, <1>4, <1>5, NothingOpened
  <2>2. IsChecked'
    BY <1>1, <1>3, <1>4, <1>5 DEF IsChecked
  <2>3. IsSmall'
    BY <1>1, <1>5 DEF IsSmall
  <2> QED
    BY <1>1, <1>2, <1>4, <1>5, <2>1, <2>2, <2>3 DEF Inv, IsNear, IsOpening, PathsAreFound
<1>6. CASE phase' = "done" /\ outcome' = "system error"
  <2>1. OpenedIsPermitted'
    BY <1>1, <1>4, <1>6, NothingOpened
  <2> QED
    BY <1>1, <1>4, <1>6, <2>1, EndKeepsInv
<1>7. CASE phase' = "done" /\ outcome' = "refused" /\ "LimitSize" \in context.check
           /\ FileIsBig(fs, current.source)
  <2>1. NextSource \in Paths \ {<<>>}
    BY <1>1, <1>4, NextSourceIsPath DEF Inv, IsChecked
  <2>2. CASE stable
    <3>1. FileIsBig(fs, NextSource)
      BY <1>1, <1>7, <2>2, CheckedPaths
    <3>2. OpenedIsPermitted'
      BY <1>1, <1>4, <1>7, <2>1, <3>1, RightlyRefused
    <3> QED
      BY <1>1, <1>4, <1>7, <3>2, EndKeepsInv
  <2>3. CASE ~stable
    <3>1. OpenedIsPermitted'
      BY <1>1, <1>4, <2>3, NothingOpenedWhileUnstable
    <3> QED
      BY <1>1, <1>4, <1>7, <3>1, EndKeepsInv
  <2> QED
    BY <2>2, <2>3
<1> QED
  BY <1>1, <1>5, <1>6, <1>7

LEMMA CheckDirectoryKeepsInv == ASSUME Inv, CheckDirectory PROVE Inv'
<1> USE DEF PhasesOfCheck
<1>1. /\ phase = "directory" /\ UNCHANGED <<fs, context, list, opened, paths, current, stable>>
      /\ IF DirectoryIsPermitted(current.source, current.directory, context.check)
         THEN phase' = "open" /\ outcome' = outcome
         ELSE phase' = "done" /\ outcome' = "refused"
  BY DEF CheckDirectory, Fail, checkVars, worldVars
<1>2. outcome # "refused"
  BY <1>1 DEF Inv
<1>3. NextSource' = NextSource
  BY <1>1 DEF NextSource
<1>4. IsChecked /\ IsSmall /\ IsFileSystem(fs) /\ OpenedIsPermitted /\ CurrentHasFields /\ CurrentHasFields'
  BY <1>1 DEF Inv, CurrentHasFields
<1>5. CASE DirectoryIsPermitted(current.source, current.directory, context.check)
  <2>1. phase' = "open" /\ outcome' = outcome
    BY <1>1, <1>5
  <2>2. OpenedIsPermitted'
    BY <1>1, <1>2, <1>4, <2>1, NothingOpened
  <2>3. IsChecked'
    BY <1>1, <1>3, <1>4, <2>1 DEF IsChecked
  <2>4. IsSmall'
    BY <1>1, <1>4, <2>1 DEF IsSmall
  <2>5. IsNear'
    BY <1>1, <1>5 DEF IsNear
  <2> QED
    BY <1>1, <1>2, <1>4, <2>1, <2>2, <2>3, <2>4, <2>5 DEF Inv, IsOpening, PathsAreFound
<1>6. CASE ~DirectoryIsPermitted(current.source, current.directory, context.check)
  <2>1. phase' = "done" /\ outcome' = "refused"
    BY <1>1, <1>6
  <2>2. NextSource \in Paths \ {<<>>}
    BY <1>1, <1>4, NextSourceIsPath DEF Inv, IsChecked
  <2>3. CASE stable
    <3>1. ~DirectoryIsPermitted(Canonical(fs, NextSource),
                                Canonical(fs, ParentPath(context.includer.path)), context.check)
      BY <1>1, <1>6, <2>3, CheckedPaths
    <3>2. OpenedIsPermitted'
      BY <1>1, <1>4, <2>2, <3>1, RightlyRefused
    <3> QED
      BY <1>1, <1>4, <2>1, <3>2, EndKeepsInv
  <2>4. CASE ~stable
    <3>1. OpenedIsPermitted'
      BY <1>1, <1>4, <2>4, NothingOpenedWhileUnstable
    <3> QED
      BY <1>1, <1>4, <2>1, <3>1, EndKeepsInv
  <2> QED
    BY <2>3, <2>4
<1> QED
  BY <1>5, <1>6

\* The two steps that look at the file again before it is opened.
LEMMA LookingAgainKeepsInv == ASSUME Inv, BeginOpen \/ CheckStatus PROVE Inv'
<1> USE DEF PhasesOfCheck
<1>1. /\ UNCHANGED <<fs, context, list, opened, paths, stable>>
      /\ \/ /\ phase = "open" /\ current' = [current EXCEPT !.file = Canonical(fs, NextSource)]
            /\ \/ phase' = "status" /\ outcome' = outcome
               \/ phase' = "done" /\ outcome' = "error"
         \/ /\ phase = "status" /\ UNCHANGED current
            /\ \/ phase' = "stream" /\ outcome' = outcome
               \/ phase' = "done" /\ outcome' = "error"
  BY DEF BeginOpen, CheckStatus, Fail, checkVars, worldVars
<1>2. outcome # "refused"
  BY <1>1 DEF Inv
<1>3. NextSource' = NextSource
  BY <1>1 DEF NextSource
<1>4. IsChecked /\ IsSmall /\ IsNear /\ IsOpening /\ OpenedIsPermitted /\ CurrentHasFields
  BY DEF Inv
<1>5. /\ current' = [source |-> current.source, directory |-> current.directory, file |-> current'.file]
      /\ phase = "open" => current'.file = Canonical(fs, NextSource)
      /\ phase = "status" => current'.file = current.file
  <2>1. CASE current' = [current EXCEPT !.file = Canonical(fs, NextSource)] /\ phase = "open"
    <3>1. current' = [source |-> current.source, directory |-> current.directory, file |-> Canonical(fs, NextSource)]
      BY <1>4, <2>1, FieldIsSet
    <3> QED
      BY <2>1, <3>1
  <2>2. CASE UNCHANGED current /\ phase = "status"
    BY <1>4, <2>2 DEF CurrentHasFields
  <2> QED
    BY <1>1, <2>1, <2>2
<1>6. CurrentHasFields' /\ current'.source = current.source /\ current'.directory = current.directory
  BY <1>5 DEF CurrentHasFields
<1>7. OpenedIsPermitted'
  BY <1>1, <1>2, <1>4, NothingOpened
<1>8. CASE phase' = "done"
  BY <1>1, <1>6, <1>7, <1>8, EndKeepsInv
<1>9. CASE phase' \in {"status", "stream"}
  <2>1. outcome' = outcome /\ phase \in {"open", "status"}
    BY <1>1, <1>9
  <2>2. IsChecked'
    BY <1>1, <1>3, <1>4, <1>6, <1>9, <2>1 DEF IsChecked
  <2>3. IsSmall' /\ IsNear'
    BY <1>1, <1>4, <1>6, <1>9, <2>1 DEF IsSmall, IsNear
  <2>4. IsOpening'
    BY <1>1, <1>3, <1>4, <1>5, <1>9, <2>1 DEF IsOpening
  <2> QED
    BY <1>1, <1>2, <1>6, <1>7, <1>9, <2>1, <2>2, <2>3, <2>4 DEF Inv, PathsAreFound
<1> QED
  BY <1>1, <1>8, <1>9

LEMMA OpenSourceKeepsInv == ASSUME Inv, OpenSource PROVE Inv'
<1> USE DEF PhasesOfCheck
<1> DEFINE file == SeenFile(NextSource, current.file)
<1>1. /\ phase = "stream" /\ UNCHANGED <<fs, context, list, paths, current, stable>>
      /\ IF IsRegularFile(fs, current.file)
         THEN opened' = Append(opened, file) /\ phase' = "check" /\ outcome' = outcome
         ELSE opened' = opened /\ phase' = "done" /\ outcome' = "error"
  BY DEF OpenSource, Fail, worldVars
<1>2. outcome # "refused"
  BY <1>1 DEF Inv
<1>6. CurrentHasFields'
  BY <1>1 DEF Inv, CurrentHasFields
<1>3. IsChecked /\ IsSmall /\ IsNear /\ IsOpening /\ IsFileSystem(fs) /\ OpenedIsPermitted /\ opened \in Seq(Range(opened))
  BY DEF Inv
<1>4. CASE IsRegularFile(fs, current.file)
  <2>1. opened' = Append(opened, file) /\ phase' = "check" /\ outcome' = outcome
    BY <1>1, <1>4
  <2>2. stable => IsPermitted(file)
    <3>1. SUFFICES ASSUME stable PROVE IsPermitted(file)
      OBVIOUS
    <3>2. /\ NextSource \in Paths \ {<<>>}
          /\ HasParentDirectory(context.includer)
          /\ HasRequiredSuffix(FileAt(NextSource), context.check)
          /\ current.source = Canonical(fs, NextSource)
          /\ current.directory = Canonical(fs, ParentPath(context.includer.path))
          /\ FileIsBig(fs, current.source) = FileIsBig(fs, NextSource)
          /\ IsRegularFile(fs, current.source) <=> IsRegularFile(fs, NextSource)
          /\ Canonical(fs, current.source) = current.source
      BY <1>1, <3>1, CheckedPaths
    <3>3. "LimitSize" \in context.check => ~FileIsBig(fs, current.source)
      BY <1>1, <1>3, <3>1 DEF IsSmall
    <3>4. DirectoryIsPermitted(current.source, current.directory, context.check)
      BY <1>1, <1>3 DEF IsNear
    <3>6. current.file = current.source
      BY <1>1, <1>3, <3>1, <3>2 DEF IsOpening
    <3>5. /\ file.source = NextSource
          /\ file.path = Canonical(fs, NextSource)
          /\ file.isBig = FileIsBig(fs, NextSource)
          /\ file.home = Canonical(fs, ParentPath(context.includer.path))
      BY <3>2, <3>6 DEF SeenFile
    <3> HIDE DEF file
    <3> QED
      BY <1>3, <1>4, <3>2, <3>3, <3>4, <3>5, <3>6, PermittedMeans
  <2>3. file.stable = stable
    BY DEF SeenFile
  <2> HIDE DEF file
  <2>4. Range(opened') = Range(opened) \cup {file} /\ opened' \in Seq(Range(opened'))
    <3>1. opened \in Seq(Range(opened) \cup {file}) /\ file \in Range(opened) \cup {file}
      BY <1>3
    <3>2. /\ Len(opened') = Len(opened) + 1 /\ opened'[Len(opened) + 1] = file
          /\ opened' \in Seq(Range(opened) \cup {file})
          /\ \A i \in 1 .. Len(opened) : opened'[i] = opened[i]
      BY <2>1, <3>1
    <3>3. Range(opened') = Range(opened) \cup {file}
      BY <1>3, <3>2 DEF Range
    <3> QED
      BY <3>2, <3>3
  <2>5. ASSUME NEW f \in Range(opened'), f.stable PROVE IsPermitted(f)'
    <3>1. CASE f \in Range(opened)
      <4>1. IsPermitted(f)
        BY <1>3, <2>5, <3>1 DEF OpenedIsPermitted
      <4> QED
        BY <1>1, <4>1 DEF IsPermitted
    <3>2. CASE f = file
      <4>1. IsPermitted(f)
        BY <2>2, <2>3, <2>5, <3>2
      <4> QED
        BY <1>1, <4>1 DEF IsPermitted
    <3> QED
      BY <2>4, <2>5, <3>1, <3>2
  <2>6. OpenedIsPermitted'
    BY <1>2, <2>1, <2>5 DEF OpenedIsPermitted
  <2> QED
    BY <1>1, <1>2, <1>6, <2>1, <2>4, <2>6 DEF Inv, IsChecked, IsSmall, IsNear, IsOpening, PathsAreFound
<1>5. CASE ~IsRegularFile(fs, current.file)
  <2>1. opened' = opened /\ phase' = "done" /\ outcome' = "error"
    BY <1>1, <1>5
  <2>2. OpenedIsPermitted'
    BY <1>1, <1>3, <2>1, NothingOpened
  <2> QED
    BY <1>1, <1>6, <2>1, <2>2, EndKeepsInv
<1> QED
  BY <1>4, <1>5

\* Another program may change anything; what was checked is then no longer stable.
LEMMA ChangeKeepsInv == ASSUME Inv, ChangeFileSystem PROVE Inv'
<1>1. /\ phase # "done" /\ IsFileSystem(fs') /\ stable' = FALSE
      /\ UNCHANGED <<context, phase, outcome, list, paths, current, opened>>
  BY DEF ChangeFileSystem, checkVars
<1>2. outcome # "refused"
  BY <1>1 DEF Inv
<1>3. NextSource' = NextSource
  BY <1>1 DEF NextSource
<1>4. OpenedIsPermitted'
  BY <1>1, <1>2, NothingOpened DEF Inv
<1>5. IsChecked'
  BY <1>1, <1>3 DEF Inv, IsChecked
<1>6. IsSmall' /\ IsNear' /\ IsOpening' /\ CurrentHasFields' /\ PathsAreFound'
  BY <1>1 DEF Inv, IsSmall, IsNear, IsOpening, CurrentHasFields, PathsAreFound
<1> QED
  BY <1>1, <1>2, <1>4, <1>5, <1>6 DEF Inv

LEMMA InvIsInductive == Inv /\ [Next]_vars => Inv'
<1> USE DEF PhasesOfCheck
<1> SUFFICES ASSUME Inv, [Next]_vars PROVE Inv'
  OBVIOUS
<1>1. CASE CheckRoot
  <2>1. /\ UNCHANGED <<fs, context, list, paths, opened, current>>
        /\ phase' \in {"done", "resolve"} /\ outcome' # "refused"
    BY <1>1 DEF CheckRoot, Fail, checkVars, Inv
  <2>2. OpenedIsPermitted'
    BY <2>1, NothingOpened DEF Inv
  <2> QED
    BY <2>1, <2>2 DEF Inv, IsChecked, IsSmall, IsNear, IsOpening, PathsAreFound, CurrentHasFields
<1>2. CASE Resolve
  <2>1. /\ UNCHANGED <<fs, context>> /\ list' \in Seq(Paths \ {<<>>})
        /\ PathsAreFound' /\ phase' \notin PhasesOfCheck /\ outcome' # "refused"
    BY <1>2, ResolverKeepsPaths, ResolverFindsPaths DEF Resolve
  <2>2. UNCHANGED <<opened, current>>
    BY <1>2 DEF Resolve, checkVars
  <2>3. OpenedIsPermitted'
    BY <2>1, <2>2, NothingOpened DEF Inv
  <2> QED
    BY <2>1, <2>2, <2>3 DEF Inv, IsChecked, IsSmall, IsNear, IsOpening, CurrentHasFields
<1>3. CASE BeginCheck
  BY <1>3, BeginCheckKeepsInv
<1>4. CASE CheckSize
  BY <1>4, CheckSizeKeepsInv
<1>5. CASE CheckDirectory
  BY <1>5, CheckDirectoryKeepsInv
<1>6. CASE OpenSource
  BY <1>6, OpenSourceKeepsInv
<1>10. CASE CheckParent
  BY <1>10, CheckParentKeepsInv
<1>11. CASE BeginOpen \/ CheckStatus
  BY <1>11, LookingAgainKeepsInv
<1>7. CASE Complete
  <2>1. UNCHANGED <<fs, context, list, paths, opened, current>> /\ phase' = "done" /\ outcome' = "included"
    BY <1>7 DEF Complete, Fail, checkVars
  <2>2. OpenedIsPermitted'
    BY <2>1, NothingOpened DEF Inv
  <2> QED
    BY <2>1, <2>2, EndKeepsInv DEF Inv, CurrentHasFields
<1>8. CASE ChangeFileSystem
  BY <1>8, ChangeKeepsInv
<1>9. CASE UNCHANGED vars
  <2>1. UNCHANGED <<fs, context, phase, outcome, list, paths, current, opened, stable>>
    BY <1>9 DEF vars, resolverVars, checkVars, worldVars
  <2> QED
    BY <2>1 DEF Inv, IsChecked, IsSmall, IsNear, IsOpening, PathsAreFound, CurrentHasFields, OpenedIsPermitted, NextSource, SeenFile, IsPermitted
<1> QED
  BY <1>1, <1>2, <1>3, <1>4, <1>5, <1>6, <1>7, <1>8, <1>9, <1>10, <1>11 DEF Next

\* The file system stays one, the list holds paths of files, and until a source is
\* opened the checks it has passed still hold, unless the file system was changed.
\* (FileAccessCheck.cpp:45-174, FileSourceResolver.cpp:36-375)
THEOREM InvIsInvariant == Spec => []Inv
<1>1. Init => Inv
  BY InvHoldsInitially
<1>2. Inv /\ [Next]_vars => Inv'
  BY InvIsInductive
<1> QED
  BY <1>1, <1>2, PTL DEF Spec

\* Whatever the file system, the links in it, the include and the enabled features:
\* without a change between check and opening, only permitted files are opened, and
\* only files that are not permitted, are no files or have lost the directory of the
\* including document are refused.  (FileAccessCheck.cpp:45-174, Parser.hpp:113-139)
THEOREM OnlyPermittedIsOpened == Spec => []OpenedIsPermitted
<1>1. Inv => OpenedIsPermitted
  BY DEF Inv
<1> QED
  BY <1>1, InvIsInvariant, PTL
-----------------------------------------------------------------------------
(* The order of the sources is a strict order of all paths                 *)

IsStrictOrder(order, set) ==
  /\ \A x \in set : <<x, x>> \notin order
  /\ \A x, y, z \in set : <<x, y>> \in order /\ <<y, z>> \in order => <<x, z>> \in order
  /\ \A x, y \in set : x # y => <<x, y>> \in order \/ <<y, x>> \in order

\* The order of sequences by the first element in which they differ.
LexicallyLess(order, a, b) ==
  \E n \in 1 .. Len(b) :
    /\ Len(a) >= n - 1
    /\ \A i \in 1 .. n - 1 : a[i] = b[i]
    /\ Len(a) = n - 1 \/ <<a[n], b[n]>> \in order

LexicalOrder(order, set) == {p \in Seq(set) \X Seq(set) : LexicallyLess(order, p[1], p[2])}

\* Two sequences agree up to some element, and then one of them ends or they differ.
LEMMA FirstDifference ==
  ASSUME NEW S, NEW a \in Seq(S), NEW b \in Seq(S)
  PROVE  \E k \in 0 .. Len(a) :
           /\ k <= Len(b) /\ \A i \in 1 .. k : a[i] = b[i]
           /\ k = Len(a) \/ k = Len(b) \/ (k < Len(a) /\ k < Len(b) /\ a[k + 1] # b[k + 1])
<1> DEFINE common == {k \in 0 .. Len(a) : k <= Len(b) /\ \A i \in 1 .. k : a[i] = b[i]}
           k == Max(common)
<1>1. Len(a) \in Nat /\ Len(b) \in Nat
  OBVIOUS
<1>2. common \in SUBSET (0 .. Len(a)) /\ 0 \in common
  BY <1>1
<1>3. k \in common /\ \A x \in common : k >= x
  BY <1>1, <1>2, GreatestExists
<1> HIDE DEF k
<1>4. k \in 0 .. Len(a) /\ k <= Len(b) /\ \A i \in 1 .. k : a[i] = b[i]
  BY <1>3
<1>5. CASE k < Len(a) /\ k < Len(b)
  <2>1. k + 1 \in 0 .. Len(a) /\ k + 1 <= Len(b)
    BY <1>1, <1>4, <1>5
  <2>2. ASSUME \A i \in 1 .. k + 1 : a[i] = b[i]
        PROVE  FALSE
    <3>1. k + 1 \in common
      BY <2>1, <2>2
    <3> HIDE DEF common
    <3> QED
      BY <1>3, <1>4, <3>1
  <2>3. a[k + 1] # b[k + 1]
    BY <1>4, <2>2
  <2> QED
    BY <1>4, <1>5, <2>3
<1> QED
  BY <1>1, <1>4, <1>5

LEMMA LexicalOrderIsStrict ==
  ASSUME NEW S, NEW order, IsStrictOrder(order, S)
  PROVE  IsStrictOrder(LexicalOrder(order, S), Seq(S))
<1> DEFINE less == LexicalOrder(order, S)
<1>0. \A a, b \in Seq(S) : <<a, b>> \in less <=> LexicallyLess(order, a, b)
  BY DEF LexicalOrder
<1>1. ASSUME NEW a \in Seq(S)
      PROVE  ~LexicallyLess(order, a, a)
  <2>1. Len(a) \in Nat /\ \A n \in 1 .. Len(a) : a[n] \in S
    OBVIOUS
  <2>2. \A n \in 1 .. Len(a) : <<a[n], a[n]>> \notin order
    BY <2>1 DEF IsStrictOrder
  <2>3. ASSUME NEW n \in 1 .. Len(a)
        PROVE  Len(a) # n - 1 /\ <<a[n], a[n]>> \notin order
    BY <2>1, <2>2
  <2> QED
    BY <2>3 DEF LexicallyLess
<1>2. ASSUME NEW a \in Seq(S), NEW b \in Seq(S), NEW c \in Seq(S),
             LexicallyLess(order, a, b), LexicallyLess(order, b, c)
      PROVE  LexicallyLess(order, a, c)
  <2>1. PICK n \in 1 .. Len(b) : /\ Len(a) >= n - 1 /\ \A i \in 1 .. n - 1 : a[i] = b[i]
                                 /\ Len(a) = n - 1 \/ <<a[n], b[n]>> \in order
    BY <1>2 DEF LexicallyLess
  <2>2. PICK m \in 1 .. Len(c) : /\ Len(b) >= m - 1 /\ \A i \in 1 .. m - 1 : b[i] = c[i]
                                 /\ Len(b) = m - 1 \/ <<b[m], c[m]>> \in order
    BY <1>2 DEF LexicallyLess
  <2>3. /\ Len(a) \in Nat /\ Len(b) \in Nat /\ Len(c) \in Nat
        /\ \A i \in 1 .. Len(a) : a[i] \in S
        /\ \A i \in 1 .. Len(b) : b[i] \in S
        /\ \A i \in 1 .. Len(c) : c[i] \in S
    OBVIOUS
  <2>4. CASE n < m
    <3>1. n \in 1 .. Len(c) /\ b[n] = c[n] /\ \A i \in 1 .. n - 1 : a[i] = c[i]
      BY <2>1, <2>2, <2>3, <2>4
    <3> QED
      BY <2>1, <3>1 DEF LexicallyLess
  <2>5. CASE m < n
    <3>1. Len(b) # m - 1 /\ Len(a) >= m - 1 /\ a[m] = b[m] /\ \A i \in 1 .. m - 1 : a[i] = c[i]
      BY <2>1, <2>2, <2>3, <2>5
    <3>2. <<a[m], c[m]>> \in order
      BY <2>2, <3>1
    <3> QED
      BY <3>1, <3>2 DEF LexicallyLess
  <2>6. CASE n = m
    <3>1. Len(b) # n - 1 /\ \A i \in 1 .. n - 1 : a[i] = c[i]
      BY <2>1, <2>2, <2>3, <2>6
    <3>2. <<b[n], c[n]>> \in order /\ n \in 1 .. Len(c) /\ b[n] \in S /\ c[n] \in S
      BY <2>2, <2>3, <2>6, <3>1
    <3>3. Len(a) # n - 1 => a[n] \in S /\ <<a[n], b[n]>> \in order
      BY <2>1, <2>3
    <3>4. Len(a) # n - 1 => <<a[n], c[n]>> \in order
      BY <3>2, <3>3 DEF IsStrictOrder
    <3> QED
      BY <2>1, <3>1, <3>2, <3>4 DEF LexicallyLess
  <2> QED
    BY <2>4, <2>5, <2>6
<1>3. ASSUME NEW a \in Seq(S), NEW b \in Seq(S), a # b
      PROVE  LexicallyLess(order, a, b) \/ LexicallyLess(order, b, a)
  <2>1. PICK k \in 0 .. Len(a) :
           /\ k <= Len(b) /\ \A i \in 1 .. k : a[i] = b[i]
           /\ k = Len(a) \/ k = Len(b) \/ (k < Len(a) /\ k < Len(b) /\ a[k + 1] # b[k + 1])
    BY FirstDifference
  <2>2. Len(a) \in Nat /\ Len(b) \in Nat /\ (k + 1) - 1 = k
    OBVIOUS
  <2>3. ~(k = Len(a) /\ k = Len(b))
    BY <1>3, <2>1
  <2>4. CASE k = Len(a)
    <3>1. k + 1 \in 1 .. Len(b)
      BY <2>1, <2>2, <2>3, <2>4
    <3> QED
      BY <2>1, <2>2, <2>4, <3>1 DEF LexicallyLess
  <2>5. CASE k = Len(b)
    <3>1. k + 1 \in 1 .. Len(a) /\ \A i \in 1 .. k : b[i] = a[i]
      BY <2>1, <2>2, <2>3, <2>5
    <3> QED
      BY <2>1, <2>2, <2>5, <3>1 DEF LexicallyLess
  <2>6. CASE k < Len(a) /\ k < Len(b) /\ a[k + 1] # b[k + 1]
    <3>1. k + 1 \in 1 .. Len(a) /\ k + 1 \in 1 .. Len(b) /\ \A i \in 1 .. k : b[i] = a[i]
      BY <2>1, <2>2, <2>6
    <3>2. a[k + 1] \in S /\ b[k + 1] \in S
      BY <3>1
    <3>3. <<a[k + 1], b[k + 1]>> \in order \/ <<b[k + 1], a[k + 1]>> \in order
      BY <2>6, <3>2 DEF IsStrictOrder
    <3>4. Len(a) >= (k + 1) - 1 /\ Len(b) >= (k + 1) - 1
      BY <2>2, <2>6
    <3> QED
      BY <2>1, <2>2, <3>1, <3>3, <3>4 DEF LexicallyLess
  <2> QED
    BY <2>1, <2>4, <2>5, <2>6
<1> HIDE DEF less
<1> QED
  BY <1>0, <1>1, <1>2, <1>3 DEF IsStrictOrder, less

Letters == NameCharacters \cup {"/"}
LetterOrder == {p \in Letters \X Letters : Rank(p[1]) < Rank(p[2])}
NameOrder == {p \in Seq(Letters) \X Seq(Letters) : NameLess(p[1], p[2])}
ElementOrder ==
  {p \in Seq(Letters) \X Seq(Letters) :
     IF IsDirectoryElement(p[1]) = IsDirectoryElement(p[2]) THEN NameLess(p[1], p[2])
     ELSE ~IsDirectoryElement(p[1])}

LEMMA NameOrderIsStrict == IsStrictOrder(NameOrder, Seq(Letters))
<1>1. ASSUME NEW c \in Letters
      PROVE  Rank(c) \in Nat /\ CharacterOrder[Rank(c)] = c
  <2>1. \E i \in DOMAIN CharacterOrder : CharacterOrder[i] = c
    BY CharactersAreOrdered DEF Letters, Range
  <2>2. Rank(c) \in DOMAIN CharacterOrder /\ CharacterOrder[Rank(c)] = c
    BY <2>1 DEF Rank
  <2>3. DOMAIN CharacterOrder \subseteq Nat
    BY CharactersAreOrdered
  <2> QED
    BY <2>2, <2>3
<1>2. IsStrictOrder(LetterOrder, Letters)
  <2>1. \A c, d \in Letters : <<c, d>> \in LetterOrder <=> Rank(c) < Rank(d)
    BY DEF LetterOrder
  <2>2. \A c, d \in Letters : Rank(c) = Rank(d) => c = d
    BY <1>1
  <2> QED
    BY <1>1, <2>1, <2>2 DEF IsStrictOrder
<1>3. ASSUME NEW a \in Seq(Letters), NEW b \in Seq(Letters)
      PROVE  NameLess(a, b) <=> LexicallyLess(LetterOrder, a, b)
  <2>1. ASSUME NEW n \in 1 .. Len(b), Len(a) >= n - 1, Len(a) # n - 1
        PROVE  Rank(a[n]) < Rank(b[n]) <=> <<a[n], b[n]>> \in LetterOrder
    <3>1. a[n] \in Letters /\ b[n] \in Letters
      BY <2>1
    <3> QED
      BY <3>1 DEF LetterOrder
  <2> QED
    BY <2>1 DEF NameLess, LexicallyLess
<1>4. NameOrder = LexicalOrder(LetterOrder, Letters)
  BY <1>3 DEF NameOrder, LexicalOrder
<1> QED
  BY <1>2, <1>4, LexicalOrderIsStrict

LEMMA ElementOrderIsStrict == IsStrictOrder(ElementOrder, Seq(Letters))
<1>1. \A x, y \in Seq(Letters) : <<x, y>> \in NameOrder <=> NameLess(x, y)
  BY DEF NameOrder
<1>2. \A x, y \in Seq(Letters) :
        <<x, y>> \in ElementOrder <=>
          IF IsDirectoryElement(x) = IsDirectoryElement(y) THEN <<x, y>> \in NameOrder ELSE ~IsDirectoryElement(x)
  BY <1>1 DEF ElementOrder
<1>3. \A x : IsDirectoryElement(x) \in BOOLEAN
  BY DEF IsDirectoryElement, IsSuffix, IsPrefix
<1> QED
  BY <1>2, <1>3, NameOrderIsStrict DEF IsStrictOrder

\* An element of a path is a directory unless it is the last one.
LEMMA ElementsOfPath ==
  ASSUME NEW a \in Paths \ {<<>>}
  PROVE  /\ SplitPath(a) \in Seq(Seq(Letters))
         /\ Len(SplitPath(a)) = Len(a)
         /\ \A i \in 1 .. Len(a) :
              /\ SplitPath(a)[i] = IF i < Len(a) THEN Append(a[i], "/") ELSE a[i]
              /\ IsDirectoryElement(SplitPath(a)[i]) <=> i < Len(a)
<1>1. Len(a) \in Nat \ {0} /\ DOMAIN a = 1 .. Len(a) /\ \A i \in 1 .. Len(a) : a[i] \in Texts
  BY DEF Paths
<1>2. \A t \in Texts : t \in Seq(Letters) /\ Append(t, "/") \in Seq(Letters)
  BY DEF Texts, Letters
<1>3. \A i \in 1 .. Len(a) : SplitPath(a)[i] = IF i < Len(a) THEN Append(a[i], "/") ELSE a[i]
  BY <1>1 DEF SplitPath
<1>4. SplitPath(a) \in Seq(Seq(Letters)) /\ Len(SplitPath(a)) = Len(a)
  BY <1>1, <1>2 DEF SplitPath
<1>5. ASSUME NEW e \in Seq(Letters)
      PROVE  IsDirectoryElement(e) <=> Len(e) > 0 /\ e[Len(e)] = "/"
  <2> DEFINE r == Reverse(e)
             q == Reverse(<<"/">>)
  <2>1. Len(e) \in Nat
    OBVIOUS
  <2>2. q = <<"/">>
    <3>1. Len(<<"/">>) = 1 /\ <<"/">>[1] = "/"
      OBVIOUS
    <3>2. q = [i \in 1 .. 1 |-> <<"/">>[(1 - i) + 1]]
      BY <3>1 DEF Reverse
    <3>3. \A i \in 1 .. 1 : <<"/">>[(1 - i) + 1] = "/"
      OBVIOUS
    <3> QED
      BY <3>2, <3>3
  <2>3. r \in Seq(Letters) /\ Len(r) = Len(e) /\ (Len(e) > 0 => r[1] = e[Len(e)])
    <3>1. r = [i \in 1 .. Len(e) |-> e[(Len(e) - i) + 1]]
      BY DEF Reverse
    <3>2. \A i \in 1 .. Len(e) : e[(Len(e) - i) + 1] \in Letters
      BY <2>1
    <3> HIDE DEF r
    <3> QED
      BY <2>1, <3>1, <3>2
  <2>4. IsDirectoryElement(e) <=> 1 <= Len(e) /\ SubSeq(q, 1, 1) = SubSeq(r, 1, 1)
    <3>1. Len(q) = 1
      BY <2>2
    <3>2. IsDirectoryElement(e) <=> IsPrefix(q, r)
      BY DEF IsDirectoryElement, IsSuffix
    <3> HIDE DEF q, r
    <3> QED
      BY <2>3, <3>1, <3>2 DEF IsPrefix
  <2> HIDE DEF r, q
  <2>5. CASE Len(e) > 0
    <3> DEFINE u == SubSeq(q, 1, 1)
               v == SubSeq(r, 1, 1)
    <3>1. q \in Seq(Letters) /\ Len(q) = 1 /\ q[1] = "/"
      BY <2>2 DEF Letters
    <3>2. u \in Seq(Letters) /\ Len(u) = 1 /\ u[1] = "/"
      <4>0. "/" \in Letters /\ 1 \in Int
        BY DEF Letters
      <4>1. \A i \in 1 .. 1 : q[i] \in Letters
        BY <3>1, <4>0
      <4>2. /\ SubSeq(q, 1, 1) \in Seq(Letters)
            /\ Len(SubSeq(q, 1, 1)) = IF 1 <= 1 THEN 1 - 1 + 1 ELSE 0
            /\ \A i \in 1 .. 1 - 1 + 1 : SubSeq(q, 1, 1)[i] = q[1 + i - 1]
        BY <4>0, <4>1, SubSeqProperties
      <4> QED
        BY <3>1, <4>2
    <3>3. v \in Seq(Letters) /\ Len(v) = 1 /\ v[1] = e[Len(e)]
      BY <2>1, <2>3, <2>5
    <3> HIDE DEF u, v
    <3>4. u = v <=> u[1] = v[1]
      BY <3>2, <3>3
    <3>5. 1 <= Len(e)
      BY <2>1, <2>5
    <3> QED
      BY <2>4, <2>5, <3>2, <3>3, <3>4, <3>5, Zenon DEF u, v
  <2>6. CASE ~(Len(e) > 0)
    BY <2>1, <2>4, <2>6
  <2> QED
    BY <2>5, <2>6
<1>6. ASSUME NEW i \in 1 .. Len(a)
      PROVE  IsDirectoryElement(SplitPath(a)[i]) <=> i < Len(a)
  <2>1. CASE i < Len(a)
    <3>1. a[i] \in Seq(NameCharacters) /\ Append(a[i], "/") \in Seq(Letters)
      BY <1>1, <1>2 DEF Texts
    <3>2. Len(Append(a[i], "/")) > 0 /\ Append(a[i], "/")[Len(Append(a[i], "/"))] = "/"
      BY <3>1
    <3> QED
      BY <1>3, <1>5, <2>1, <3>1, <3>2
  <2>2. CASE ~(i < Len(a))
    <3>1. a[i] \in Seq(NameCharacters) /\ a[i] \in Seq(Letters)
      BY <1>1, <1>2 DEF Texts
    <3>2. Len(a[i]) > 0 => a[i][Len(a[i])] # "/"
      BY <3>1, NamesHaveNoSlash
    <3> QED
      BY <1>3, <1>5, <2>2, <3>1, <3>2
  <2> QED
    BY <2>1, <2>2
<1> QED
  BY <1>3, <1>4, <1>6

LEMMA SortLessIsLexical ==
  ASSUME NEW a \in Paths \ {<<>>}, NEW b \in Paths \ {<<>>}
  PROVE  SortLess(a, b) <=> LexicallyLess(ElementOrder, SplitPath(a), SplitPath(b))
<1> DEFINE x == SplitPath(a)
           y == SplitPath(b)
<1>1. /\ x \in Seq(Seq(Letters)) /\ Len(x) = Len(a)
      /\ y \in Seq(Seq(Letters)) /\ Len(y) = Len(b)
      /\ \A i \in 1 .. Len(a) : IsDirectoryElement(x[i]) <=> i < Len(a)
      /\ \A i \in 1 .. Len(b) : IsDirectoryElement(y[i]) <=> i < Len(b)
  BY ElementsOfPath
<1>2. Len(a) \in Nat \ {0} /\ Len(b) \in Nat \ {0}
  BY DEF Paths
<1>3. SortLess(a, b) <=>
        \E n \in DOMAIN x \cap DOMAIN y :
          /\ \A i \in 1 .. n - 1 : x[i] = y[i]
          /\ IF IsDirectoryElement(x[n]) = IsDirectoryElement(y[n]) THEN NameLess(x[n], y[n])
             ELSE ~IsDirectoryElement(x[n])
  BY DEF SortLess
<1> HIDE DEF x, y
<1>4. ASSUME NEW n \in 1 .. Len(y), Len(x) = n - 1, \A i \in 1 .. n - 1 : x[i] = y[i]
      PROVE  FALSE
  <2>1. n - 1 \in 1 .. Len(a) /\ n - 1 \in 1 .. Len(b) /\ n - 1 < Len(b) /\ ~(n - 1 < Len(a))
    BY <1>1, <1>2, <1>4
  <2> QED
    BY <1>1, <1>4, <2>1
<1>5. ASSUME NEW n \in 1 .. Len(y), n <= Len(x)
      PROVE  <<x[n], y[n]>> \in ElementOrder <=>
               IF IsDirectoryElement(x[n]) = IsDirectoryElement(y[n]) THEN NameLess(x[n], y[n])
               ELSE ~IsDirectoryElement(x[n])
  <2>1. x[n] \in Seq(Letters) /\ y[n] \in Seq(Letters)
    BY <1>1, <1>5
  <2> QED
    BY <2>1 DEF ElementOrder
<1>6. DOMAIN x = 1 .. Len(x) /\ DOMAIN y = 1 .. Len(y) /\ Len(x) \in Nat /\ Len(y) \in Nat
  BY <1>1
<1>7. \A n : n \in DOMAIN x \cap DOMAIN y <=> n \in 1 .. Len(y) /\ n <= Len(x)
  BY <1>6
<1>8. LexicallyLess(ElementOrder, x, y) <=>
        \E n \in 1 .. Len(y) :
          /\ n <= Len(x) /\ \A i \in 1 .. n - 1 : x[i] = y[i]
          /\ <<x[n], y[n]>> \in ElementOrder
  <2>1. \A n \in 1 .. Len(y) : Len(x) >= n - 1 /\ Len(x) # n - 1 <=> n <= Len(x)
    BY <1>6
  <2> QED
    BY <1>4, <2>1 DEF LexicallyLess
<1> QED
  BY <1>3, <1>5, <1>7, <1>8 DEF x, y

SortOrder == {p \in (Paths \ {<<>>}) \X (Paths \ {<<>>}) : SortLess(p[1], p[2])}

LEMMA SortOrderIsStrict == IsStrictOrder(SortOrder, Paths \ {<<>>})
<1> DEFINE lexical == LexicalOrder(ElementOrder, Seq(Letters))
<1>1. IsStrictOrder(lexical, Seq(Seq(Letters)))
  BY ElementOrderIsStrict, LexicalOrderIsStrict
<1>2. ASSUME NEW a \in Paths \ {<<>>}
      PROVE  SplitPath(a) \in Seq(Seq(Letters))
  BY ElementsOfPath
<1>3. ASSUME NEW a \in Paths \ {<<>>}, NEW b \in Paths \ {<<>>}
      PROVE  <<a, b>> \in SortOrder <=> <<SplitPath(a), SplitPath(b)>> \in lexical
  BY <1>2, SortLessIsLexical DEF SortOrder, LexicalOrder
<1>4. ASSUME NEW a \in Paths \ {<<>>}, NEW b \in Paths \ {<<>>}, SplitPath(a) = SplitPath(b)
      PROVE  a = b
  <2>1. a \in Seq(Texts) /\ b \in Seq(Texts) /\ Len(a) = Len(b)
    <3>1. Len(SplitPath(a)) = Len(a) /\ Len(SplitPath(b)) = Len(b)
      BY ElementsOfPath
    <3> QED
      BY <1>4, <3>1 DEF Paths
  <2>2. ASSUME NEW i \in 1 .. Len(a)
        PROVE  a[i] = b[i]
    <3>1. a[i] \in Texts /\ b[i] \in Texts
      BY <2>1
    <3>2. (IF i < Len(a) THEN Append(a[i], "/") ELSE a[i]) = (IF i < Len(a) THEN Append(b[i], "/") ELSE b[i])
      BY <1>4, <2>1, ElementsOfPath
    <3>3. \A s, t \in Texts : Append(s, "/") = Append(t, "/") => s = t
      BY AppendProperties, AppendInjective DEF Texts
    <3> QED
      BY <3>1, <3>2, <3>3
  <2> QED
    BY <2>1, <2>2
<1> HIDE DEF lexical
<1>5. \A a \in Paths \ {<<>>} : <<a, a>> \notin SortOrder
  BY <1>1, <1>2, <1>3 DEF IsStrictOrder
<1>6. ASSUME NEW a \in Paths \ {<<>>}, NEW b \in Paths \ {<<>>}, NEW c \in Paths \ {<<>>},
             <<a, b>> \in SortOrder, <<b, c>> \in SortOrder
      PROVE  <<a, c>> \in SortOrder
  <2>1. <<SplitPath(a), SplitPath(b)>> \in lexical /\ <<SplitPath(b), SplitPath(c)>> \in lexical
    BY <1>3, <1>6
  <2>2. <<SplitPath(a), SplitPath(c)>> \in lexical
    BY <1>1, <1>2, <2>1 DEF IsStrictOrder
  <2> QED
    BY <1>3, <2>2
<1>7. ASSUME NEW a \in Paths \ {<<>>}, NEW b \in Paths \ {<<>>}, a # b
      PROVE  <<a, b>> \in SortOrder \/ <<b, a>> \in SortOrder
  <2>1. SplitPath(a) # SplitPath(b)
    BY <1>4, <1>7
  <2>2. \/ <<SplitPath(a), SplitPath(b)>> \in lexical
        \/ <<SplitPath(b), SplitPath(a)>> \in lexical
    BY <1>1, <1>2, <2>1 DEF IsStrictOrder
  <2> QED
    BY <1>3, <2>2
<1> QED
  BY <1>5, <1>6, <1>7 DEF IsStrictOrder

-----------------------------------------------------------------------------
(* The sort puts every path in its place                                   *)

InOrder(sources) == \A i, k \in DOMAIN sources : i < k => ~SortLess(sources[k], sources[i])

\* What is true of all numbers below one it is true of is true of the first few.
LEMMA InitialSegment ==
  ASSUME NEW n \in Nat, NEW set \in SUBSET (1 .. n), \A k \in set : \A i \in 1 .. k : i \in set
  PROVE  Cardinality(set) \in 0 .. n /\ set = 1 .. Cardinality(set)
<1> DEFINE m == Max(set \cup {0})
<1>1. set \cup {0} \in SUBSET (0 .. n) /\ 0 \in set \cup {0}
  OBVIOUS
<1>2. m \in set \cup {0} /\ \A x \in set \cup {0} : m >= x
  BY <1>1, GreatestExists
<1> HIDE DEF m
<1>3. m \in 0 .. n /\ set = 1 .. m
  <2>1. m \in 0 .. n /\ \A x \in set : x \in 1 .. n /\ x <= m
    BY <1>1, <1>2
  <2>2. \A x \in set : x \in 1 .. m
    BY <2>1
  <2>3. ASSUME NEW i \in 1 .. m
        PROVE  i \in set
    <3>1. m \in set
      BY <1>2, <2>1
    <3> QED
      BY <3>1
  <2> QED
    BY <2>1, <2>2, <2>3
<1>4. Cardinality(1 .. m) = m
  <2>1. Cardinality(1 .. m) = IF 1 > m THEN 0 ELSE m - 1 + 1
    BY <1>3, FS_Interval
  <2> QED
    BY <1>3, <2>1
<1> QED
  BY <1>3, <1>4

LEMMA InsertedInOrder ==
  ASSUME NEW sources \in Seq(Paths \ {<<>>}), NEW path \in Paths \ {<<>>}, InOrder(sources)
  PROVE  LET result == InsertSorted(sources, path)
         IN  /\ InOrder(result)
             /\ Len(result) = Len(sources) + 1
             /\ Range(result) = Range(sources) \cup {path}
<1> DEFINE P == Paths \ {<<>>}
           before == {i \in DOMAIN sources : ~SortLess(path, sources[i])}
           n == Cardinality(before)
           result == InsertSorted(sources, path)
<1>1. Len(sources) \in Nat /\ DOMAIN sources = 1 .. Len(sources) /\ \A i \in 1 .. Len(sources) : sources[i] \in P
  OBVIOUS
<1>2. \A a, b \in P : SortLess(a, b) <=> <<a, b>> \in SortOrder
  BY DEF SortOrder
<1>3. /\ \A a, b, c \in P : SortLess(a, b) /\ SortLess(b, c) => SortLess(a, c)
      /\ \A a, b \in P : a # b => SortLess(a, b) \/ SortLess(b, a)
      /\ \A a, b \in P : SortLess(a, b) => ~SortLess(b, a)
  <2> HIDE DEF P
  <2>1. IsStrictOrder(SortOrder, P)
    BY SortOrderIsStrict DEF P
  <2> QED
    BY <1>2, <2>1 DEF IsStrictOrder
<1>4. ASSUME NEW k \in before, NEW i \in 1 .. k
      PROVE  i \in before
  <2>1. k \in 1 .. Len(sources) /\ ~SortLess(path, sources[k]) /\ i \in 1 .. Len(sources)
    BY <1>1, <1>4
  <2>2. path \in P /\ sources[k] \in P /\ sources[i] \in P
    BY <1>1, <2>1
  <2>3. i < k => ~SortLess(sources[k], sources[i])
    BY <1>1, <2>1 DEF InOrder
  <2>4. i = k \/ i < k
    BY <2>1
  <2> HIDE DEF P
  <2>5. ~SortLess(path, sources[i])
    BY <1>3, <2>1, <2>2, <2>3, <2>4
  <2> QED
    BY <1>1, <2>1, <2>5
<1>5. n \in 0 .. Len(sources) /\ before = 1 .. n
  <2>1. before \in SUBSET (1 .. Len(sources))
    BY <1>1
  <2> HIDE DEF before
  <2> QED
    BY <1>1, <1>4, <2>1, InitialSegment
<1>6. \A i \in 1 .. Len(sources) : i <= n <=> ~SortLess(path, sources[i])
  BY <1>1, <1>5
<1>7. result = SubSeq(sources, 1, (n + 1) - 1) \o <<path>> \o SubSeq(sources, n + 1, Len(sources))
  BY DEF InsertSorted, InsertAt
<1> HIDE DEF n, before
<1>8. /\ result \in Seq(P) /\ Len(result) = Len(sources) + 1
      /\ \A i \in 1 .. n : result[i] = sources[i]
      /\ result[n + 1] = path
      /\ \A i \in n + 2 .. Len(sources) + 1 : result[i] = sources[i - 1]
  <2> DEFINE a == SubSeq(sources, 1, (n + 1) - 1)
             c == SubSeq(sources, n + 1, Len(sources))
             d == a \o <<path>>
  <2>1. a \in Seq(P) /\ Len(a) = n /\ \A i \in 1 .. n : a[i] = sources[i]
    BY <1>1, <1>5
  <2>2. c \in Seq(P) /\ Len(c) = Len(sources) - n /\ \A i \in 1 .. Len(sources) - n : c[i] = sources[n + i]
    <3>1. n + 1 \in Int /\ Len(sources) \in Int /\ \A i \in n + 1 .. Len(sources) : sources[i] \in P
      BY <1>1, <1>5
    <3>2. /\ c \in Seq(P)
          /\ Len(c) = IF n + 1 <= Len(sources) THEN Len(sources) - (n + 1) + 1 ELSE 0
          /\ \A i \in 1 .. Len(sources) - (n + 1) + 1 : c[i] = sources[(n + 1) + i - 1]
      <4> HIDE DEF P
      <4> QED
        BY <3>1, SubSeqProperties
    <3>3. Len(sources) - (n + 1) + 1 = Len(sources) - n /\ \A i \in Int : (n + 1) + i - 1 = n + i
      <4>1. n \in Int /\ Len(sources) \in Int
        BY <1>1, <1>5
      <4> HIDE DEF c, a
      <4>2. \A x, y \in Int : y - (x + 1) + 1 = y - x /\ \A i \in Int : (x + 1) + i - 1 = x + i
        OBVIOUS
      <4> QED
        BY <4>1, <4>2
    <3> HIDE DEF c
    <3>4. Len(c) = Len(sources) - n
      <4>1. Len(c) = IF n + 1 <= Len(sources) THEN Len(sources) - n ELSE 0
        BY <3>2, <3>3
      <4>2. n \in Int /\ Len(sources) \in Int /\ n <= Len(sources)
        BY <1>1, <1>5
      <4>3. ~(n + 1 <= Len(sources)) => Len(sources) - n = 0
        BY <4>2
      <4> QED
        BY <4>1, <4>3
    <3>5. ASSUME NEW i \in 1 .. Len(sources) - n
          PROVE  c[i] = sources[n + i]
      <4>1. i \in Int /\ i \in 1 .. Len(sources) - (n + 1) + 1
        BY <3>3
      <4> QED
        BY <3>2, <3>3, <4>1
    <3> QED
      BY <3>2, <3>4, <3>5
  <2> HIDE DEF a, c
  <2>3. <<path>> \in Seq(P) /\ Len(<<path>>) = 1 /\ <<path>>[1] = path
    OBVIOUS
  <2>4. d \in Seq(P) /\ Len(d) = n + 1 /\ (\A i \in 1 .. n : d[i] = sources[i]) /\ d[n + 1] = path
    BY <1>5, <2>1, <2>3
  <2> HIDE DEF d
  <2>5. result = d \o c
    BY <1>7 DEF a, c, d
  <2> HIDE DEF result
  <2>6. /\ result \in Seq(P) /\ Len(result) = Len(sources) + 1
        /\ \A i \in 1 .. n + 1 : result[i] = d[i]
        /\ \A i \in n + 2 .. Len(sources) + 1 : result[i] = c[i - (n + 1)]
    BY <1>1, <1>5, <2>2, <2>4, <2>5
  <2>7. ASSUME NEW i \in n + 2 .. Len(sources) + 1
        PROVE  c[i - (n + 1)] = sources[i - 1]
    <3>1. i - (n + 1) \in 1 .. Len(sources) - n /\ n + (i - (n + 1)) = i - 1
      BY <1>1, <1>5
    <3> QED
      BY <2>2, <3>1
  <2>8. ASSUME NEW i \in 1 .. n
        PROVE  result[i] = sources[i]
    <3>1. i \in 1 .. n + 1
      BY <1>1, <1>5
    <3> QED
      BY <2>4, <2>6, <3>1
  <2>9. result[n + 1] = path
    <3>1. n + 1 \in 1 .. n + 1
      BY <1>1, <1>5
    <3> QED
      BY <2>4, <2>6, <3>1
  <2>10. ASSUME NEW i \in n + 2 .. Len(sources) + 1
         PROVE  result[i] = sources[i - 1]
    BY <2>6, <2>7
  <2> QED
    BY <2>6, <2>8, <2>9, <2>10
<1> HIDE DEF result
<1>9. DOMAIN result = 1 .. Len(sources) + 1
  BY <1>1, <1>8
<1>10. ASSUME NEW i \in 1 .. Len(sources) + 1, NEW k \in 1 .. Len(sources) + 1, i < k
       PROVE  ~SortLess(result[k], result[i])
  <2>1. CASE k <= n
    <3>1. result[i] = sources[i] /\ result[k] = sources[k] /\ i \in DOMAIN sources /\ k \in DOMAIN sources
      BY <1>1, <1>5, <1>8, <1>10, <2>1
    <3> QED
      BY <1>10, <3>1 DEF InOrder
  <2>2. CASE k = n + 1
    <3>1. result[i] = sources[i] /\ result[k] = path /\ i \in 1 .. Len(sources) /\ i <= n
      BY <1>1, <1>5, <1>8, <1>10, <2>2
    <3> QED
      BY <1>6, <3>1
  <2>3. CASE k > n + 1 /\ i > n + 1
    <3>1. /\ result[i] = sources[i - 1] /\ result[k] = sources[k - 1] /\ i - 1 < k - 1
          /\ i - 1 \in DOMAIN sources /\ k - 1 \in DOMAIN sources
      BY <1>1, <1>5, <1>8, <1>10, <2>3
    <3>2. ~SortLess(sources[k - 1], sources[i - 1])
      BY <3>1, Zenon DEF InOrder
    <3> QED
      BY <3>1, <3>2
  <2>4. CASE k > n + 1 /\ i = n + 1
    <3>1. result[k] = sources[k - 1] /\ result[i] = path /\ k - 1 \in 1 .. Len(sources) /\ ~(k - 1 <= n)
      <4>1. k \in n + 2 .. Len(sources) + 1 /\ k - 1 \in 1 .. Len(sources) /\ ~(k - 1 <= n)
        BY <1>1, <1>5, <1>10, <2>4
      <4> QED
        BY <1>8, <2>4, <4>1
    <3>2. SortLess(path, sources[k - 1]) /\ sources[k - 1] \in P /\ path \in P
      BY <1>1, <1>6, <3>1
    <3> QED
      BY <1>3, <3>1, <3>2
  <2>5. CASE k > n + 1 /\ i <= n
    <3>1. /\ result[k] = sources[k - 1] /\ result[i] = sources[i] /\ i < k - 1
          /\ i \in DOMAIN sources /\ k - 1 \in DOMAIN sources
      BY <1>1, <1>5, <1>8, <1>10, <2>5
    <3> QED
      BY <3>1 DEF InOrder
  <2> QED
    BY <1>5, <2>1, <2>2, <2>3, <2>4, <2>5
<1>11. Range(result) = Range(sources) \cup {path}
  <2>1. ASSUME NEW i \in 1 .. Len(sources) + 1
        PROVE  result[i] \in Range(sources) \cup {path}
    <3>1. \A j \in 1 .. Len(sources) : sources[j] \in Range(sources)
      BY <1>1 DEF Range
    <3>2. CASE i <= n
      BY <1>5, <1>8, <3>1, <3>2
    <3>3. CASE i = n + 1
      BY <1>8, <3>3
    <3>4. CASE i > n + 1
      <4>1. i \in n + 2 .. Len(sources) + 1 /\ i - 1 \in 1 .. Len(sources)
        BY <1>1, <1>5, <3>4
      <4> QED
        BY <1>8, <3>1, <4>1
    <3> QED
      BY <1>5, <3>2, <3>3, <3>4
  <2>2. path \in Range(result)
    <3>1. n + 1 \in 1 .. Len(sources) + 1
      BY <1>1, <1>5
    <3> QED
      BY <1>8, <1>9, <3>1 DEF Range
  <2>3. ASSUME NEW j \in 1 .. Len(sources)
        PROVE  sources[j] \in Range(result)
    <3>1. CASE j <= n
      <4>1. j \in DOMAIN result /\ result[j] = sources[j]
        BY <1>1, <1>5, <1>8, <1>9, <3>1
      <4> QED
        BY <4>1 DEF Range
    <3>2. CASE j > n
      <4>1. j + 1 \in DOMAIN result /\ result[j + 1] = sources[(j + 1) - 1] /\ (j + 1) - 1 = j
        BY <1>1, <1>5, <1>8, <1>9, <3>2
      <4> QED
        BY <4>1 DEF Range
    <3> QED
      BY <1>5, <3>1, <3>2
  <2> QED
    BY <1>1, <1>9, <2>1, <2>2, <2>3 DEF Range
<1> QED
  BY <1>8, <1>9, <1>10, <1>11 DEF InOrder, result

LEMMA SortedInOrder ==
  ASSUME NEW sources \in Seq(Paths \ {<<>>})
  PROVE  /\ InOrder(Sorted(sources))
         /\ Len(Sorted(sources)) = Len(sources)
         /\ Range(Sorted(sources)) = Range(sources)
<1> DEFINE P == Paths \ {<<>>}
           k == Len(sources)
           f == CHOOSE g : IsSort(g, sources, k)
           S == {n \in 0 .. k : /\ f[n] \in Seq(P) /\ InOrder(f[n]) /\ Len(f[n]) = n
                                /\ Range(f[n]) = {sources[i] : i \in 1 .. n}}
<1>1. k \in Nat /\ \A n \in 1 .. k : sources[n] \in P
  OBVIOUS
<1>2. Sorted(sources) = f[k]
  BY Zenon DEF Sorted, IsSort
<1>3. IsSort(f, sources, k)
  <2>1. \E g : IsSort(g, sources, k)
    BY <1>1, SortExists, Zenon
  <2> QED
    BY <2>1, Zenon
<1> HIDE DEF f, k
<1>4. f = [n \in 0 .. k |-> IF n = 0 THEN <<>> ELSE InsertSorted(f[n - 1], sources[n])]
  BY <1>3 DEF IsSort
<1>5. 0 \in S
  <2>1. <<>> \in Seq(P) /\ Len(<<>>) = 0 /\ DOMAIN <<>> = {}
    OBVIOUS
  <2>2. InOrder(<<>>) /\ Range(<<>>) = {sources[i] : i \in 1 .. 0}
    BY <2>1 DEF InOrder, Range
  <2>3. f[0] = <<>>
    BY <1>1, <1>4
  <2>4. /\ f[0] \in Seq(P) /\ InOrder(f[0]) /\ Len(f[0]) = 0
        /\ Range(f[0]) = {sources[i] : i \in 1 .. 0}
    BY <2>1, <2>2, <2>3, Zenon
  <2> QED
    BY <1>1, <2>4
<1>6. ASSUME NEW n \in 0 .. k - 1, n \in S
      PROVE  n + 1 \in S
  <2>1. n + 1 \in 0 .. k /\ n + 1 \in 1 .. k /\ n + 1 # 0 /\ (n + 1) - 1 = n
    BY <1>1
  <2>2. f[n + 1] = InsertSorted(f[n], sources[n + 1])
    BY <1>4, <2>1
  <2>3. /\ f[n] \in Seq(P) /\ sources[n + 1] \in P /\ InOrder(f[n]) /\ Len(f[n]) = n
        /\ Range(f[n]) = {sources[i] : i \in 1 .. n}
    BY <1>1, <1>6, <2>1
  <2>4. f[n + 1] \in Seq(P)
    BY <2>2, <2>3, InsertedIsSequence
  <2>5. InOrder(f[n + 1]) /\ Len(f[n + 1]) = n + 1 /\ Range(f[n + 1]) = Range(f[n]) \cup {sources[n + 1]}
    BY <2>2, <2>3, InsertedInOrder
  <2>6. {sources[i] : i \in 1 .. n} \cup {sources[n + 1]} = {sources[i] : i \in 1 .. n + 1}
    BY <2>1
  <2> QED
    BY <2>1, <2>3, <2>4, <2>5, <2>6
<1> HIDE DEF S
<1>7. \A n \in 0 .. k : n \in S
  BY <1>1, <1>5, <1>6, RangeInduction, Zenon
<1>8. k \in S
  BY <1>1, <1>7
<1>9. Range(sources) = {sources[i] : i \in 1 .. k}
  BY DEF Range, k
<1> QED
  BY <1>2, <1>8, <1>9 DEF S, k

-----------------------------------------------------------------------------
(* A list in order is grouped by directory                                 *)

LEMMA PrefixMeans ==
  ASSUME NEW S, NEW s \in Seq(S), NEW t \in Seq(S)
  PROVE  IsPrefix(s, t) <=> Len(s) <= Len(t) /\ \A i \in 1 .. Len(s) : s[i] = t[i]
<1>1. Len(s) \in Nat /\ Len(t) \in Nat
  OBVIOUS
<1>2. SubSeq(s, 1, Len(s)) = s
  OBVIOUS
<1>3. CASE Len(s) <= Len(t)
  <2> DEFINE u == SubSeq(t, 1, Len(s))
  <2>1. u \in Seq(S) /\ Len(u) = Len(s) /\ \A i \in 1 .. Len(s) : u[i] = t[i]
    BY <1>1, <1>3
  <2> HIDE DEF u
  <2>2. s = u <=> \A i \in 1 .. Len(s) : s[i] = u[i]
    BY <2>1
  <2> QED
    BY <1>2, <1>3, <2>1, <2>2 DEF IsPrefix, u
<1> QED
  BY <1>3 DEF IsPrefix

LEMMA AboveMeans ==
  ASSUME NEW S, NEW a \in Seq(S), NEW n \in 0 .. Len(a)
  PROVE  /\ Above(a, n) \in Seq(S)
         /\ Len(Above(a, n)) = n
         /\ \A i \in 1 .. n : Above(a, n)[i] = a[i]
         /\ \A b \in Seq(S) : IsPrefix(Above(a, n), b) <=> n <= Len(b) /\ \A i \in 1 .. n : a[i] = b[i]
<1>1. /\ Above(a, n) \in Seq(S) /\ Len(Above(a, n)) = n
      /\ \A i \in 1 .. n : Above(a, n)[i] = a[i]
  BY DEF Above
<1>2. ASSUME NEW b \in Seq(S)
      PROVE  IsPrefix(Above(a, n), b) <=> n <= Len(b) /\ \A i \in 1 .. n : a[i] = b[i]
  <2> DEFINE p == Above(a, n)
  <2>1. p \in Seq(S) /\ Len(p) = n /\ \A i \in 1 .. n : p[i] = a[i]
    BY <1>1
  <2> HIDE DEF p
  <2>2. IsPrefix(p, b) <=> Len(p) <= Len(b) /\ \A i \in 1 .. Len(p) : p[i] = b[i]
    BY <2>1, PrefixMeans
  <2>3. IsPrefix(p, b) <=> n <= Len(b) /\ \A i \in 1 .. n : a[i] = b[i]
    BY <2>1, <2>2
  <2> QED
    BY <2>3 DEF p
<1> QED
  BY <1>1, <1>2

\* Two paths of which none leads through the other part at some element.
LEMMA CommonMeans ==
  ASSUME NEW a \in Paths \ {<<>>}, NEW b \in Paths \ {<<>>}, ~IsPrefix(a, b), ~IsPrefix(b, a)
  PROVE  /\ Common(a, b) \in Nat /\ Common(a, b) < Len(a) /\ Common(a, b) < Len(b)
         /\ \A i \in 1 .. Common(a, b) : a[i] = b[i]
         /\ a[Common(a, b) + 1] # b[Common(a, b) + 1]
<1> DEFINE shared == {k \in 0 .. Len(a) : IsPrefix(Above(a, k), b)}
           n == Common(a, b)
<1>1. a \in Seq(Texts) /\ b \in Seq(Texts) /\ Len(a) \in Nat /\ Len(b) \in Nat
  BY DEF Paths
<1>2. \A k \in 0 .. Len(a) : IsPrefix(Above(a, k), b) <=> k <= Len(b) /\ \A i \in 1 .. k : a[i] = b[i]
  BY <1>1, AboveMeans
<1>3. shared \in SUBSET (0 .. Len(a)) /\ 0 \in shared
  BY <1>1, <1>2
<1>4. n = Max(shared)
  BY DEF Common
<1>5. n \in shared /\ \A k \in shared : n >= k
  BY <1>1, <1>3, <1>4, GreatestExists
<1> HIDE DEF n
<1>6. n \in 0 .. Len(a) /\ n <= Len(b) /\ \A i \in 1 .. n : a[i] = b[i]
  BY <1>2, <1>5
<1>7. n # Len(a)
  BY <1>1, <1>6, PrefixMeans
<1>8. n # Len(b)
  <2>1. n = Len(b) => Len(b) <= Len(a) /\ \A i \in 1 .. Len(b) : b[i] = a[i]
    BY <1>1, <1>6
  <2> QED
    BY <1>1, <2>1, PrefixMeans
<1>9. n \in Nat /\ n < Len(a) /\ n < Len(b) /\ n + 1 \in 0 .. Len(a) /\ n + 1 <= Len(b)
  BY <1>1, <1>6, <1>7, <1>8
<1>10. ASSUME a[n + 1] = b[n + 1]
       PROVE  FALSE
  <2>1. \A i \in 1 .. n + 1 : a[i] = b[i]
    BY <1>6, <1>9, <1>10
  <2>2. n + 1 \in shared
    BY <1>2, <1>9, <2>1
  <2> HIDE DEF shared
  <2> QED
    BY <1>5, <1>9, <2>2
<1> QED
  BY <1>6, <1>9, <1>10 DEF n

\* The first elements in which two paths differ decide on their order.
LEMMA FirstDifferenceDecides ==
  ASSUME NEW a \in Paths \ {<<>>}, NEW b \in Paths \ {<<>>}, SortLess(a, b),
         NEW m \in 1 .. Len(a), m <= Len(b),
         \A i \in 1 .. m - 1 : SplitPath(a)[i] = SplitPath(b)[i],
         SplitPath(a)[m] # SplitPath(b)[m]
  PROVE  <<SplitPath(a)[m], SplitPath(b)[m]>> \in ElementOrder
<1> DEFINE x == SplitPath(a)
           y == SplitPath(b)
<1>1. /\ x \in Seq(Seq(Letters)) /\ Len(x) = Len(a)
      /\ y \in Seq(Seq(Letters)) /\ Len(y) = Len(b)
  BY ElementsOfPath
<1>2. LexicallyLess(ElementOrder, x, y)
  BY SortLessIsLexical
<1>3. (\A i \in 1 .. m - 1 : x[i] = y[i]) /\ x[m] # y[m]
  OBVIOUS
<1> HIDE DEF x, y
<1>4. PICK n \in 1 .. Len(y) : /\ Len(x) >= n - 1 /\ \A i \in 1 .. n - 1 : x[i] = y[i]
                               /\ Len(x) = n - 1 \/ <<x[n], y[n]>> \in ElementOrder
  BY <1>2 DEF LexicallyLess
<1>5. Len(x) \in Nat /\ Len(y) \in Nat /\ m \in 1 .. Len(x)
  BY <1>1
<1>6. ~(m < n)
  BY <1>3, <1>4, <1>5
<1>7. Len(x) # n - 1
  BY <1>5, <1>6
<1>8. CASE n < m
  <2>1. x[n] = y[n] /\ x[n] \in Seq(Letters)
    BY <1>1, <1>3, <1>4, <1>5, <1>8
  <2>2. <<x[n], x[n]>> \in ElementOrder
    BY <1>4, <1>7, <2>1
  <2> QED
    BY <2>1, <2>2, ElementOrderIsStrict DEF IsStrictOrder
<1>9. CASE n = m
  BY <1>4, <1>7, <1>9 DEF x, y
<1> QED
  BY <1>5, <1>6, <1>8, <1>9

\* Elements that are directories to both paths are equal if their names are.
LEMMA ElementsAgree ==
  ASSUME NEW a \in Paths \ {<<>>}, NEW b \in Paths \ {<<>>}, NEW i \in 1 .. Len(a), i <= Len(b)
  PROVE  /\ a[i] = b[i] /\ i < Len(a) /\ i < Len(b) => SplitPath(a)[i] = SplitPath(b)[i]
         /\ a[i] # b[i] => SplitPath(a)[i] # SplitPath(b)[i]
<1>1. a \in Seq(Texts) /\ b \in Seq(Texts) /\ i \in 1 .. Len(b) /\ a[i] \in Texts /\ b[i] \in Texts
  BY DEF Paths
<1>2. /\ SplitPath(a)[i] = IF i < Len(a) THEN Append(a[i], "/") ELSE a[i]
      /\ SplitPath(b)[i] = IF i < Len(b) THEN Append(b[i], "/") ELSE b[i]
      /\ IsDirectoryElement(SplitPath(a)[i]) <=> i < Len(a)
      /\ IsDirectoryElement(SplitPath(b)[i]) <=> i < Len(b)
  BY <1>1, ElementsOfPath
<1>3. \A s, t \in Texts : Append(s, "/") = Append(t, "/") => s = t
  BY AppendProperties, AppendInjective DEF Texts
<1>4. CASE i < Len(a) <=> i < Len(b)
  BY <1>1, <1>2, <1>3, <1>4
<1>5. CASE ~(i < Len(a) <=> i < Len(b))
  <2>1. SplitPath(a)[i] # SplitPath(b)[i]
    BY <1>2, <1>5
  <2> QED
    BY <1>5, <2>1
<1> QED
  BY <1>4, <1>5

LEMMA BetweenIsBelow ==
  ASSUME NEW a \in Paths \ {<<>>}, NEW b \in Paths \ {<<>>}, NEW c \in Paths \ {<<>>},
         ~IsPrefix(a, b), ~IsPrefix(b, a), a = c \/ SortLess(a, c), c = b \/ SortLess(c, b)
  PROVE  IsPrefix(Above(a, Common(a, b)), c)
<1> DEFINE n == Common(a, b)
           x == SplitPath(a)
           y == SplitPath(b)
           z == SplitPath(c)
<1>1. n \in Nat /\ n < Len(a) /\ n < Len(b) /\ \A i \in 1 .. n : a[i] = b[i]
  BY CommonMeans
<1> HIDE DEF n
<1>2. /\ x \in Seq(Seq(Letters)) /\ Len(x) = Len(a)
      /\ z \in Seq(Seq(Letters)) /\ Len(z) = Len(c)
      /\ \A i \in 1 .. Len(a) : IsDirectoryElement(x[i]) <=> i < Len(a)
      /\ \A i \in 1 .. Len(c) : IsDirectoryElement(z[i]) <=> i < Len(c)
  BY ElementsOfPath
<1>3. Len(a) \in Nat /\ Len(b) \in Nat /\ Len(c) \in Nat \ {0} /\ a \in Seq(Texts) /\ c \in Seq(Texts)
  BY DEF Paths
<1>4. \A i \in 1 .. n : x[i] = y[i]
  <2> TAKE i \in 1 .. n
  <2>1. i \in 1 .. Len(a) /\ i <= Len(b) /\ i < Len(a) /\ i < Len(b) /\ a[i] = b[i]
    BY <1>1, <1>3
  <2> QED
    BY <2>1, ElementsAgree
<1>5. PICK k \in 0 .. Len(x) :
           /\ k <= Len(z) /\ \A i \in 1 .. k : x[i] = z[i]
           /\ k = Len(x) \/ k = Len(z) \/ (k < Len(x) /\ k < Len(z) /\ x[k + 1] # z[k + 1])
  <2> DEFINE E == Seq(Letters)
  <2> HIDE DEF x, z
  <2>1. x \in Seq(E) /\ z \in Seq(E)
    BY <1>2
  <2> HIDE DEF E
  <2> QED
    BY <2>1, FirstDifference
<1>6. CASE k >= n
  <2>1. ASSUME NEW i \in 1 .. n
        PROVE  i <= Len(c) /\ a[i] = c[i]
    <3>1. x[i] = z[i] /\ i \in 1 .. Len(a) /\ i \in 1 .. Len(c) /\ i <= Len(c)
      BY <1>1, <1>2, <1>3, <1>5, <1>6
    <3> QED
      BY <3>1, ElementsAgree
  <2>2. n <= Len(c)
    BY <1>1, <1>2, <1>3, <1>5, <1>6
  <2>3. n \in 0 .. Len(a)
    BY <1>1, <1>3
  <2> QED
    BY <1>3, <2>1, <2>2, <2>3, AboveMeans DEF n
<1>7. CASE k < n
  <2>1. k # Len(z)
    <3> SUFFICES ASSUME k = Len(z) PROVE FALSE
      OBVIOUS
    <3>1. k \in 1 .. Len(a) /\ k \in 1 .. Len(c) /\ k < Len(a) /\ ~(k < Len(c)) /\ x[k] = z[k]
      BY <1>1, <1>2, <1>3, <1>5, <1>7
    <3> QED
      BY <1>2, <3>1
  <2>2. /\ k + 1 \in 1 .. Len(a) /\ k + 1 \in 1 .. Len(c) /\ k + 1 <= Len(b) /\ k + 1 \in 1 .. n
        /\ x[k + 1] # z[k + 1] /\ k + 1 <= Len(c) /\ (k + 1) - 1 = k
    BY <1>1, <1>2, <1>3, <1>5, <1>7, <2>1
  <2>3. x[k + 1] = y[k + 1] /\ \A i \in 1 .. k : x[i] = y[i]
    BY <1>1, <1>4, <1>5, <1>7, <2>2
  <2>4. SortLess(a, c) /\ SortLess(c, b)
    <3>1. a # c
      BY <2>2
    <3>2. c # b
      BY <2>2, <2>3
    <3> QED
      BY <3>1, <3>2
  <2>5. <<x[k + 1], z[k + 1]>> \in ElementOrder
    BY <1>5, <2>2, <2>4, FirstDifferenceDecides
  <2>6. (\A i \in 1 .. k : z[i] = y[i]) /\ z[k + 1] # y[k + 1]
    BY <1>5, <2>2, <2>3
  <2>7. <<z[k + 1], y[k + 1]>> \in ElementOrder
    BY <2>2, <2>4, <2>6, FirstDifferenceDecides
  <2>8. x[k + 1] \in Seq(Letters) /\ z[k + 1] \in Seq(Letters)
    BY <1>2, <2>2
  <2>9. \A e, f \in Seq(Letters) : <<e, f>> \in ElementOrder => <<f, e>> \notin ElementOrder
    <3> DEFINE E == Seq(Letters)
    <3>1. IsStrictOrder(ElementOrder, E)
      BY ElementOrderIsStrict
    <3> HIDE DEF E
    <3>2. \A e, f \in E : <<e, f>> \in ElementOrder => <<f, e>> \notin ElementOrder
      BY <3>1 DEF IsStrictOrder
    <3> QED
      BY <3>2 DEF E
  <2> HIDE DEF x, y, z
  <2> QED
    BY <2>3, <2>5, <2>7, <2>8, <2>9
<1> QED
  BY <1>1, <1>5, <1>6, <1>7

LEMMA OrderedIsGrouped ==
  ASSUME NEW sources \in Seq(Paths \ {<<>>}), InOrder(sources)
  PROVE  IsGrouped(sources)
<1> DEFINE P == Paths \ {<<>>}
<1>1. DOMAIN sources = 1 .. Len(sources) /\ Len(sources) \in Nat /\ \A i \in DOMAIN sources : sources[i] \in P
  OBVIOUS
<1>2. ASSUME NEW i \in DOMAIN sources, NEW k \in DOMAIN sources, i <= k
      PROVE  sources[i] = sources[k] \/ SortLess(sources[i], sources[k])
  <2>1. i = k \/ i < k
    BY <1>1, <1>2
  <2>2. i < k => ~SortLess(sources[k], sources[i])
    BY DEF InOrder
  <2>3. sources[i] \in P /\ sources[k] \in P
    BY <1>1
  <2> HIDE DEF P
  <2>4. sources[i] # sources[k] => <<sources[i], sources[k]>> \in SortOrder \/ <<sources[k], sources[i]>> \in SortOrder
    BY <2>3, SortOrderIsStrict DEF IsStrictOrder, P
  <2> QED
    BY <2>1, <2>2, <2>4 DEF SortOrder
<1> SUFFICES ASSUME NEW i \in DOMAIN sources, NEW k \in DOMAIN sources, i < k,
                    ~IsPrefix(sources[i], sources[k]), ~IsPrefix(sources[k], sources[i])
             PROVE  LET n == Common(sources[i], sources[k])
                    IN  /\ Len(sources[k]) = n + 1 => Len(sources[i]) = n + 1
                        /\ \A j \in i .. k : IsPrefix(Above(sources[i], n), sources[j])
  BY DEF IsGrouped
<1> DEFINE a == sources[i]
           b == sources[k]
           n == Common(a, b)
<1>3. a \in P /\ b \in P
  BY <1>1
<1>4. ~IsPrefix(a, b) /\ ~IsPrefix(b, a)
  OBVIOUS
<1>5. ASSUME NEW j \in i .. k
      PROVE  IsPrefix(Above(a, n), sources[j])
  <2>1. j \in DOMAIN sources /\ i <= j /\ j <= k
    BY <1>1
  <2>2. sources[j] \in P
    BY <1>1, <2>1
  <2>3. (a = sources[j] \/ SortLess(a, sources[j])) /\ (sources[j] = b \/ SortLess(sources[j], b))
    BY <1>2, <2>1
  <2> QED
    BY <1>3, <1>4, <2>2, <2>3, BetweenIsBelow
<1>6. SortLess(a, b)
  <2>1. i <= k
    BY <1>1
  <2>2. a = b \/ SortLess(a, b)
    BY <1>2, <2>1
  <2>3. IsPrefix(a, a)
    BY <1>3, PrefixMeans DEF Paths
  <2> QED
    BY <1>4, <2>2, <2>3
<1>7. ASSUME Len(b) = n + 1
      PROVE  Len(a) = n + 1
  <2> HIDE DEF a, b
  <2> DEFINE x == SplitPath(a)
             y == SplitPath(b)
             m == n + 1
  <2>1. n \in Nat /\ n < Len(a) /\ n < Len(b) /\ (\A h \in 1 .. n : a[h] = b[h]) /\ a[m] # b[m]
    BY <1>3, <1>4, CommonMeans
  <2> HIDE DEF n
  <2>2. /\ x \in Seq(Seq(Letters)) /\ Len(x) = Len(a)
        /\ y \in Seq(Seq(Letters)) /\ Len(y) = Len(b)
        /\ \A h \in 1 .. Len(a) : IsDirectoryElement(x[h]) <=> h < Len(a)
        /\ \A h \in 1 .. Len(b) : IsDirectoryElement(y[h]) <=> h < Len(b)
    BY <1>3, ElementsOfPath
  <2>3. Len(a) \in Nat /\ Len(b) \in Nat
    BY <1>3 DEF Paths
  <2>4. \A h \in 1 .. n : h \in 1 .. Len(a) /\ h <= Len(b) /\ h < Len(a) /\ h < Len(b)
    BY <2>1, <2>3
  <2>5. \A h \in 1 .. m - 1 : x[h] = y[h]
    <3>1. m - 1 = n
      BY <2>1
    <3> QED
      BY <1>3, <2>1, <2>4, <3>1, ElementsAgree
  <2>6. m \in 1 .. Len(a) /\ m <= Len(b) /\ m \in 1 .. Len(b) /\ ~(m < Len(b))
    BY <1>7, <2>1, <2>3
  <2>7. x[m] # y[m]
    BY <1>3, <2>1, <2>6, ElementsAgree
  <2>8. <<x[m], y[m]>> \in ElementOrder
    BY <1>3, <1>6, <2>5, <2>6, <2>7, FirstDifferenceDecides
  <2>9. ~IsDirectoryElement(y[m])
    BY <2>2, <2>6
  <2>10. ~IsDirectoryElement(x[m])
    BY <2>8, <2>9 DEF ElementOrder
  <2>11. ~(m < Len(a))
    BY <2>2, <2>6, <2>10
  <2> QED
    BY <2>1, <2>3, <2>11
<1> QED
  BY <1>5, <1>7

\* The list is sorted before anything is done with it, and the limit of the paths that
\* are found is one of the list, too.
OrderInv ==
  /\ phase # "done" => outcome = "none"
  /\ phase \in {"root", "resolve"} => paths = <<>>
  /\ phase \in {"root", "resolve", "scan"} => list = <<>>
  /\ phase \in {"scan", "create", "regular"} => Len(paths) + Len(list) <= MaxIncludeSources
  /\ IsResolved => Len(list) <= MaxIncludeSources /\ InOrder(list)

LEMMA OrderInvHoldsInitially == Init => OrderInv
<1> SUFFICES ASSUME Init PROVE OrderInv
  OBVIOUS
<1>1. phase = "root" /\ outcome = "none" /\ paths = <<>> /\ list = <<>>
  BY DEF Init, ResolverInit
<1>2. ~IsResolved
  BY <1>1 DEF IsResolved, CheckPhases
<1> QED
  BY <1>1, <1>2 DEF OrderInv

\* Steps that only go on, or fail.
LEMMA OrderInvIsKept ==
  ASSUME OrderInv, paths' = paths, list' = list,
         \/ phase' = phase /\ outcome' = outcome
         \/ phase' = "done" /\ outcome' \notin {"none", "included"}
         \/ outcome' = outcome /\ phase = "root" /\ phase' = "resolve"
         \/ outcome' = outcome /\ phase = "scan" /\ phase' = "create"
         \/ outcome' = outcome /\ {phase, phase'} \subseteq CheckPhases
         \/ outcome' = "included" /\ phase = "check" /\ phase' = "done"
  PROVE  OrderInv'
<1>1. IsResolved' => IsResolved
  BY DEF IsResolved, OrderInv, CheckPhases
<1>2. InOrder(list) => InOrder(list')
  OBVIOUS
<1> QED
  BY <1>1, <1>2 DEF OrderInv, CheckPhases

LEMMA OrderInvIsInductive == Inv /\ OrderInv /\ [Next]_vars => OrderInv'
<1> SUFFICES ASSUME Inv, OrderInv, [Next]_vars PROVE OrderInv'
  OBVIOUS
<1>1. /\ phase # "done" => outcome = "none"
      /\ paths \in Seq(Range(paths))
      /\ phase \in {"root", "resolve"} => paths = <<>>
      /\ phase \in {"root", "resolve", "scan"} => list = <<>>
      /\ phase \in {"scan", "create", "regular"} => Len(paths) + Len(list) <= MaxIncludeSources
  BY DEF OrderInv, Inv, PathsAreFound
<1>2. list \in Seq(Paths \ {<<>>})
  BY DEF Inv
<1>3. MaxIncludeSources \in Nat \ {0}
  BY LimitsArePositive
<1>4. CASE CheckRoot
  BY <1>4, OrderInvIsKept DEF CheckRoot, Fail
<1>5. CASE StartResolve
  <2>1. phase = "resolve" /\ UNCHANGED list
    BY <1>5 DEF StartResolve
  <2>2. \/ phase' = "done" /\ outcome' \in {"terminated", "error"} /\ UNCHANGED paths
        \/ phase' = "scan" /\ UNCHANGED <<paths, outcome>>
        \/ phase' = "create" /\ UNCHANGED outcome /\ \E path : paths' = <<path>>
    BY <1>5 DEF StartResolve, Fail
  <2>3. CASE phase' = "done" /\ outcome' \in {"terminated", "error"} /\ UNCHANGED paths
    BY <2>1, <2>3, OrderInvIsKept
  <2>4. CASE phase' = "scan" /\ UNCHANGED <<paths, outcome>>
    <3>1. ~IsResolved'
      BY <1>1, <2>1, <2>4 DEF IsResolved, CheckPhases
    <3>2. Len(paths') + Len(list') <= MaxIncludeSources
      BY <1>1, <1>3, <2>1, <2>4
    <3> QED
      BY <1>1, <2>1, <2>4, <3>1, <3>2 DEF OrderInv
  <2>5. CASE phase' = "create" /\ UNCHANGED outcome /\ \E path : paths' = <<path>>
    <3>1. PICK path : paths' = <<path>>
      BY <2>5
    <3>3. ~IsResolved'
      BY <1>1, <2>1, <2>5 DEF IsResolved, CheckPhases
    <3>4. Len(paths') = 1 /\ Len(list') = 0
      BY <1>1, <2>1, <3>1
    <3> QED
      BY <1>1, <1>3, <2>1, <2>5, <3>3, <3>4 DEF OrderInv
  <2> QED
    BY <2>2, <2>3, <2>4, <2>5
<1>6. CASE OpenDirectory
  BY <1>6, OrderInvIsKept DEF OpenDirectory, Fail
<1>7. CASE VisitEntry
  <2>1. phase = "scan" /\ UNCHANGED list
    BY <1>7 DEF VisitEntry
  <2>2. \/ phase' = "done" /\ outcome' \in {"terminated", "limit"} /\ UNCHANGED paths
        \/ UNCHANGED <<phase, outcome, paths>>
        \/ UNCHANGED <<phase, outcome>> /\ ~(Len(paths) >= MaxIncludeSources) /\ \E path : paths' = Append(paths, path)
    <3>1. PICK entry \in Listed :
            LET path == Append(Innermost.directory, entry.name)
                matches == IsRegularFile(fs, path) /\ NameMatches(entry.name)
            IN  \/ Fail("terminated") /\ UNCHANGED paths
                \/ Fail("limit") /\ UNCHANGED paths
                \/ /\ ~(matches /\ Len(paths) >= MaxIncludeSources)
                   /\ paths' = IF matches THEN Append(paths, path) ELSE paths
                   /\ UNCHANGED <<phase, outcome>>
      BY <1>7 DEF VisitEntry
    <3> QED
      BY <3>1 DEF Fail
  <2>3. CASE phase' = "done" /\ outcome' \in {"terminated", "limit"} /\ UNCHANGED paths
    BY <2>1, <2>3, OrderInvIsKept
  <2>4. CASE UNCHANGED <<phase, outcome, paths>>
    BY <2>1, <2>4, OrderInvIsKept
  <2>5. CASE UNCHANGED <<phase, outcome>> /\ ~(Len(paths) >= MaxIncludeSources) /\ \E path : paths' = Append(paths, path)
    <3>1. PICK path : paths' = Append(paths, path)
      BY <2>5
    <3>2. Len(paths') = Len(paths) + 1
      <4>1. paths \in Seq(Range(paths) \cup {path})
        BY <1>1
      <4>2. Append(paths, path) \in Seq(Range(paths) \cup {path}) /\ Len(Append(paths, path)) = Len(paths) + 1
        BY <4>1
      <4> QED
        BY <3>1, <4>2
    <3>3. ~IsResolved'
      BY <1>1, <2>1, <2>5 DEF IsResolved, CheckPhases
    <3>4. Len(paths) \in Nat /\ Len(list') = 0
      BY <1>1, <2>1
    <3> QED
      BY <1>1, <1>3, <2>1, <2>5, <3>2, <3>3, <3>4 DEF OrderInv
  <2> QED
    BY <2>2, <2>3, <2>4, <2>5
<1>8. CASE LeaveDirectory
  BY <1>8, OrderInvIsKept DEF LeaveDirectory
<1>9. CASE EndScan
  BY <1>9, OrderInvIsKept DEF EndScan
<1>19. CASE CanonicalizePath
  <2>1. CASE Exists(fs, Head(paths))
    <3>1. phase = "create" /\ phase' = "regular" /\ outcome' = outcome /\ list' = list
          /\ paths' = [paths EXCEPT ![1] = Canonical(fs, paths[1])]
      BY <1>19, <2>1 DEF CanonicalizePath
    <3>2. Len(paths') = Len(paths)
      BY <1>1, <3>1
    <3>3. ~IsResolved'
      BY <1>1, <3>1 DEF IsResolved, CheckPhases
    <3> QED
      BY <1>1, <3>1, <3>2, <3>3 DEF OrderInv
  <2>2. CASE ~Exists(fs, Head(paths))
    BY <1>19, <2>2, OrderInvIsKept DEF CanonicalizePath, Fail
  <2> QED
    BY <2>1, <2>2
<1>10. CASE CreateSource
  <2>1. CASE IsRegularFile(fs, Head(paths))
    <3> DEFINE path == Head(paths)
    <3>1. phase = "regular" /\ paths # <<>> /\ list' = Append(list, path) /\ paths' = Tail(paths)
          /\ phase' = "create" /\ UNCHANGED outcome
      BY <1>10, <2>1 DEF CreateSource, Inv, PathsAreFound
    <3>2. Len(Tail(paths)) = Len(paths) - 1 /\ Len(paths) \in Nat
      BY <1>1, <3>1
    <3>3. Len(list') = Len(list) + 1 /\ Len(list) \in Nat
      BY <1>2, <3>1
    <3>4. ~IsResolved'
      BY <1>1, <3>1 DEF IsResolved, CheckPhases
    <3>5. Len(paths') + Len(list') <= MaxIncludeSources
      BY <1>1, <1>3, <3>1, <3>2, <3>3
    <3> QED
      BY <1>1, <3>1, <3>4, <3>5 DEF OrderInv
  <2>2. CASE ~IsRegularFile(fs, Head(paths))
    BY <1>10, <2>2, OrderInvIsKept DEF CreateSource, Fail
  <2> QED
    BY <2>1, <2>2
<1>11. CASE SortSources
  <2>1. phase = "create" /\ paths = <<>> /\ list' = Sorted(list) /\ phase' = "check" /\ UNCHANGED <<outcome, paths>>
    BY <1>11 DEF SortSources
  <2>2. InOrder(Sorted(list)) /\ Len(Sorted(list)) = Len(list)
    BY <1>2, SortedInOrder
  <2>3. Len(list) <= MaxIncludeSources
    BY <1>1, <1>2, <1>3, <2>1
  <2> QED
    BY <1>1, <2>1, <2>2, <2>3 DEF OrderInv
<1>12. CASE BeginCheck
  BY <1>12, OrderInvIsKept DEF BeginCheck, Fail, CheckPhases
<1>13. CASE CheckSize
  BY <1>13, OrderInvIsKept DEF CheckSize, Fail, CheckPhases
<1>14. CASE CheckDirectory
  BY <1>14, OrderInvIsKept DEF CheckDirectory, Fail, CheckPhases
<1>15. CASE OpenSource
  BY <1>15, OrderInvIsKept DEF OpenSource, Fail, CheckPhases
<1>20. CASE CheckParent
  BY <1>20, OrderInvIsKept DEF CheckParent, Fail, CheckPhases
<1>21. CASE BeginOpen
  BY <1>21, OrderInvIsKept DEF BeginOpen, Fail, CheckPhases
<1>22. CASE CheckStatus
  BY <1>22, OrderInvIsKept DEF CheckStatus, Fail, CheckPhases
<1>16. CASE Complete
  BY <1>16, OrderInvIsKept DEF Complete, Fail, CheckPhases
<1>17. CASE ChangeFileSystem
  BY <1>17, OrderInvIsKept DEF ChangeFileSystem
<1>18. CASE UNCHANGED vars
  BY <1>18, OrderInvIsKept DEF vars, resolverVars
<1> QED
  BY <1>4, <1>5, <1>6, <1>7, <1>8, <1>9, <1>10, <1>11, <1>12, <1>13, <1>14, <1>15, <1>16, <1>17, <1>18, <1>19, <1>20, <1>21, <1>22
  DEF Next, Resolve, ResolverNext

\* Whatever order directories are listed in, and whatever other programs do meanwhile,
\* the sources of one @include are grouped by directory and not more than the limit.
\* (FileSourceResolver.cpp:341-375)
THEOREM SourcesAreGrouped == Spec => []ListIsInOrder
<1>1. Init => OrderInv
  BY OrderInvHoldsInitially
<1>2. Inv /\ OrderInv /\ [Next]_vars => OrderInv'
  BY OrderInvIsInductive
<1>3. Inv /\ OrderInv => ListIsInOrder
  <2> SUFFICES ASSUME Inv, OrderInv, IsResolved PROVE Len(list) <= MaxIncludeSources /\ IsGrouped(list)
    BY DEF ListIsInOrder
  <2>1. list \in Seq(Paths \ {<<>>})
    BY DEF Inv
  <2> QED
    BY <2>1, OrderedIsGrouped DEF OrderInv
<1> QED
  BY <1>1, <1>2, <1>3, InvIsInvariant, PTL DEF Spec
=============================================================================
