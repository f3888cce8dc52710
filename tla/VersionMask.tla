----------------------------- MODULE VersionMask -----------------------------
(***************************************************************************)
(* impl/vr/VersionMask.hpp: a set of versions as a sequence of closed      *)
(* ranges that are sorted and neither overlap nor touch each other.        *)
(***************************************************************************)
EXTENDS Integers, SequencesExt

CONSTANT MaxVersion  \* the largest integer, a bound on the versions

ASSUME MaxVersionAssumption == MaxVersion \in Nat

Clamp(version) == IF version < 0 THEN 0 ELSE version
Least(a, b) == IF a < b THEN a ELSE b
Greatest(a, b) == IF a < b THEN b ELSE a

\* Integers have a width: behind the largest one is the smallest.
Successor(version) == IF version = MaxVersion THEN -MaxVersion - 1 ELSE version + 1

\* The bounds of a range are clamped and put in order.
VersionRange(a, b) ==
  [first |-> Least(Clamp(a), Clamp(b)), last |-> Greatest(Clamp(a), Clamp(b))]

AllVersions == VersionRange(0, MaxVersion)
AnyVersion == <<AllVersions>>
NoVersion == <<>>

IsEmptyMask(mask) == mask = <<>>
IsAny(mask) == Len(mask) = 1 /\ mask[1] = AllVersions
Matches(mask, version) == \E i \in DOMAIN mask : mask[i].first <= version /\ version <= mask[i].last

StartsBefore(a, b) == a.first < b.first \/ (a.first = b.first /\ a.last < b.last)

\* The last collected range grows over the next one if they overlap or touch;
\* nothing touches a range that ends at the maximum.
Coalesce(ranges, range) ==
  LET back == Last(ranges)
      overlap == range.first <= back.last
      adjacent == back.last < MaxVersion /\ range.first = Successor(back.last)
  IN  IF ranges # <<>> /\ (overlap \/ adjacent)
      THEN Append(Front(ranges), [back EXCEPT !.last = Greatest(back.last, range.last)])
      ELSE Append(ranges, range)

Normalize(ranges) == FoldLeft(Coalesce, <<>>, SortSeq(ranges, StartsBefore))

FromIntegers(versions) ==
  Normalize([i \in DOMAIN versions |-> VersionRange(versions[i], versions[i])])

UnionWith(mask, other) ==
  CASE IsAny(mask) \/ IsAny(other) -> AnyVersion
    [] IsEmptyMask(mask) -> other
    [] IsEmptyMask(other) -> mask
    [] OTHER -> Normalize(mask \o other)

\* The common part of two ranges joins the previous one if it touches it.
\* The addition is not guarded: it must not be reached at the maximum.
AddCommon(ranges, first, last) ==
  IF ranges # <<>> /\ first <= Successor(Last(ranges).last)
  THEN Append(Front(ranges), [Last(ranges) EXCEPT !.last = Greatest(@, last)])
  ELSE Append(ranges, VersionRange(first, last))

\* The two-pointer sweep over two normalized masks: in each step, the range that
\* ends first is left.
Sweep(a, b) ==
  LET Step(state, n) ==
        LET i == state.i
            j == state.j
            first == Greatest(a[i].first, b[j].first)
            last == Least(a[i].last, b[j].last)
        IN  IF i > Len(a) \/ j > Len(b) THEN state
            ELSE [i |-> IF a[i].last < b[j].last THEN i + 1 ELSE i,
                  j |-> IF a[i].last < b[j].last THEN j ELSE j + 1,
                  found |-> IF first <= last THEN AddCommon(state.found, first, last) ELSE state.found]
  IN  FoldLeft(Step, [i |-> 1, j |-> 1, found |-> <<>>], [n \in 1..Len(a) + Len(b) |-> n]).found

IntersectionWith(mask, other) ==
  CASE IsEmptyMask(mask) \/ IsEmptyMask(other) -> NoVersion
    [] IsAny(mask) -> other
    [] IsAny(other) -> mask
    [] OTHER -> Sweep(Normalize(mask), Normalize(other))

\* The gaps in front of, between and behind the ranges; a range that ends at the
\* maximum has no gap behind it.
Complement(mask) ==
  LET inFront == IF mask[1].first > 0 THEN <<VersionRange(0, mask[1].first - 1)>> ELSE <<>>
      between == [i \in 1..Len(mask) - 1 |-> [first |-> Successor(mask[i].last), last |-> mask[i + 1].first - 1]]
      behind == IF Last(mask).last < MaxVersion
                THEN <<VersionRange(Successor(Last(mask).last), MaxVersion)>> ELSE <<>>
      IsGap(range) == range.first > 0 /\ range.first <= range.last
  IN  IF IsEmptyMask(mask) THEN AnyVersion
      ELSE IF IsAny(mask) THEN NoVersion
      ELSE inFront \o SelectSeq(between, IsGap) \o behind
=============================================================================
