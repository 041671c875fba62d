------------------------------ MODULE StatsFilter ------------------------------
(***************************************************************************)
(* The filters of the statistics RPCs: which values of a metric a          *)
(* StatsFilters message lets pass (src/sn-cfg/src/agent/stats.cpp, and the *)
(* same text in src/sn-p4/src/agent/stats.cpp).                            *)
(*                                                                         *)
(* A name, key or label is a model value.  A pattern is known by the names *)
(* it matches, a split by the parts it makes of each name.                 *)
(***************************************************************************)
EXTENDS BitArray, Sequences, FiniteSets

CONSTANT IntMax   \* the largest int32_t

\* What is kept of a sum in 32 bits.
AsInt(x) == ((x + IntMax + 1) % (2 * IntMax + 2)) - IntMax - 1

-----------------------------------------------------------------------------
(* Names *)

RECURSIVE MatchString(_, _), MatchPart(_, _, _)

\* apply_metric_filter_match_string
MatchString(match, str) ==
  CASE match.method = "exact" -> match.value = str
    [] match.method = "pattern" -> str \in match.names
    [] match.method = "split" ->
         LET parts == match.parts[str]
             ok(i) == MatchPart(match.part, parts[i], i - 1)
         IN  IF match.any THEN \E i \in DOMAIN parts : ok(i)
             ELSE parts # <<>> /\ \A i \in DOMAIN parts : ok(i)
    [] match.method = "none" -> TRUE

\* apply_metric_filter_match_string_split_part
MatchPart(part, str, index) ==
  LET ok == CASE part.term = "value" -> MatchString(part.value, str)
              [] part.term = "index" -> part.index = index
              [] part.term = "any" ->
                   \/ part.members = <<>>
                   \/ \E i \in DOMAIN part.members : MatchPart(part.members[i], str, index)
              [] part.term = "all" ->
                   \A i \in DOMAIN part.members : MatchPart(part.members[i], str, index)
              [] part.term = "none" -> TRUE
  IN  ok # part.negated

-----------------------------------------------------------------------------
(* Values of a metric *)

Size(metric)  == Len(metric.labels)
Index(metric) == 0 .. Size(metric) - 1
Labels(metric, n) == metric.labels[n + 1]

\* Where the first and the last index of a slice are in a metric of that size.
FirstIndex(slice, size) ==
  IF slice.start >= 0 THEN slice.start
  ELSE IF slice.start + size < 0 THEN 0 ELSE slice.start + size

\* Fault: the end is exclusive, as it is in Python.
LastIndex_Exclusive(slice, size) ==
  LET end == IF slice.end < 0 THEN slice.end + size ELSE slice.end
  IN  IF end >= size THEN size - 1 ELSE end - 1

LastIndex(slice, size) ==
  LET end == IF slice.end < 0 THEN slice.end + size ELSE slice.end
  IN  IF end >= size THEN size - 1 ELSE end

\* The loop of a slice, from n on: an unsigned step is added to a signed index.
\* It never ends when it comes back to where it was.
RECURSIVE From(_, _, _, _)
From(n, end, step, seen) ==
  IF n > end \/ n \in seen THEN seen
  ELSE From(AsInt(n + step), end, step, seen \cup {n})

\* apply_metric_filter_match_indices, for one slice.  An end before the first
\* value, and a start after the last or after the end, leave nothing.
Slice(slice, size) ==
  LET start == FirstIndex(slice, size)
      end   == LastIndex(slice, size)
      step  == IF slice.step < 1 THEN 1 ELSE slice.step
  IN  IF start >= size \/ end < 0 THEN {} ELSE From(start, end, step, {})

RECURSIVE SetBits(_, _)
SetBits(a, S) ==
  IF S = {} THEN a ELSE LET n == CHOOSE n \in S : TRUE IN SetBits(SetBit(a, n), S \ {n})

\* valid comes in cleared: values that do not match are not written to.
MatchIndices(slices, metric, valid) ==
  IF ~metric.array THEN AssignAll(valid.nbits, slices = {})
  ELSE SetBits(valid, UNION {Slice(s, valid.nbits) : s \in slices})

\* apply_metric_filter_match_label: nor are they here.
MatchLabel(label, metric, valid) ==
  SetBits(valid, {n \in Index(metric) : \E l \in Labels(metric, n) :
                    MatchString(label.key, l[1]) /\ MatchString(label.value, l[2])})

\* apply_metric_filter_match
Match(match, metric, valid) ==
  CASE match.attr = "indices" -> MatchIndices(match.slices, metric, valid)
    [] match.attr = "label"   -> MatchLabel(match, metric, valid)
    [] match.attr = "type"    -> AssignAll(valid.nbits, match.type = metric.type)
    [] match.attr = "none"    -> SetAll(valid.nbits)
    [] OTHER -> \* domain, zone, block or name
         AssignAll(valid.nbits, MatchString(match.string, metric[match.attr]))

-----------------------------------------------------------------------------
(* Filters *)

RECURSIVE Apply(_, _, _), AnyFrom(_, _, _, _), AllFrom(_, _, _, _)

\* The members of all_set from the i-th on, until nothing is left ...
AllFrom(i, members, metric, valid) ==
  LET next == And(valid, Apply(members[i], metric, ClearAll(valid.nbits)))
  IN  IF i = Len(members) \/ IsAllCleared(next) THEN next
      ELSE AllFrom(i + 1, members, metric, next)

\* ... and those of any_set until nothing is missing.
AnyFrom(i, members, metric, valid) ==
  LET next == Or(valid, Apply(members[i], metric, ClearAll(valid.nbits)))
  IN  IF i = Len(members) \/ IsAllSet(next) THEN next
      ELSE AnyFrom(i + 1, members, metric, next)

\* apply_metric_filter
Apply(filter, metric, valid) ==
  LET n  == valid.nbits
      ok == CASE filter.term = "match" -> Match(filter.match, metric, valid)
              [] filter.term = "none" \/ filter.members = <<>> -> SetAll(n)
              [] filter.term = "any" -> AnyFrom(1, filter.members, metric, valid)
              [] filter.term = "all" -> AllFrom(1, filter.members, metric, SetAll(n))
  IN  IF filter.negated THEN NegateAll(ok) ELSE ok

\* apply_filters, for the values that Get has copied.  filters.metric is the set
\* of the metric filter, if there is one.
ApplyFilters(filters, metric, values) ==
  LET n == Size(metric)
      shown == SetBits(ClearAll(n),
                       {i \in Index(metric) : ~filters.non_zero \/ values[i] # 0})
  IN  IF IsAllCleared(shown) \/ filters.metric = {} THEN shown
      ELSE LET f == CHOOSE f \in filters.metric : TRUE
           IN  And(shown, Apply(f, metric, ClearAll(n)))

\* The array against which Clear holds the values: set up from the metric filter.
ClearMask(filters, metric) ==
  LET n == Size(metric)
  IN  IF filters.metric = {} THEN SetAll(n)
      ELSE Apply(CHOOSE f \in filters.metric : TRUE, metric, ClearAll(n))

-----------------------------------------------------------------------------
(* What a filter means, value by value *)

\* "Index of the first value included in the slice ... Increment applied from the
\* start index until, and not exceeding, the end." (sn_cfg_v2.proto)
InSlice(slice, size, n) ==
  LET at(i) == IF i < 0 THEN i + size ELSE i
      start == IF at(slice.start) < 0 THEN 0 ELSE at(slice.start)
      step  == IF slice.step = 0 THEN 1 ELSE slice.step
  IN  start <= n /\ n <= at(slice.end) /\ (n - start) % step = 0

MatchMeans(match, metric, n) ==
  CASE match.attr = "indices" ->
         IF metric.array THEN \E s \in match.slices : InSlice(s, Size(metric), n)
         ELSE match.slices = {}
    [] match.attr = "label" ->
         \E l \in Labels(metric, n) :
           MatchString(match.key, l[1]) /\ MatchString(match.value, l[2])
    [] match.attr = "type" -> match.type = metric.type
    [] match.attr = "none" -> TRUE
    [] OTHER -> MatchString(match.string, metric[match.attr])

RECURSIVE Means(_, _, _)
Means(filter, metric, n) ==
  LET ok == CASE filter.term = "match" -> MatchMeans(filter.match, metric, n)
              [] filter.term = "any" ->
                   \/ filter.members = <<>>
                   \/ \E i \in DOMAIN filter.members : Means(filter.members[i], metric, n)
              [] filter.term = "all" ->
                   \A i \in DOMAIN filter.members : Means(filter.members[i], metric, n)
              [] filter.term = "none" -> TRUE
  IN  ok # filter.negated

\* The values of a metric that a metric filter is about.
Meant(filters, metric) ==
  {n \in Index(metric) : \A f \in filters.metric : Means(f, metric, n)}
=============================================================================
