-------------------------- MODULE IndexedFilterSet --------------------------
(***************************************************************************)
(* The two filter sets of cloudevent/cefilter, given the same filters: the *)
(* index (IndexedFilterSet, index.go) and the linear scan (FilterSet,      *)
(* accessor.go) that serves as its reference.  Every method runs under the *)
(* index's lock, so each is one step.  FilterSet.Add does not replace, so  *)
(* whoever updates a rule in it calls Remove first.                        *)
(***************************************************************************)
EXTENDS CEFilter, FiniteSets

LOCAL SeqExt == INSTANCE SequencesExt

CONSTANTS
    Names,      \* FilterEntry.Name
    Hints,      \* FilterEntry.Hint
    NoHint,     \* the empty Hint
    Exprs,      \* expressions (token sequences), some of which do not parse
    Events,     \* Attrs
    Limits      \* values of MaxMatches; 0 is unlimited

ASSUME IndexAssumption == NoHint \in Hints /\ Limits \subseteq Nat

VARIABLES
    names, exactIndex, globEntries, wildcardEntries,   \* IndexedFilterSet
    filters,                                           \* FilterSet
    MaxMatches                                         \* of both, set once

indexVars == <<names, exactIndex, globEntries, wildcardEntries>>
setVars == <<indexVars, filters, MaxMatches>>

Entry(n, h, p) == [name |-> n, hint |-> h, pred |-> p]

Preds == {Parse(x).pred : x \in {y \in Exprs : Parse(y).ok}}
\* Every type some event carries or some filter names.
Types == {TypeOf(a) : a \in Events}
         \union UNION {extractTypeConstraint(p).exact : p \in Preds}

\* The index with its four fields: an absent bucket is an empty one.
Index(ns, exact, globs, wild) ==
    [names |-> ns, exact |-> exact, globs |-> globs, wild |-> wild]
index == Index(names, exactIndex, globEntries, wildcardEntries)

Becomes(ix) ==
    /\ names' = ix.names
    /\ exactIndex' = ix.exact
    /\ globEntries' = ix.globs
    /\ wildcardEntries' = ix.wild
    /\ UNCHANGED MaxMatches

SetInit ==
    /\ names = {}
    /\ exactIndex = [t \in Types |-> <<>>]
    /\ globEntries = <<>>
    /\ wildcardEntries = <<>>
    /\ filters = <<>>
    /\ MaxMatches \in Limits

-----------------------------------------------------------------------------
(* Add and Remove                                                          *)

WithoutName(s, n) == SelectSeq(s, LAMBDA e : e.name # n)

removeLocked(ix, n) ==
    Index(ix.names \ {n},
          [t \in Types |-> WithoutName(ix.exact[t], n)],
          SelectSeq(ix.globs, LAMBDA ge : ge.entry.name # n),
          WithoutName(ix.wild, n))

\* Where Add puts an entry: wildcard if its type is unconstrained, or if the
\* constraint is contradictory and left nothing.
placed(ix, ie) ==
    LET tc == extractTypeConstraint(ie.pred)
        wild == tc.unconstrained \/ (tc.exact = {} /\ tc.globs = <<>>)
    IN  Index(ix.names \union {ie.name},
              [t \in Types |-> IF t \in tc.exact THEN Append(ix.exact[t], ie)
                               ELSE ix.exact[t]],
              ix.globs \o [i \in DOMAIN tc.globs |->
                             [rx |-> tc.globs[i], entry |-> ie]],
              IF wild THEN Append(ix.wild, ie) ELSE ix.wild)

\* Mutant of Add: the previous version of a rule keeps matching.
AddKeepsPrevious(n, h, x) ==
    IF Parse(x).ok
      THEN /\ Becomes(placed(index, Entry(n, h, Parse(x).pred)))
           /\ filters' = Append(WithoutName(filters, n), Entry(n, h, Parse(x).pred))
      ELSE UNCHANGED setVars

\* IndexedFilterSet.Add, and Remove with Add on the FilterSet.
Add(n, h, x) ==
    IF Parse(x).ok
      THEN LET ie == Entry(n, h, Parse(x).pred)
               old == IF n \in names THEN removeLocked(index, n) ELSE index
           IN  /\ Becomes(placed(old, ie))
               /\ filters' = Append(WithoutName(filters, n), ie)
      ELSE UNCHANGED setVars

\* Remove, on both.
Remove(n) ==
    /\ Becomes(removeLocked(index, n))
    /\ filters' = WithoutName(filters, n)

SetNext == \E n \in Names : Remove(n) \/ \E h \in Hints, x \in Exprs : Add(n, h, x)

SetSpec == SetInit /\ [][SetNext]_setVars

-----------------------------------------------------------------------------
(* Matching.  A result is what the call returns and how often it called    *)
(* OnLimitExceeded.                                                        *)

\* The entries the index tries for an event, in the order it tries them.
candidates(a) ==
    exactIndex[TypeOf(a)]
    \o LET hit == SelectSeq(globEntries, LAMBDA ge : globMatches(ge.rx, TypeOf(a)))
       IN  [i \in DOMAIN hit |-> hit[i].entry]
    \o wildcardEntries

MatchAny(a) == \E i \in DOMAIN candidates(a) : matches(candidates(a)[i].pred, a)

Found == [out |-> <<>>, seen |-> {}, limit |-> 0, done |-> FALSE]

\* A match is collected, and may be the one that reaches MaxMatches.
Collect(r, x) ==
    LET full == MaxMatches > 0 /\ Len(r.out) + 1 >= MaxMatches
    IN  [r EXCEPT !.out = Append(@, x),
                  !.limit = IF full THEN @ + 1 ELSE @,
                  !.done = full]

\* The loop body of Match: the closure `add'.
matchStep(a, r, e) ==
    IF r.done \/ e.name \in r.seen THEN r
    ELSE LET s == [r EXCEPT !.seen = @ \union {e.name}]
         IN  IF matches(e.pred, a) THEN Collect(s, e) ELSE s

Match(a) == SeqExt!FoldLeft(LAMBDA r, e : matchStep(a, r, e), Found, candidates(a))

\* The loop body of MatchEndpoints: also one endpoint per hint, none if empty.
endpointStep(a, r, e) ==
    IF r.done \/ e.name \in r.seen THEN r
    ELSE LET s == [r EXCEPT !.seen = @ \union {e.name}]
         IN  IF e.hint = NoHint \/ e.hint \in SeqExt!ToSet(r.out) THEN s
             ELSE IF matches(e.pred, a) THEN Collect(s, e.hint) ELSE s

MatchEndpoints(a) == SeqExt!FoldLeft(LAMBDA r, e : endpointStep(a, r, e), Found, candidates(a))

\* FilterSet.Match and FilterSet.MatchEndpoints: every filter, in order.
linearMatch(a) ==
    SeqExt!FoldLeft(LAMBDA r, e : IF ~r.done /\ matches(e.pred, a) THEN Collect(r, e) ELSE r,
             Found, filters)
linearMatchEndpoints(a) ==
    SeqExt!FoldLeft(LAMBDA r, e :
                IF r.done \/ ~matches(e.pred, a) \/ e.hint = NoHint \/ e.hint \in SeqExt!ToSet(r.out)
                  THEN r
                  ELSE Collect(r, e.hint),
             Found, filters)

\* Stats: Total and ExactTypeBuckets.
Stats ==
    [total |-> Cardinality(UNION {SeqExt!ToSet(exactIndex[t]) : t \in Types}
                           \union {ge.entry : ge \in SeqExt!ToSet(globEntries)})
               + Len(wildcardEntries),
     buckets |-> Cardinality({t \in Types : exactIndex[t] # <<>>})]

-----------------------------------------------------------------------------
(* Properties                                                              *)

\* The index finds what the linear scan finds: the same events match, and a
\* result holds each matching filter once, as many of them as the limit lets
\* through, with OnLimitExceeded called as often (Match, MatchAny of both); and
\* as many distinct non-empty hints, each of a filter that is registered and
\* matches (MatchEndpoints of both).
\* Whatever was replaced or removed, names and Stats count the rules in force,
\* each once however many buckets hold it (Add, removeLocked, Stats).
MatchAgrees ==
    /\ names = {e.name : e \in SeqExt!ToSet(filters)}
    /\ Stats.total = Len(filters)
    /\ Stats.buckets <= Cardinality(UNION {extractTypeConstraint(f.pred).exact :
                                             f \in SeqExt!ToSet(filters)})
    /\ \A a \in Events :
        LET got == Match(a) ref == linearMatch(a)
        IN  /\ Len(got.out) = Len(ref.out)
            /\ got.limit = ref.limit
            /\ SeqExt!IsInjective(got.out)
            /\ \A e \in SeqExt!ToSet(got.out) : e \in SeqExt!ToSet(filters) /\ matches(e.pred, a)
            /\ MatchAny(a) <=> ref.out # <<>>
    /\ \A a \in Events :
        LET got == MatchEndpoints(a) ref == linearMatchEndpoints(a)
        IN  /\ Len(got.out) = Len(ref.out)
            /\ got.limit = ref.limit
            /\ SeqExt!IsInjective(got.out)
            /\ \A h \in SeqExt!ToSet(got.out) : h # NoHint /\
                  \E e \in SeqExt!ToSet(filters) : e.hint = h /\ matches(e.pred, a)
=============================================================================
