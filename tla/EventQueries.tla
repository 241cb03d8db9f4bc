---------------------------- MODULE EventQueries ----------------------------
(***************************************************************************)
(* How events are selected from the event table of the durable backends    *)
(* (store/internal/sqlite, store/internal/postgres, stream/filter.go).  A  *)
(* NULL parameter is "": nullableString makes the one out of the other.    *)
(***************************************************************************)
EXTENDS SqlStore, FiniteSets, SequencesExt

CONSTANTS
    Queries,           \* LoadEvents calls to answer: scope, from and filter
    HasPrefix(_, _),   \* strings.HasPrefix of an event type
    Like(_, _)         \* event_type LIKE prefix || '%': case and "_" do not count

-----------------------------------------------------------------------------
\* Filters.  A filter has sets of event types, prefixes, statuses and source
\* selectors, and a scope; what is empty matches everything.

Wants(want, value) == want = "" \/ want = value

MatchEventType(f, t) ==
    \/ f.types = {} /\ f.prefixes = {}
    \/ t \in f.types
    \/ \E p \in f.prefixes : HasPrefix(t, p)

MatchSource(f, e) ==
    \/ f.sources = {}
    \/ \E s \in f.sources : Wants(s.layer, e.layer) /\ Wants(s.id, e.id) /\ Wants(s.parent, e.parent)

MatchStatus(f, st) == f.statuses = {} \/ st \in f.statuses

MatchScope(scope, e) ==
    /\ Wants(scope.request, e.request) /\ Wants(scope.runner, e.runner)
    /\ Wants(scope.node, e.node) /\ Wants(scope.session, e.session)

Match(f, e) == MatchEventType(f, e.type) /\ MatchSource(f, e) /\ MatchStatus(f, e.status) /\ MatchScope(f.scope, e)

-----------------------------------------------------------------------------
\* LoadEvents of the SQLite store: what can be is left to the query, and every
\* row is matched again.

\* The only member of a set, "" if there is none or more than one
Optional(values) == IF Cardinality(values) = 1 THEN CHOOSE v \in values : TRUE ELSE ""

OptionalStatus(f) == Optional(f.statuses)

OptionalExactEventType(f) == IF f.prefixes = {} THEN Optional(f.types) ELSE ""

\* Mutant: the prefix is left to the query although types are given too.
OptionalEventTypePrefixAlways(f) == Optional(f.prefixes)

OptionalEventTypePrefix(f) == IF f.types = {} THEN Optional(f.prefixes) ELSE ""

OptionalSource(f) ==
    IF Cardinality(f.sources) = 1 THEN CHOOSE s \in f.sources : TRUE ELSE [layer |-> "", id |-> "", parent |-> ""]

MergeLoadScope(scope, other) == [k \in DOMAIN scope |-> IF scope[k] = "" THEN other[k] ELSE scope[k]]

NormalizeFrom(from) == IF from = 0 THEN 1 ELSE from

\* ListRequestStreamEvents
ListRequestStreamEvents(events, request, from, scope, f) ==
    LET src == OptionalSource(f) IN
    SetToSortSeq({e \in events : /\ e.request = request /\ e.seq >= from
                                 /\ Wants(scope.runner, e.runner) /\ Wants(scope.node, e.node)
                                 /\ Wants(scope.session, e.session)
                                 /\ Wants(OptionalStatus(f), e.status)
                                 /\ Wants(OptionalExactEventType(f), e.type)
                                 /\ (OptionalEventTypePrefix(f) = "" \/ Like(e.type, OptionalEventTypePrefix(f)))
                                 /\ Wants(src.layer, e.layer) /\ Wants(src.id, e.id) /\ Wants(src.parent, e.parent)},
                 LAMBDA a, b : a.seq < b.seq)

LoadEvents(events, scope, from, f) ==
    SelectSeq(ListRequestStreamEvents(events, scope.request, NormalizeFrom(from), MergeLoadScope(scope, f.scope), f),
              LAMBDA e : MatchScope(scope, e) /\ Match(f, e))

\* LoadEvents of the Postgres store: the query knows the request and the
\* sequence number only.
LoadEventsPlainly(events, scope, from, f) ==
    SelectSeq(SetToSortSeq({e \in events : e.request = scope.request /\ e.seq >= NormalizeFrom(from)},
                           LAMBDA a, b : a.seq < b.seq),
              LAMBDA e : MatchScope(scope, e) /\ Match(f, e))

-----------------------------------------------------------------------------
\* What LoadEvents leaves to the query changes nothing: it returns the events of
\* the scope that match the filter, in order, as a store that reads them all.
PushdownIsExact ==
    scenario.asks => \A q \in Queries : LoadEvents(db.events, q.scope, q.from, q.filter)
                          = LoadEventsPlainly(db.events, q.scope, q.from, q.filter)
=============================================================================
