------------------------------ MODULE Filters ------------------------------
(***************************************************************************)
(* Which announced releases are wanted: `decide` of torrent_processor.rs.  *)
(*                                                                         *)
(* A pattern is known by the texts it hits.  The lists of the code are     *)
(* sets here: their order only picks the pattern a log line names.         *)
(***************************************************************************)
EXTENDS Integers

CONSTANTS
    Patterns,   \* regular expressions
    Texts,      \* names of releases and values of fields
    Hits,       \* which pattern matches which text
    Fields,     \* captures of the announce regex
    NoPattern   \* a filter's `matches` or `reject_matching` left out

ASSUME FiltersAssumption ==
    Hits \subseteq Patterns \X Texts /\ NoPattern \notin Patterns

Hit(p, t) == <<p, t>> \in Hits

Filter   == [field : Fields, matches : Patterns \cup {NoPattern},
             rejects : Patterns \cup {NoPattern}]
Watch    == [regex : Patterns, require : SUBSET Fields, filters : SUBSET Filter]
RuleSet  == [watch : SUBSET Watch, reject : SUBSET Patterns,
             require : SUBSET Fields, filters : SUBSET Filter]

\* A field that did not capture has no values; one that did may have none.
Announce == {a \in [name : Texts, has : SUBSET Fields, values : [Fields -> SUBSET Texts]] :
                 \A f \in Fields \ a.has : a.values[f] = {}}

-----------------------------------------------------------------------------
\* The code.

Rejected(a, reject) == \E p \in reject : Hit(p, a.name)

Matched(a, watch) == {w \in watch : Hit(w.regex, a.name)}

\* Mutant of Overridden: an entry's filters do not count as naming a field.
OverriddenByRequire(entries) == UNION {w.require : w \in entries}

\* The fields a matching entry names, in either kind of rule.
Overridden(entries) ==
    UNION {w.require \cup {r.field : r \in w.filters} : w \in entries}

Required(require, entries) ==
    (require \ Overridden(entries)) \cup UNION {w.require : w \in entries}

Applied(filters, entries) ==
    {r \in filters : r.field \notin Overridden(entries)} \cup UNION {w.filters : w \in entries}

\* One value is enough, for a match as for a rejection.
Passes(a, r) ==
    /\ r.matches # NoPattern => \E v \in a.values[r.field] : Hit(r.matches, v)
    /\ r.rejects # NoPattern => ~\E v \in a.values[r.field] : Hit(r.rejects, v)

Vetoed(a, require, filters, entries) ==
    \/ \E f \in Required(require, entries) : f \notin a.has
    \/ \E r \in Applied(filters, entries) : ~Passes(a, r)

Decide(a, watch, reject, require, filters) ==
    LET entries == Matched(a, watch)
    IN  IF Rejected(a, reject) THEN "rejected"
        ELSE IF entries = {} THEN "unwanted"
        ELSE IF Vetoed(a, require, filters, entries) THEN "vetoed"
        ELSE "wanted"

-----------------------------------------------------------------------------
\* What the operator is told the rules mean, field by field.

Names(w, f) == f \in w.require \/ \E r \in w.filters : r.field = f

\* The rules a list or an entry has for field f are met.
Met(a, f, require, filters) ==
    /\ f \in require => f \in a.has
    /\ \A r \in filters : r.field = f => Passes(a, r)

\* Reject wins; some entry must match; a field the matching entries name is
\* theirs to decide, all of them; any other is for the global rules.
Wanted(a, c) ==
    /\ ~Rejected(a, c.reject)
    /\ Matched(a, c.watch) # {}
    /\ \A f \in Fields :
          LET own == {w \in Matched(a, c.watch) : Names(w, f)}
          IN  IF own = {} THEN Met(a, f, c.require, c.filters)
              ELSE \A w \in own : Met(a, f, w.require, w.filters)
=============================================================================
