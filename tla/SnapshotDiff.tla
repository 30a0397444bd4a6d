--------------------------- MODULE SnapshotDiff ----------------------------
(* Snapshots of a source, their acceptance, and the diff of two of them    *)
(* (snapshot/).  A snapshot is a set of objects; an object has             *)
(*   kind, schema, name   its identity;                                    *)
(*   columns              name -> [type, nullable, default, ordinal];      *)
(*   keys                 a key's identity ("primary", or the columns of a *)
(*                        foreign or unique key) -> what it refers to;     *)
(*   stats                a stat's name -> its value;                      *)
(*   description          every description, of the object or a column.    *)
(* A hash is the structure it digests: collisions are left out.  Sets and  *)
(* functions have no order, so the canonical ordering is their equality.   *)
EXTENDS Naturals, FiniteSets, Functions

KIND_REGISTRY ==
    [table             |-> [included |-> {"checks"},     excluded |-> {"row_estimate", "indexes"}],
     view              |-> [included |-> {"definition"}, excluded |-> {}],
     materialized_view |-> [included |-> {"definition"}, excluded |-> {"row_estimate", "indexes"}],
     api_dimension     |-> [included |-> {"data_type"},  excluded |-> {}],
     api_metric        |-> [included |-> {"data_type", "scope", "formula"}, excluded |-> {}],
     api_event         |-> [included |-> {"is_key_event"}, excluded |-> {}]]

Identity(o) == <<o.kind, o.schema, o.name>>
Registered(o) == o.kind \in DOMAIN KIND_REGISTRY

\* What the hash covers: no description, and only the stats declared structural.
structural_projection(o) ==
    [identity |-> Identity(o),
     columns  |-> o.columns,
     keys     |-> o.keys,
     stats    |-> Restrict(o.stats, DOMAIN o.stats \cap KIND_REGISTRY[o.kind].included)]

schema_hash(o) == structural_projection(o)

Duplicates(objects) ==
    {Identity(o) : o \in {p \in objects : \E q \in objects \ {p} : Identity(q) = Identity(p)}}

\* Errors of a document of the right shape; unknown kinds are warnings.
validate_snapshot(snapshot, check_hashes) ==
    {<<"duplicate", i>> : i \in Duplicates(snapshot.objects)} \cup
    {<<"hash", Identity(o)>> :
        o \in {p \in snapshot.objects : check_hashes /\ Registered(p) /\ p.schema_hash # schema_hash(p)}}

accept(document) == validate_snapshot(document, TRUE) = {}
-----------------------------------------------------------------------------
Rank == [additive |-> 1, note |-> 2, breaking |-> 3]

SubDiff(change, on, severity, downgradable) ==
    [change |-> change, on |-> on, severity |-> severity, downgradable |-> downgradable]

_max_severity(subs) ==
    (CHOOSE s \in subs : \A t \in subs : Rank[t.severity] <= Rank[s.severity]).severity

_column_sub_diffs(old, new) ==
    LET Old == DOMAIN old.columns
        New == DOMAIN new.columns
        Both(P(_, _)) == {c \in Old \cap New : P(old.columns[c], new.columns[c])}
    IN  {SubDiff("column_added", c, "additive", FALSE) : c \in New \ Old} \cup
        {SubDiff("column_removed", c, "breaking", FALSE) : c \in Old \ New} \cup
        {SubDiff("column_type_changed", c, "breaking", FALSE) :
            c \in Both(LAMBDA o, n : o.type # n.type)} \cup
        {SubDiff("column_nullable_tightened", c, "breaking", FALSE) :
            c \in Both(LAMBDA o, n : o.nullable /\ ~n.nullable)} \cup
        {SubDiff("column_nullable_loosened", c, "note", FALSE) :
            c \in Both(LAMBDA o, n : n.nullable /\ ~o.nullable)} \cup
        {SubDiff("column_default_changed", c, "note", FALSE) :
            c \in Both(LAMBDA o, n : o.default # n.default)} \cup
        {SubDiff("column_ordinal_changed", c, "breaking", FALSE) :
            c \in Both(LAMBDA o, n : o.ordinal # n.ordinal)}

_key_sub_diffs(old, new) ==
    LET Old == DOMAIN old.keys
        New == DOMAIN new.keys
    IN  {SubDiff("key_added", k, "additive", FALSE) : k \in New \ Old} \cup
        {SubDiff("key_removed", k, "breaking", FALSE) : k \in Old \ New} \cup
        {SubDiff("key_altered", k, "breaking", FALSE) :
            k \in {l \in Old \cap New : old.keys[l] # new.keys[l]}}

\* A stat that appears or disappears has changed too.
_stats_sub_diffs(old, new) ==
    LET Value(o, stat) == IF stat \in DOMAIN o.stats THEN {o.stats[stat]} ELSE {}
        Moved == {s \in KIND_REGISTRY[old.kind].included : Value(old, s) # Value(new, s)}
    IN  {IF s = "definition" THEN SubDiff("definition_changed", s, "breaking", TRUE)
                             ELSE SubDiff("stat_changed", s, "breaking", FALSE) : s \in Moved}

SubDiffs(old, new) ==
    _column_sub_diffs(old, new) \cup _key_sub_diffs(old, new) \cup _stats_sub_diffs(old, new)

\* The difference of two objects of one identity.
diff_object(old, new) ==
    LET subs == SubDiffs(old, new)
        Of(class, severity, found) ==
            [id |-> Identity(old), class |-> class, severity |-> severity, subs |-> found]
    IN  CASE old.schema_hash # new.schema_hash ->
                 Of("structural", IF subs = {} THEN "breaking" ELSE _max_severity(subs), subs)
          [] old.schema_hash = new.schema_hash /\ old # new -> Of("metadata", "additive", {})
          [] OTHER -> Of("unchanged", "additive", {})

\* The objects of a snapshot that are compared: kinds not registered are skipped.
_index_objects(snapshot) == {o \in snapshot.objects : Registered(o)}

\* Accepted snapshots have no duplicate identity, so no diff of them raises.
diff_snapshots(old, new) ==
    LET o == _index_objects(old)
        n == _index_objects(new)
        Ids(objects) == {Identity(p) : p \in objects}
        both == {diff_object(p[1], p[2]) : p \in {q \in o \X n : Identity(q[1]) = Identity(q[2])}}
        Of(class) == {d \in both : d.class = class}
    IN  [system     |-> old.system,
         added      |-> Ids(n) \ Ids(o),
         removed    |-> Ids(o) \ Ids(n),
         structural |-> Of("structural"),
         metadata   |-> Of("metadata")]

is_empty(diff) == diff.added \cup diff.removed = {} /\ diff.structural \cup diff.metadata = {}
=============================================================================
