--------------------------- MODULE LineageGraph ----------------------------
(* The lineage graph derived from snapshots and publishes, the walks over  *)
(* it, and the severity of a definition change that only the graph can     *)
(* settle (lineage/).  A view's definition, once parsed, has               *)
(*   parses    whether the parser accepts it;                              *)
(*   reads     the relations it names, each <<schema, name>>, the schema   *)
(*             empty when the reference is unqualified;                    *)
(*   feeds     those of them that feed the outer query, not only a filter; *)
(*   outputs   output column -> the set of <<relation, column>> it draws   *)
(*             on, empty for a column-free derivation such as count( * );  *)
(*   exhibits  the transformations the query applies;                      *)
(*   text      what else tells two spellings apart.                        *)
(* Subqueries, unions and stars are already resolved in reads and outputs. *)
EXTENDS SnapshotDiff, FiniteSetsExt

RELATION_KINDS == {"table", "view", "materialized_view"}
DEFINED_KINDS == {"view", "materialized_view"}
_OP_PRECEDENCE == <<"aggregate", "dedupe", "join", "derive", "cast", "rename", "filter">>
TIER_ORDER == <<"pipeline-tool", "sql-parse", "human">>

Fqn(system, o) == <<system, o.schema, o.name>>

\* A reference against the inventory of one snapshot: an unqualified name resolves
\* only when one schema has it, and what does not resolve keeps its spelling.
resolve(snapshot, ref) ==
    LET named == {o \in snapshot.objects :
                    o.kind \in RELATION_KINDS /\ o.name = ref[2] /\ ref[1] \in {"", o.schema}}
        found == IF ref[1] = "" /\ Cardinality(named) > 1 THEN {} ELSE named
    IN  IF found = {}
        THEN [fqn |-> <<snapshot.system, ref[1], ref[2]>>, resolved |-> FALSE, columns |-> {}]
        ELSE LET o == CHOOSE o \in found : TRUE
             IN  [fqn |-> Fqn(snapshot.system, o), resolved |-> TRUE, columns |-> DOMAIN o.columns]

\* The snapshot is the authority on the columns of a relation it has; of one it does
\* not have, the text is.
_source_column(relation, column) ==
    IF relation.resolved /\ column \notin relation.columns THEN {} ELSE {column}

\* Output column -> source columns, for one relation a definition reads.
output_mappings(snapshot, definition, ref) ==
    LET Drawn(out) == UNION {_source_column(resolve(snapshot, ref), a[2]) :
                                a \in {b \in definition.outputs[out] : b[1] = ref}}
        Outs == {out \in DOMAIN definition.outputs : 
                    \/ definition.outputs[out] = {} /\ ref \in definition.feeds
                    \/ Drawn(out) # {}}
    IN  [out \in Outs |-> Drawn(out)]

_operation(definition) ==
    LET shown == {i \in DOMAIN _OP_PRECEDENCE : _OP_PRECEDENCE[i] \in definition.exhibits}
    IN  IF shown = {} THEN "rename" ELSE _OP_PRECEDENCE[Min(shown)]

\* One attestation for each relation the definition of view o names.
_parse_definition(snapshot, o) ==
    LET definition == o.stats["definition"]
        Edge(ref) ==
            LET relation == resolve(snapshot, ref)
            IN  [source    |-> relation.fqn, source_resolved |-> relation.resolved,
                 target    |-> Fqn(snapshot.system, o), target_resolved |-> TRUE,
                 operation |-> _operation(definition),
                 evidence  |-> <<"sql-parse", definition>>,
                 columns   |-> output_mappings(snapshot, definition, ref)]
    IN  {Edge(ref) : ref \in definition.reads}

Defined(snapshot) ==
    {o \in snapshot.objects : o.kind \in DEFINED_KINDS /\ "definition" \in DOMAIN o.stats}

snapshot_attestations(snapshot) == UNION {_parse_definition(snapshot, o) : o \in Defined(snapshot)}

edge_id(a) == <<a.source, a.target, a.operation>>

Trust(evidence) ==
    TIER_ORDER[Min({i \in DOMAIN TIER_ORDER : \E e \in evidence : e[1] = TIER_ORDER[i]})]

\* Attestations of one identity make one edge; the nodes are the endpoints.
merge_attestations(attestations) ==
    LET Of(id) == {a \in attestations : edge_id(a) = id}
        Columns(as) == [out \in UNION {DOMAIN a.columns : a \in as} |->
                          UNION {a.columns[out] : a \in {b \in as : out \in DOMAIN b.columns}}]
        Edge(as) == [evidence |-> {a.evidence : a \in as},
                     trust    |-> Trust({a.evidence : a \in as}),
                     columns  |-> Columns(as)]
        Known(fqn) == \E a \in attestations : \/ a.source = fqn /\ a.source_resolved
                                              \/ a.target = fqn /\ a.target_resolved
        Ends == UNION {{a.source, a.target} : a \in attestations}
    IN  [nodes |-> [fqn \in Ends |-> Known(fqn)],
         edges |-> [id \in {edge_id(a) : a \in attestations} |-> Edge(Of(id))]]

\* One definition that does not parse fails the whole build.
Buildable(snapshots) == \A s \in snapshots : \A o \in Defined(s) : o.stats["definition"].parses

build_graph(snapshots, gateway) ==
    merge_attestations((UNION {snapshot_attestations(s) : s \in snapshots}) \cup gateway)
-----------------------------------------------------------------------------
(* Mutant: the queue is never refilled.                                   *)
WalkOneHop(graph, start) ==
    [fqn \in {start} \cup {id[2] : id \in {e \in DOMAIN graph.edges : e[1] = start}} |->
        IF fqn = start THEN 0 ELSE 1]

\* The nodes found so far and the targets of the edges that leave them.
Downstream(graph, found) == found \cup {id[2] : id \in {e \in DOMAIN graph.edges : e[1] \in found}}

\* What a breadth-first walk has found after n rounds; no path is longer than the nodes.
Rounds(graph, start) ==
    LET within[n \in 0..Cardinality(DOMAIN graph.nodes)] ==
            IF n = 0 THEN {start} ELSE Downstream(graph, within[n - 1])
    IN  within

\* The nodes an unbounded breadth-first walk of the edges reaches, with their hops.
contamination_walk(graph, start) ==
    LET within == Rounds(graph, start)
    IN  [fqn \in within[Cardinality(DOMAIN graph.nodes)] |->
            Min({n \in DOMAIN within : fqn \in within[n]})]
-----------------------------------------------------------------------------
_COLUMN_SHAPING ==
    {"column_added", "column_removed", "column_type_changed", "column_ordinal_changed"}

_incoming(graph, fqn) ==
    [id \in {e \in DOMAIN graph.edges : e[2] = fqn} |-> graph.edges[id].columns]

\* A definition change that leaves output columns, sources and mappings alone is
\* downgraded; everything else keeps its severity.
finalize_severity(diff, old_graph, new_graph) ==
    LET Fed(graph, object) == _incoming(graph, <<diff.system, object.id[2], object.id[3]>>)
        Shaped(object) == \E s \in object.subs : s.change \in _COLUMN_SHAPING
        Kept(object) == ~Shaped(object) /\ Fed(old_graph, object) = Fed(new_graph, object)
        Final(object, s) == IF s.downgradable /\ Kept(object)
                            THEN [s EXCEPT !.severity = "note", !.downgradable = FALSE]
                            ELSE [s EXCEPT !.downgradable = FALSE]
        Settled(object) ==
            LET subs == {Final(object, s) : s \in object.subs}
            IN  [object EXCEPT !.subs = subs,
                               !.severity = IF \E s \in object.subs : s.downgradable
                                            THEN _max_severity(subs) ELSE @]
    IN  [diff EXCEPT !.structural = {Settled(object) : object \in @}]
=============================================================================
