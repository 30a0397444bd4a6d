-------------------------- MODULE KnowledgeBase ----------------------------
(* What a sync does to the knowledge base: the drift between a pinned and  *)
(* a new snapshot, the lineage re-derived or kept, the severities settled  *)
(* by it, the docs the contamination scan marks, and the machine docs      *)
(* rendered from it (lineage/scan.py, generator/, core/src/pipeline.ts).   *)
(*                                                                         *)
(* An object is named by its FQN <<system, schema, name>>.  A machine doc  *)
(* is named by its path: <<"object", fqn>>, <<"group", <<system, kind>>>>, *)
(* <<"schema", <<system, schema>>>> or <<"system", <<system>>>>; path      *)
(* mangling is taken to keep different names apart.                        *)
EXTENDS LineageGraph

CONSTANTS
    System, Class,   \* the configured systems, and "sql" or "api" for each
    Shape,           \* FQN -> the shapes the object can have in its source
    First,           \* FQN -> its shape at the start, or Absent
    Doc, Paper,      \* human docs: [system, declared, beside, status] of each
    Report, Backing, \* FQN of the report the gateway publishes, and of its sources
    MaxDdl,          \* bound on changes of the sources
    MaxCommit,       \* bound on human commits to the knowledge base
    Absent, None

VARIABLES
    live,      \* the sources: FQN -> shape or Absent
    ddl,       \* changes of the sources so far
    reading,   \* system -> the objects an introspection has listed, or None
    taken,     \* system -> the latest accepted snapshot
    gateway,   \* attestations of publishes (lineage_attestations)
    head,      \* knowledge base HEAD: [pins, graph, docs, tree]
    pr,        \* the open sync PR: [next, current], current while HEAD is its base; or None
    commits    \* human commits so far

vars == <<live, ddl, reading, taken, gateway, head, pr, commits>>

\* Finitely many systems and objects, each object named by a system, a schema and a name.
ASSUME NameAssumption ==
    /\ IsFiniteSet(System) /\ IsFiniteSet(DOMAIN Shape)
    /\ \A f \in DOMAIN Shape : f = <<f[1], f[2], f[3]>>

\* The connectors emit registered kinds, and definitions whose references all name their
\* schema, since the session's search_path is empty (postgres/catalog.py).
ASSUME ShapeAssumption ==
    \A f \in DOMAIN Shape : \A shape \in Shape[f] :
        /\ Registered(shape)
        /\ shape.kind \in DEFINED_KINDS /\ "definition" \in DOMAIN shape.stats =>
             LET reads == shape.stats["definition"].reads
             IN  IsFiniteSet(reads) /\ \A ref \in reads : ref = <<ref[1], ref[2]>> /\ ref[1] # ""

ASSUME FirstAssumption ==
    DOMAIN First = DOMAIN Shape /\ \A f \in DOMAIN Shape : First[f] \in Shape[f] \cup {Absent}

\* No status is the absence of one.
ASSUME NoneAssumption == None \notin {"verified", "stale", "contaminated"}

Objects(s) == {f \in DOMAIN Shape : f[1] = s}
-----------------------------------------------------------------------------
(* The sources and their capture *)

\* A source never has a view whose relations or columns are missing; relations
\* outside the captured schemas are not followed.
Sound(now) ==
    \A f \in DOMAIN now : (now[f] # Absent /\ now[f].kind \in DEFINED_KINDS) =>
        LET definition == now[f].stats["definition"]
            At(ref) == <<f[1], ref[1], ref[2]>>
        IN  /\ \A ref \in definition.reads : At(ref) \in DOMAIN now => now[At(ref)] # Absent
            /\ \A out \in DOMAIN definition.outputs : \A a \in definition.outputs[out] :
                 At(a[1]) \in DOMAIN now => a[2] \in DOMAIN now[At(a[1])].columns

\* A snapshot object.  The first query lists the objects with their definitions; columns,
\* keys and checks come from later ones, and what has gone by then has none of them.
Captured(f, listed, now) ==
    LET Later(part) == IF now = Absent THEN <<>> ELSE now[part]
        found == (DOMAIN listed.stats \ {"checks"}) \cup (DOMAIN Later("stats") \cap {"checks"})
        stats == [stat \in found |-> IF stat = "checks" THEN Later("stats")[stat] ELSE listed.stats[stat]]
        o == [kind |-> listed.kind, schema |-> f[2], name |-> f[3], columns |-> Later("columns"),
              keys |-> Later("keys"), stats |-> stats, description |-> listed.description]
    IN  [kind |-> o.kind, schema |-> o.schema, name |-> o.name, columns |-> o.columns,
         keys |-> o.keys, stats |-> o.stats, description |-> o.description,
         schema_hash |-> schema_hash(o)]

Capture(s, listed, now, day) ==
    [system |-> s, day |-> day,
     objects |-> {Captured(f, listed[f], now[f]) : f \in DOMAIN listed}]

Listed(s, now) == Restrict(now, {f \in Objects(s) : now[f] # Absent})
-----------------------------------------------------------------------------
(* Machine docs *)

ObjectPath(f) == <<"object", f>>
GroupPath(s, kind) == <<"group", <<s, kind>>>>
SystemOf(path) == path[2][1]

\* A human doc beside a machine doc is in the directory of its system.
ASSUME PaperAssumption ==
    \A d \in Doc : SystemOf(Paper[d].beside) \in System => SystemOf(Paper[d].beside) = Paper[d].system

Known(snapshot) == {o \in snapshot.objects : Registered(o)}
Kinds(snapshot) == {o.kind : o \in Known(snapshot)}
Schemas(snapshot) == {o.schema : o \in Known(snapshot)}

\* The machine docs a snapshot defines.
expected_docs(snapshot) ==
    LET s == snapshot.system
    IN  {<<"system", <<s>>>>} \cup
        IF Class[s] = "sql"
        THEN {ObjectPath(Fqn(s, o)) : o \in Known(snapshot)} \cup
             {<<"schema", <<s, schema>>>> : schema \in Schemas(snapshot)}
        ELSE {GroupPath(s, kind) : kind \in Kinds(snapshot)}

\* The objects a machine doc is about.
Members(snapshot, path) ==
    {o \in Known(snapshot) :
        CASE path[1] = "object" -> Fqn(snapshot.system, o) = path[2]
          [] path[1] = "group"  -> o.kind = path[2][2]
          [] path[1] = "schema" -> o.schema = path[2][2]
          [] path[1] = "system" -> TRUE}

\* The front-matter of a machine doc's human sibling: none, or one.
_human_info(docs, path) == {docs[d] : d \in {e \in Doc : Paper[e].beside = path}}
_status_cell(docs, path) == {fm.status : fm \in _human_info(docs, path)}

\* An object doc: the object, and the objects of its system whose keys refer to it.
_sql_object_context(snapshot, path) ==
    [object |-> Members(snapshot, path),
     referenced_by |-> {Identity(q) : q \in {o \in Known(snapshot) : \E k \in DOMAIN o.keys :
                            <<snapshot.system, o.keys[k][1], o.keys[k][2]>> = path[2]}}]

_group_context(snapshot, path) == Members(snapshot, path)

\* A schema's index: a row for each object, with its human doc's status.
_schema_index_context(snapshot, docs, path) ==
    {<<Identity(o), _status_cell(docs, ObjectPath(Fqn(snapshot.system, o)))>> :
        o \in Members(snapshot, path)}

\* A system's index: a row for each schema or kind group.
_system_index_context(snapshot, docs) ==
    LET s == snapshot.system
        Hot(o) == _human_info(docs, ObjectPath(Fqn(s, o))) # {}
        In(schema) == {o \in Known(snapshot) : o.schema = schema}
    IN  IF Class[s] = "sql"
        THEN {<<schema, Cardinality(In(schema)), Cardinality({o \in In(schema) : Hot(o)})>> :
                 schema \in Schemas(snapshot)}
        ELSE {<<kind, Cardinality({o \in Known(snapshot) : o.kind = kind}),
                _status_cell(docs, GroupPath(s, kind))>> : kind \in Kinds(snapshot)}

Body(snapshot, docs, path) ==
    CASE path[1] = "object" -> _sql_object_context(snapshot, path)
      [] path[1] = "group"  -> _group_context(snapshot, path)
      [] path[1] = "schema" -> _schema_index_context(snapshot, docs, path)
      [] path[1] = "system" -> _system_index_context(snapshot, docs)

\* The purpose slots of a machine doc, filled from the human docs beside what it lists.
_purpose_cell(snapshot, docs, path) ==
    LET listed == CASE path[1] = "schema" -> {ObjectPath(Fqn(snapshot.system, o)) : o \in Members(snapshot, path)}
                    [] path[1] = "system" -> {GroupPath(snapshot.system, kind) : kind \in Kinds(snapshot)}
                    [] OTHER -> {path}
    IN  {<<p, {fm.purpose : fm \in _human_info(docs, p)}>> : p \in listed}

\* The identity a machine doc's front-matter carries; an index names no object.
Roster(snapshot, path) ==
    IF path[1] \in {"object", "group"}
    THEN {<<Fqn(snapshot.system, o), o.schema_hash>> : o \in Members(snapshot, path)} ELSE {}

\* A doc keeps its date when nothing of it changed outside the purpose slots.
_write_machine(tree, path, new) ==
    LET Same(old) == old.roster = new.roster /\ old.body = new.body
    IN  IF path \in DOMAIN tree /\ Same(tree[path]) THEN [new EXCEPT !.day = tree[path].day] ELSE new

\* The docs of a rendered system after writing and pruning.
_render_system(snapshot, docs, tree) ==
    [p \in expected_docs(snapshot) |->
        _write_machine(tree, p, [roster |-> Roster(snapshot, p), body |-> Body(snapshot, docs, p),
                                 slots |-> _purpose_cell(snapshot, docs, p), day |-> snapshot.day])]

\* Machine files of systems that are not rendered are left alone.
_prune_system(tree, rendered) == {p \in DOMAIN tree : SystemOf(p) \notin rendered}

render_tree(snapshots, docs, tree) ==
    LET kept == _prune_system(tree, {s.system : s \in snapshots})
        new == [system \in {s.system : s \in snapshots} |->
                    _render_system(CHOOSE s \in snapshots : s.system = system, docs, tree)]
    IN  [p \in kept \cup UNION {expected_docs(s) : s \in snapshots} |->
            IF p \in kept THEN tree[p] ELSE new[SystemOf(p)][p]]

\* Provenance findings: machine docs missing, orphaned, or of another snapshot.
_cross_check(tree, pins) ==
    LET expected == UNION {expected_docs(pins[s]) : s \in System}
    IN  {<<"missing", p>> : p \in expected \ DOMAIN tree} \cup
        {<<"orphan", p>> : p \in DOMAIN tree \ expected} \cup
        {<<"provenance", p>> : p \in {q \in expected \cap DOMAIN tree :
                                        tree[q].roster # Roster(pins[SystemOf(q)], q)}}

\* Findings of a second render of the tree from its own pins: it must change nothing.
_check_render(tree, pins, docs) ==
    LET again == render_tree(Range(pins), docs, tree)
    IN  {<<"KB-8", p>> : p \in {q \in DOMAIN again \cap DOMAIN tree : again[q] # tree[q]}}

validate_tree(kb) == _cross_check(kb.tree, kb.pins) \cup _check_render(kb.tree, kb.pins, kb.docs)
-----------------------------------------------------------------------------
(* The contamination scan *)

DiffFqn(diff, i) == <<diff.system, i[2], i[3]>>

\* classify: the objects that are gone, or changed in a way that breaks.
Breaking(diffs) ==
    UNION {{DiffFqn(d, i) : i \in d.removed \cup
              {o.id : o \in {p \in d.structural : p.severity = "breaking"}}} : d \in diffs}

(* Mutant: changes that carry only a note are forgotten.                  *)
AdditiveWithoutNotes(diffs) ==
    UNION {{DiffFqn(d, o.id) : o \in {p \in d.structural : p.severity = "additive"}} : d \in diffs}

\* classify: the objects changed in a way that does not break.
Additive(diffs) ==
    UNION {{DiffFqn(d, o.id) : o \in {p \in d.structural : p.severity # "breaking"}} : d \in diffs}

\* What a doc declares, external entries excluded.
_dep_entries(d) == {e.object : e \in {x \in Paper[d].declared : ~x.external}}

\* A doc depends on what it declares and on the objects its machine sibling is about.
Deps(d, tree) ==
    _dep_entries(d) \cup
    IF Paper[d].beside \in DOMAIN tree THEN {r[1] : r \in tree[Paper[d].beside].roster} ELSE {}

Statusable(docs, d) == docs[d].status # None

\* Why the scan flags doc d: a breaking object and the hops from it to a dependency.
Reasons(d, kb, graph, breaking) ==
    {[object |-> f, hops |-> 0] : f \in breaking \cap Deps(d, kb.tree)} \cup
    UNION {LET walk == contamination_walk(graph, f)
           IN  {[object |-> f, hops |-> walk[g]] :
                  g \in {r \in DOMAIN walk \ {f} : \/ r \in Deps(d, kb.tree)
                                                   \/ graph.nodes[r] /\ Paper[d].beside = ObjectPath(r)}} :
           f \in breaking \cap DOMAIN graph.nodes}

\* The docs a scan marks: the contaminated with their shortest reason, and the stale.
scan(kb, graph, diffs) ==
    LET Why(d) == IF Statusable(kb.docs, d) THEN Reasons(d, kb, graph, Breaking(diffs)) ELSE {}
        bad == {d \in Doc : Why(d) # {}}
        Shortest(rs) == CHOOSE r \in rs : \A q \in rs : r.hops <= q.hops
    IN  [contaminated |-> [d \in bad |-> Shortest(Why(d))],
         stale |-> {d \in Doc \ bad : /\ kb.docs[d].status = "verified"
                                      /\ Deps(d, kb.tree) \cap Additive(diffs) # {}}]

\* The status line is replaced; the contamination is too, when the edit names one.
apply_instruction(doc, instruction) ==
    [doc EXCEPT !.status = instruction.status,
                !.contamination = IF instruction.contamination = None THEN @
                                  ELSE instruction.contamination]

\* Only docs with a status are marked, so no edit is refused, and all of them are made.
apply_all(docs, instructions) ==
    [d \in Doc |-> IF d \in DOMAIN instructions THEN apply_instruction(docs[d], instructions[d])
                                                ELSE docs[d]]
-----------------------------------------------------------------------------
(* The stages of a sync run *)

\* What the latest acceptances change against the pins at HEAD, per system.
Diffs == {diff_snapshots(head.pins[s], taken[s]) : s \in System}
Changed(diffs) == {d.system : d \in {e \in diffs : ~is_empty(e)}}

\* A publish whose edge the graph at HEAD does not have yet.
GatewayPending == \E a \in gateway : edge_id(a) \notin DOMAIN head.graph.edges

lineageRequired(diffs, graph) ==
    \E d \in diffs :
        \/ \E o \in d.structural : \E s \in o.subs : s.change = "definition_changed"
        \/ \E i \in d.added \cup d.removed :
              i[1] \in DEFINED_KINDS \/ DiffFqn(d, i) \in DOMAIN graph.nodes

\* Pins move with the systems that changed.
Pins(changed) == [s \in System |-> IF s \in changed THEN taken[s] ELSE head.pins[s]]

(* Mutant: only the systems that changed.                                 *)
RenderChanged(changed, result) == changed

\* The systems a run renders: those that changed, and those that own a marked doc.
RenderInputs(changed, result) ==
    changed \cup ({Paper[d].system : d \in DOMAIN result.contaminated \cup result.stale} \cap System)

\* Severities settled with the graph that was derived or kept, then the docs scanned.
Marks(diffs, graph) == scan(head, graph, {finalize_severity(d, head.graph, graph) : d \in diffs})

\* What a run with drift proposes: docs marked, then machine docs rendered.
Proposal(result, inputs, pins, graph) ==
    LET instructions ==
            [d \in DOMAIN result.contaminated \cup result.stale |->
                IF d \in result.stale THEN [status |-> "stale", contamination |-> None]
                ELSE [status |-> "contaminated", contamination |-> result.contaminated[d]]]
        docs == apply_all(head.docs, instructions)
    IN  [pins |-> pins, graph |-> graph, docs |-> docs, tree |-> render_tree(inputs, docs, head.tree)]

\* A run with drift opens a PR, closing the one before.  A definition that does not
\* parse and a second render that changes anything fail the run; a HEAD that moves
\* under it makes it start over.
SyncDrift ==
    \E diffs \in {Diffs} :
        LET changed == Changed(diffs)
            pins == Pins(changed)
            required == lineageRequired(diffs, head.graph) \/ GatewayPending
        IN  /\ changed # {}
            /\ required => Buildable(Range(pins))
            /\ \E graph \in {IF required THEN build_graph(Range(pins), gateway) ELSE head.graph} :
               \E result \in {Marks(diffs, graph)} :
               \E inputs \in {{pins[s] : s \in RenderInputs(changed, result)}} :
               \E next \in {Proposal(result, inputs, pins, graph)} :
                   /\ next.tree = render_tree(inputs, next.docs, next.tree)
                   /\ pr' = [current |-> TRUE, next |-> next]
            /\ UNCHANGED <<live, ddl, reading, taken, gateway, head, commits>>

\* Publishes alone regenerate the graph: nothing is scanned or rendered.
SyncGraph ==
    /\ GatewayPending
    /\ Changed(Diffs) = {}
    /\ Buildable(Range(head.pins))
    /\ pr' = [current |-> TRUE, next |-> [head EXCEPT !.graph = build_graph(Range(head.pins), gateway)]]
    /\ UNCHANGED <<live, ddl, reading, taken, gateway, head, commits>>
-----------------------------------------------------------------------------
(* Sources, publishes and people *)

Change(f) ==
    /\ ddl < MaxDdl
    /\ \E shape \in Shape[f] \cup {Absent} :
        /\ shape # live[f]
        /\ live' = [live EXCEPT ![f] = shape]
        /\ Sound(live')
    /\ ddl' = ddl + 1
    /\ UNCHANGED <<reading, taken, gateway, head, pr, commits>>

\* The date on a capture: two dates are enough to tell a doc that kept its own.
Today == Min({ddl, 1})

ListObjects(s) ==
    /\ reading[s] = None
    /\ reading' = [reading EXCEPT ![s] = Listed(s, live)]
    /\ UNCHANGED <<live, ddl, taken, gateway, head, pr, commits>>

\* The rest of the introspection, the delivery, and its acceptance.
Deliver(s) ==
    /\ reading[s] # None
    /\ LET document == Capture(s, reading[s], live, Today)
       IN  /\ accept(document)
           /\ taken' = [taken EXCEPT ![s] = document]
    /\ reading' = [reading EXCEPT ![s] = None]
    /\ UNCHANGED <<live, ddl, gateway, head, pr, commits>>

\* A report on object f: the gateway records whether HEAD knows the object.
Publish(f) ==
    LET known == \E o \in head.pins[f[1]].objects : Fqn(f[1], o) = f
        entry == [source |-> f, source_resolved |-> known, target |-> Report,
                  target_resolved |-> TRUE, operation |-> "ingest",
                  evidence |-> <<"pipeline-tool", "audit">>, columns |-> <<>>]
    IN  /\ entry \notin gateway
        /\ gateway' = {a \in gateway : edge_id(a) # edge_id(entry)} \cup {entry}
        /\ UNCHANGED <<live, ddl, reading, taken, head, pr, commits>>

HashOf(pins, f) == {o.schema_hash : o \in {p \in pins[f[1]].objects : Fqn(f[1], p) = f}}

\* The structure a doc is verified against, for the dependencies in a pinned system.
Against(d, kb) == [f \in {g \in Deps(d, kb.tree) : g[1] \in System} |-> HashOf(kb.pins, f)]

\* A person repairs, describes and verifies a doc; CI admits the commit with the indexes rendered.
Verify(d) ==
    /\ commits < MaxCommit
    /\ Statusable(head.docs, d) /\ head.docs[d].status # "verified"
    /\ \E docs \in {[head.docs EXCEPT ![d] = [status |-> "verified", contamination |-> None,
                                              purpose |-> "said", against |-> Against(d, head)]]} :
       \E kb \in {[head EXCEPT !.docs = docs, !.tree = render_tree(Range(head.pins), docs, @)]} :
           /\ validate_tree(kb) = {}
           /\ head' = kb
    /\ commits' = commits + 1
    /\ pr' = IF pr = None THEN None ELSE [pr EXCEPT !.current = FALSE]
    /\ UNCHANGED <<live, ddl, reading, taken, gateway>>

\* Only a PR that is up to date with HEAD merges.
Merge ==
    /\ pr # None /\ pr.current
    /\ head' = pr.next
    /\ pr' = None
    /\ UNCHANGED <<live, ddl, reading, taken, gateway, commits>>

KbInit ==
    LET pins == [s \in System |-> Capture(s, Listed(s, First), First, 0)]
        plain == [d \in Doc |-> [status |-> Paper[d].status, contamination |-> None,
                                purpose |-> "none", against |-> <<>>]]
        tree == render_tree(Range(pins), plain, <<>>)
        kb == [pins |-> pins, graph |-> build_graph(Range(pins), {}), docs |-> plain, tree |-> tree]
    IN  /\ live = First /\ ddl = 0 /\ commits = 0
        /\ reading = [s \in System |-> None]
        /\ taken = pins
        /\ gateway = {}
        /\ head = [kb EXCEPT !.docs = [d \in Doc |-> [plain[d] EXCEPT !.against = Against(d, kb)]]]
        /\ pr = None

KbNext ==
    \/ \E f \in DOMAIN Shape : Change(f)
    \/ \E f \in Backing : Publish(f)
    \/ \E s \in System : ListObjects(s) \/ Deliver(s)
    \/ SyncDrift \/ SyncGraph \/ Merge
    \/ \E d \in Doc : Verify(d)

KbSpec == KbInit /\ [][KbNext]_vars
-----------------------------------------------------------------------------
(* Properties *)

\* The stats of an object its hash covers, but for a view's definition.
Facts(o) ==
    Restrict(o.stats, (DOMAIN o.stats \cap KIND_REGISTRY[o.kind].included) \ {"definition"})

\* The definition of a view: none, or one; and the relations it draws on, with how.
Definition(o) ==
    IF o.kind \in DEFINED_KINDS /\ "definition" \in DOMAIN o.stats THEN {o.stats["definition"]} ELSE {}
Drawn(o) == UNION {{<<ref, _operation(d)>> : ref \in d.reads} : d \in Definition(o)}

\* The columns each of its sources gives to f, publishes left aside.
Lineage(graph, f) ==
    [id \in {e \in DOMAIN graph.edges : e[2] = f /\ e[3] # "ingest"} |-> graph.edges[id].columns]

\* A dependent of f, of any kind, can tell that f changed: f is gone, a column, key or
\* check it relied on is gone or different, or a view has another definition that draws on
\* other relations, or draws other columns than the lineage at HEAD has for it.
Contradicted(kb, new, f) ==
    LET o == CHOOSE p \in kb.pins[f[1]].objects : Fqn(f[1], p) = f
        Lost(was, is) == \E x \in DOMAIN was : x \notin DOMAIN is \/ was[x] # is[x]
        Bare(columns) == [c \in DOMAIN columns |-> <<columns[c].type, columns[c].ordinal>>]
        Redrawn(n) == \/ Drawn(o) # Drawn(n)
                      \/ /\ Definition(o) # Definition(n)
                         /\ Lineage(kb.graph, f) # Lineage(build_graph(Range(new), {}), f)
    IN  ~\E n \in new[f[1]].objects :
            /\ Identity(n) = Identity(o)
            /\ ~Lost(Bare(o.columns), Bare(n.columns)) /\ ~Lost(o.keys, n.keys)
            /\ Facts(o) = Facts(n)
            /\ ~Redrawn(n)

\* No sync PR lets a contradicted doc through (lineage/scan.py:249-269).  The scan walks
\* one graph, the new one or HEAD's when none was derived; yet a doc it leaves alone
\* depends on nothing downstream of a contradicted object, along the lineage as it was
\* before the change, as it is after, or a mix of both: some set of objects holds the
\* contradicted ones, is closed under these edges, and has no dependency of such a doc.
NoContaminationEscapes ==
    (pr # None /\ pr.current) =>
        LET old == build_graph(Range(head.pins),
                               {a \in gateway : edge_id(a) \in DOMAIN head.graph.edges})
            pinned == UNION {{Fqn(s, o) : o \in head.pins[s].objects} : s \in System}
            bad == {f \in pinned : Contradicted(head, pr.next.pins, f)}
            unmarked == {d \in Doc : /\ Statusable(head.docs, d)
                                     /\ pr.next.docs[d].status # "contaminated"}
            relied == UNION {Deps(d, head.tree) : d \in unmarked}
        IN  \E edges \in {DOMAIN old.edges \cup DOMAIN pr.next.graph.edges} :
            \E set \in SUBSET ((pinned \cup {e[2] : e \in edges}) \ relied) :
                bad \subseteq set /\ \A e \in edges : e[1] \in set => e[2] \in set

\* A verified doc at HEAD still describes the structure it was verified against
\* (lineage/scan.py:275-282, pipeline.ts stages 6 to 9): whatever runs, merges and repairs
\* happened since, every object it depended on then has the same hash in the pins now.
VerifiedIsCurrent ==
    \A d \in Doc : head.docs[d].status = "verified" =>
        \A f \in DOMAIN head.docs[d].against :
            head.docs[d].against[f] # {} => HashOf(head.pins, f) = head.docs[d].against[f]

\* The checks of KB CI (generator/validate.py:298-309) pass on every PR a sync opens: no
\* machine doc is missing, orphaned or of another snapshot, and rendering again changes
\* no byte, in the systems that changed and in those whose docs the scan marked.
PrPassesCI == pr # None => validate_tree(pr.next) = {}
=============================================================================
