------------------------ MODULE KnowledgeBaseProofs ------------------------
(***************************************************************************)
(* What holds of every knowledge base that syncs, merges and repairs lead  *)
(* to, for every set of sources and docs.                                  *)
(***************************************************************************)
EXTENDS KnowledgeBase, FiniteSetTheorems, WellFoundedInduction, TLAPS

-----------------------------------------------------------------------------
(* Rendering                                                               *)

(* What matters of a snapshot of system s.                                 *)
Snap(s, x) ==
    /\ x.system = s
    /\ IsFiniteSet(x.objects)
    /\ \A o \in x.objects :
         /\ Registered(o) /\ o.schema_hash = schema_hash(o)
         /\ o.kind \in DEFINED_KINDS /\ "definition" \in DOMAIN o.stats =>
              LET reads == o.stats["definition"].reads
              IN  IsFiniteSet(reads) /\ \A ref \in reads : ref = <<ref[1], ref[2]>> /\ ref[1] # ""
    /\ \A o, p \in x.objects : o.schema = p.schema /\ o.name = p.name => o = p

PinsOk(pins) == DOMAIN pins = System /\ \A s \in System : Snap(s, pins[s])

DocFields == {"status", "contamination", "purpose", "against"}
DocsOk(docs) == docs = [d \in Doc |-> docs[d]] /\ \A d \in Doc : DOMAIN docs[d] = DocFields

(* A machine doc as it is rendered, whatever its date.                     *)
Page(x, docs, p, day) ==
    [roster |-> Roster(x, p), body |-> Body(x, docs, p),
     slots |-> _purpose_cell(x, docs, p), day |-> day]

(* A tree with exactly the docs the pins define, each as it is rendered.   *)
Rendered(tree, pins, docs) ==
    /\ DOMAIN tree = UNION {expected_docs(pins[s]) : s \in System}
    /\ \A p \in DOMAIN tree : tree[p] = Page(pins[SystemOf(p)], docs, p, tree[p].day)

(* The docs of a system's snapshot are in the system's directory.          *)
LEMMA ExpectedIn ==
    ASSUME NEW x, NEW p \in expected_docs(x)
    PROVE  SystemOf(p) = x.system
BY DEF expected_docs, SystemOf, ObjectPath, GroupPath, Fqn

(* Writing a doc writes what was rendered, but perhaps for its date ...    *)
LEMMA WriteNew ==
    ASSUME NEW tree, NEW p, NEW x, NEW docs, NEW day
    PROVE  \E e : _write_machine(tree, p, Page(x, docs, p, day)) = Page(x, docs, p, e)
<1> DEFINE new == Page(x, docs, p, day)
<1>1. [new EXCEPT !.day = tree[p].day] = Page(x, docs, p, tree[p].day)
  BY DEF Page
<1> QED BY <1>1 DEF _write_machine

(* ... and a doc that is already so stays as it is.                        *)
LEMMA WriteSame ==
    ASSUME NEW tree, NEW p \in DOMAIN tree, NEW x, NEW docs, NEW day,
           tree[p] = Page(x, docs, p, tree[p].day)
    PROVE  _write_machine(tree, p, Page(x, docs, p, day)) = tree[p]
<1> DEFINE new == Page(x, docs, p, day)
<1>1. [new EXCEPT !.day = tree[p].day] = Page(x, docs, p, tree[p].day)
  BY DEF Page
<1>2. tree[p].roster = new.roster /\ tree[p].body = new.body
  <2> DEFINE e == tree[p].day
  <2>1. tree[p].roster = Page(x, docs, p, e).roster /\ tree[p].body = Page(x, docs, p, e).body
    OBVIOUS
  <2> HIDE DEF e
  <2> QED BY <2>1 DEF Page
<1> HIDE DEF new
<1>3. _write_machine(tree, p, new) = [new EXCEPT !.day = tree[p].day]
  BY <1>2 DEF _write_machine
<1> QED BY <1>1, <1>3 DEF new

(* The snapshots given to render_tree are those of the systems R.          *)
InputsOf(inputs, pins, R) == inputs = {pins[s] : s \in R}

(* What becomes of a tree, given the snapshots of the systems R.           *)
RenderOf(T, pins, R, docs, tree) ==
    /\ DOMAIN T = {p \in DOMAIN tree : SystemOf(p) \notin R}
                  \cup UNION {expected_docs(pins[s]) : s \in R}
    /\ \A p \in DOMAIN tree : SystemOf(p) \notin R => T[p] = tree[p]
    /\ \A s \in R : \A p \in expected_docs(pins[s]) :
         T[p] = _write_machine(tree, p, Page(pins[s], docs, p, pins[s].day))

LEMMA RenderTree ==
    ASSUME NEW pins, PinsOk(pins), NEW R \in SUBSET System, NEW docs, NEW tree, NEW inputs,
           InputsOf(inputs, pins, R)
    PROVE  RenderOf(render_tree(inputs, docs, tree), pins, R, docs, tree)
<1> DEFINE T == render_tree(inputs, docs, tree)
           kept == {p \in DOMAIN tree : SystemOf(p) \notin R}
           Pick(system) == CHOOSE x \in inputs : x.system = system
           new == [system \in R |-> _render_system(Pick(system), docs, tree)]
           all == kept \cup UNION {expected_docs(x) : x \in inputs}
<1>0. inputs = {pins[s] : s \in R} /\ \A s \in R : pins[s].system = s
  BY DEF PinsOk, Snap, InputsOf
<1>1. {x.system : x \in inputs} = R
  BY <1>0
<1>2. _prune_system(tree, R) = kept
  BY DEF _prune_system
<1>3. T = [p \in all |-> IF p \in kept THEN tree[p] ELSE new[SystemOf(p)][p]]
  <2> DEFINE sys == {x.system : x \in inputs}
             old == _prune_system(tree, sys)
             U == UNION {expected_docs(x) : x \in inputs}
             made == [system \in sys |-> _render_system(Pick(system), docs, tree)]
  <2>1. T = [p \in old \cup U |-> IF p \in old THEN tree[p] ELSE made[SystemOf(p)][p]]
    BY DEF render_tree
  <2>2. old = kept
    BY <1>1, <1>2
  <2>3. made = new
    BY <1>1
  <2> HIDE DEF old, made, new, kept, U, T
  <2>4. T = [p \in kept \cup U |-> IF p \in kept THEN tree[p] ELSE new[SystemOf(p)][p]]
    BY <2>1, <2>2, <2>3
  <2> QED BY <2>4 DEF U
<1>4. UNION {expected_docs(x) : x \in inputs} = UNION {expected_docs(pins[s]) : s \in R}
  BY <1>0
<1>5. ASSUME NEW s \in R PROVE Pick(s) = pins[s]
  <2>1. \A x \in inputs : x.system = s => x = pins[s]
    BY <1>0
  <2>2. pins[s] \in inputs /\ pins[s].system = s
    BY <1>0, <1>5
  <2> QED BY <2>1, <2>2
<1>6. ASSUME NEW s \in R, NEW p \in expected_docs(pins[s])
      PROVE  T[p] = _write_machine(tree, p, Page(pins[s], docs, p, pins[s].day))
  <2>1. SystemOf(p) = s
    BY <1>6, ExpectedIn DEF PinsOk, Snap
  <2>2. p \in all /\ p \notin kept
    BY <1>4, <1>6, <2>1
  <2>3. new[s] = _render_system(pins[s], docs, tree)
    BY <1>5
  <2>4. T[p] = _render_system(pins[s], docs, tree)[p]
    BY <1>3, <2>1, <2>2, <2>3
  <2>5. _render_system(pins[s], docs, tree)[p]
          = _write_machine(tree, p, Page(pins[s], docs, p, pins[s].day))
    BY DEF _render_system, Page
  <2> QED BY <2>4, <2>5
<1> HIDE DEF T
<1>7. DOMAIN T = kept \cup UNION {expected_docs(pins[s]) : s \in R}
  BY <1>3, <1>4
<1>8. ASSUME NEW p \in DOMAIN tree, SystemOf(p) \notin R PROVE T[p] = tree[p]
  BY <1>3, <1>8
<1> QED BY <1>6, <1>7, <1>8 DEF T, RenderOf

(* Machine docs show the status and purpose of docs of their own system.   *)
Looks(doc, also) == doc.status = also.status /\ doc.purpose = also.purpose

LEMMA PageSame ==
    ASSUME NEW x, NEW docs, NEW also,
           \A d \in Doc : SystemOf(Paper[d].beside) = x.system => Looks(docs[d], also[d]),
           NEW p \in expected_docs(x), NEW day
    PROVE  Page(x, docs, p, day) = Page(x, also, p, day)
<1>1. ASSUME NEW q, SystemOf(q) = x.system
      PROVE  /\ {fm.status : fm \in _human_info(docs, q)} = {fm.status : fm \in _human_info(also, q)}
             /\ {fm.purpose : fm \in _human_info(docs, q)} = {fm.purpose : fm \in _human_info(also, q)}
             /\ _human_info(docs, q) # {} <=> _human_info(also, q) # {}
  <2> DEFINE E == {e \in Doc : Paper[e].beside = q}
  <2>1. \A d \in E : docs[d].status = also[d].status /\ docs[d].purpose = also[d].purpose
    BY <1>1 DEF Looks
  <2>2. _human_info(docs, q) = {docs[d] : d \in E} /\ _human_info(also, q) = {also[d] : d \in E}
    BY DEF _human_info
  <2> HIDE DEF E
  <2> QED BY <2>1, <2>2
<1>2. ASSUME NEW q, SystemOf(q) = x.system
      PROVE  _status_cell(docs, q) = _status_cell(also, q)
  BY <1>1, <1>2 DEF _status_cell
<1>3. ASSUME NEW o PROVE SystemOf(ObjectPath(Fqn(x.system, o))) = x.system
  BY DEF SystemOf, ObjectPath, Fqn
<1>4. ASSUME NEW kind PROVE SystemOf(GroupPath(x.system, kind)) = x.system
  BY DEF SystemOf, GroupPath
<1>5. _schema_index_context(x, docs, p) = _schema_index_context(x, also, p)
  <2>1. \A o \in Members(x, p) :
           <<Identity(o), _status_cell(docs, ObjectPath(Fqn(x.system, o)))>>
             = <<Identity(o), _status_cell(also, ObjectPath(Fqn(x.system, o)))>>
    BY <1>2, <1>3
  <2> QED BY <2>1, Zenon DEF _schema_index_context
<1>6. _system_index_context(x, docs) = _system_index_context(x, also)
  <2> DEFINE In(schema) == {o \in Known(x) : o.schema = schema}
             Hot(ds, o) == _human_info(ds, ObjectPath(Fqn(x.system, o))) # {}
             Row(ds, schema) == <<schema, Cardinality(In(schema)),
                                  Cardinality({o \in In(schema) : Hot(ds, o)})>>
             Line(ds, kind) == <<kind, Cardinality({o \in Known(x) : o.kind = kind}),
                                 _status_cell(ds, GroupPath(x.system, kind))>>
  <2>1. \A o : Hot(docs, o) = Hot(also, o)
    BY <1>1, <1>3
  <2>2. ASSUME NEW schema PROVE Row(docs, schema) = Row(also, schema)
    <3> HIDE DEF Hot
    <3>1. {o \in In(schema) : Hot(docs, o)} = {o \in In(schema) : Hot(also, o)}
      BY <2>1
    <3> QED BY <3>1
  <2>3. ASSUME NEW kind PROVE Line(docs, kind) = Line(also, kind)
    BY <1>2, <1>4
  <2>4. \A ds : _system_index_context(x, ds) =
                  IF Class[x.system] = "sql" THEN {Row(ds, schema) : schema \in Schemas(x)}
                                             ELSE {Line(ds, kind) : kind \in Kinds(x)}
    BY Zenon DEF _system_index_context
  <2> HIDE DEF Row, Line
  <2>5. {Row(docs, schema) : schema \in Schemas(x)} = {Row(also, schema) : schema \in Schemas(x)}
    BY <2>2
  <2>6. {Line(docs, kind) : kind \in Kinds(x)} = {Line(also, kind) : kind \in Kinds(x)}
    BY <2>3
  <2> QED BY <2>4, <2>5, <2>6
<1>7. Body(x, docs, p) = Body(x, also, p)
  BY <1>5, <1>6 DEF Body
<1>8. _purpose_cell(x, docs, p) = _purpose_cell(x, also, p)
  <2> DEFINE listed == CASE p[1] = "schema" -> {ObjectPath(Fqn(x.system, o)) : o \in Members(x, p)}
                         [] p[1] = "system" -> {GroupPath(x.system, kind) : kind \in Kinds(x)}
                         [] OTHER -> {p}
             Cell(ds, q) == <<q, {fm.purpose : fm \in _human_info(ds, q)}>>
  <2>1. SystemOf(p) = x.system
    BY ExpectedIn
  <2>2. p[1] \in {"object", "group", "schema", "system"}
    BY DEF expected_docs, ObjectPath, GroupPath
  <2>3. \A q \in listed : SystemOf(q) = x.system
    <3>1. CASE p[1] = "schema"  BY <1>3, <3>1
    <3>2. CASE p[1] = "system"  BY <1>4, <3>2
    <3>3. CASE p[1] \notin {"schema", "system"}  BY <2>1, <3>3
    <3> QED BY <3>1, <3>2, <3>3
  <2>4. \A ds : _purpose_cell(x, ds, p) = {Cell(ds, q) : q \in listed}
    BY Zenon DEF _purpose_cell
  <2> HIDE DEF listed
  <2>5. \A q \in listed : Cell(docs, q) = Cell(also, q)
    BY <1>1, <2>3
  <2> HIDE DEF Cell
  <2> QED BY <2>4, <2>5
<1> QED BY <1>7, <1>8 DEF Page

(* A tree that is rendered passes the checks of CI.                        *)
LEMMA RenderedPasses ==
    ASSUME NEW kb, PinsOk(kb.pins), Rendered(kb.tree, kb.pins, kb.docs)
    PROVE  validate_tree(kb) = {}
<1> DEFINE pins == kb.pins
           tree == kb.tree
           docs == kb.docs
           again == render_tree(Range(pins), docs, tree)
<1>1. InputsOf(Range(pins), pins, System)
  BY DEF Range, PinsOk, InputsOf
<1>2. ASSUME NEW p \in DOMAIN tree
      PROVE  \E s \in System : SystemOf(p) = s /\ p \in expected_docs(pins[s])
  <2>1. PICK s \in System : p \in expected_docs(pins[s])
    BY <1>2 DEF Rendered
  <2>2. SystemOf(p) = s
    BY <2>1, ExpectedIn DEF PinsOk, Snap
  <2> QED BY <2>1, <2>2
<1>3. ASSUME NEW p \in DOMAIN tree
      PROVE  again[p] = tree[p]
  <2>1. PICK s \in System : SystemOf(p) = s /\ p \in expected_docs(pins[s])
    BY <1>2, <1>3
  <2>2. again[p] = _write_machine(tree, p, Page(pins[s], docs, p, pins[s].day))
    <3>1. RenderOf(again, pins, System, docs, tree)
      BY <1>1, RenderTree
    <3> QED BY <2>1, <3>1 DEF RenderOf
  <2>3. tree[p] = Page(pins[s], docs, p, tree[p].day)
    BY <1>3, <2>1 DEF Rendered
  <2> QED BY <1>3, <2>2, <2>3, WriteSame
<1>4. _check_render(tree, pins, docs) = {}
  BY <1>3 DEF _check_render
<1>5. _cross_check(tree, pins) = {}
  <2>1. \A p \in DOMAIN tree : tree[p].roster = Roster(pins[SystemOf(p)], p)
    <3> SUFFICES ASSUME NEW p \in DOMAIN tree
                 PROVE  tree[p].roster = Roster(pins[SystemOf(p)], p)
      OBVIOUS
    <3> DEFINE day == tree[p].day
    <3>1. tree[p] = Page(pins[SystemOf(p)], docs, p, day)
      BY DEF Rendered
    <3> HIDE DEF day
    <3> QED BY <3>1 DEF Page
  <2> QED BY <2>1 DEF _cross_check, Rendered
<1> QED BY <1>4, <1>5 DEF validate_tree

(* Rendering some systems over a rendered tree renders it again, if the    *)
(* snapshots and the docs of the others are as they were.                  *)
LEMMA RenderAgain ==
    ASSUME NEW old, PinsOk(old), NEW pins, PinsOk(pins), NEW R \in SUBSET System,
           NEW docs, NEW also, NEW tree, Rendered(tree, old, docs),
           \A s \in System \ R : pins[s] = old[s],
           \A d \in Doc : SystemOf(Paper[d].beside) \in System \ R => docs[d] = also[d],
           NEW inputs, InputsOf(inputs, pins, R)
    PROVE  Rendered(render_tree(inputs, also, tree), pins, also)
<1> DEFINE T == render_tree(inputs, also, tree)
           kept == {p \in DOMAIN tree : SystemOf(p) \notin R}
<1>1. /\ DOMAIN T = kept \cup UNION {expected_docs(pins[s]) : s \in R}
      /\ \A p \in DOMAIN tree : SystemOf(p) \notin R => T[p] = tree[p]
      /\ \A s \in R : \A p \in expected_docs(pins[s]) :
           T[p] = _write_machine(tree, p, Page(pins[s], also, p, pins[s].day))
  <2>1. RenderOf(T, pins, R, also, tree)
    BY RenderTree
  <2> QED BY <2>1 DEF RenderOf
<1> HIDE DEF T
<1>2. \A s \in System : pins[s].system = s /\ old[s].system = s
  BY DEF PinsOk, Snap
<1>3. \A s \in System : \A p \in expected_docs(pins[s]) : SystemOf(p) = s
  BY <1>2, ExpectedIn
<1>4. \A s \in System : \A p \in expected_docs(old[s]) : SystemOf(p) = s
  BY <1>2, ExpectedIn
<1>5. DOMAIN tree = UNION {expected_docs(old[s]) : s \in System}
  BY DEF Rendered
<1>6. kept = UNION {expected_docs(pins[s]) : s \in System \ R}
  BY <1>3, <1>4, <1>5
<1>7. DOMAIN T = UNION {expected_docs(pins[s]) : s \in System}
  BY <1>1, <1>6
<1>8. ASSUME NEW s \in R, NEW p \in expected_docs(pins[s])
      PROVE  T[p] = Page(pins[SystemOf(p)], also, p, T[p].day)
  <2>1. PICK e : T[p] = Page(pins[s], also, p, e)
    BY <1>1, WriteNew
  <2>2. T[p].day = e
    BY <2>1 DEF Page
  <2>3. SystemOf(p) = s
    BY <1>3
  <2> QED BY <2>1, <2>2, <2>3
<1>9. ASSUME NEW s \in System \ R, NEW p \in expected_docs(pins[s])
      PROVE  T[p] = Page(pins[SystemOf(p)], also, p, T[p].day)
  <2>1. SystemOf(p) = s /\ p \in kept
    BY <1>3, <1>6, <1>9
  <2>2. T[p] = tree[p]
    BY <1>1, <2>1
  <2>3. tree[p] = Page(old[s], docs, p, tree[p].day)
    BY <2>1 DEF Rendered
  <2>4. Page(old[s], docs, p, tree[p].day) = Page(old[s], also, p, tree[p].day)
    <3>1. p \in expected_docs(old[s]) /\ old[s].system = s
      BY <1>2, <1>9
    <3>2. \A d \in Doc : SystemOf(Paper[d].beside) = old[s].system => docs[d] = also[d]
      BY <1>9, <3>1
    <3>3. \A d \in Doc : SystemOf(Paper[d].beside) = old[s].system => Looks(docs[d], also[d])
      BY <3>2 DEF Looks
    <3> QED BY <3>1, <3>3, PageSame
  <2> QED BY <2>1, <2>2, <2>3, <2>4
<1> QED BY <1>7, <1>8, <1>9 DEF Rendered, T

-----------------------------------------------------------------------------
(* Capturing                                                               *)

(* A function has a finite set of values over a finite set.                *)
LEMMA FiniteImage ==
    ASSUME NEW S, IsFiniteSet(S), NEW g
    PROVE  IsFiniteSet({g[x] : x \in S})
<1> DEFINE h == [x \in S |-> g[x]]
<1>1. h \in Surjection(S, {g[x] : x \in S})
  BY DEF Surjection
<1> QED BY <1>1, FS_Surjection

(* Listed objects have the shapes their sources can have.                  *)
ListedOk(s, listed) ==
    DOMAIN listed \subseteq Objects(s) /\ \A f \in DOMAIN listed : listed[f] \in Shape[f]

LEMMA ListedIsOk ==
    ASSUME NEW s, NEW now, \A f \in DOMAIN Shape : now[f] \in Shape[f] \cup {Absent}
    PROVE  ListedOk(s, Listed(s, now))
BY DEF ListedOk, Listed, Objects, Restrict

(* An object keeps the name it is listed by, and its definition.           *)
LEMMA CapturedObject ==
    ASSUME NEW f \in DOMAIN Shape, NEW listed \in Shape[f], NEW now
    PROVE  LET o == Captured(f, listed, now) IN
           /\ o.schema = f[2] /\ o.name = f[3] /\ Registered(o) /\ o.schema_hash = schema_hash(o)
           /\ o.kind \in DEFINED_KINDS /\ "definition" \in DOMAIN o.stats =>
                LET reads == o.stats["definition"].reads
                IN  IsFiniteSet(reads) /\ \A ref \in reads : ref = <<ref[1], ref[2]>> /\ ref[1] # ""
<1> DEFINE Later(part) == IF now = Absent THEN <<>> ELSE now[part]
           found == (DOMAIN listed.stats \ {"checks"}) \cup (DOMAIN Later("stats") \cap {"checks"})
           stats == [stat \in found |-> IF stat = "checks" THEN Later("stats")[stat] ELSE listed.stats[stat]]
           b == [kind |-> listed.kind, schema |-> f[2], name |-> f[3], columns |-> Later("columns"),
                 keys |-> Later("keys"), stats |-> stats, description |-> listed.description]
           o == Captured(f, listed, now)
<1>1. o = [kind |-> b.kind, schema |-> b.schema, name |-> b.name, columns |-> b.columns,
           keys |-> b.keys, stats |-> b.stats, description |-> b.description,
           schema_hash |-> schema_hash(b)]
  BY Zenon DEF Captured
<1>4. "definition" \in DOMAIN stats =>
         "definition" \in DOMAIN listed.stats /\ stats["definition"] = listed.stats["definition"]
  OBVIOUS
<1> HIDE DEF stats, Later
<1>5. /\ o.kind = listed.kind /\ o.schema = f[2] /\ o.name = f[3] /\ o.stats = stats
      /\ o.columns = b.columns /\ o.keys = b.keys
  BY <1>1
<1>6. o.schema_hash = schema_hash(o)
  <2>1. o.schema_hash = schema_hash(b)
    BY <1>1
  <2>2. b.kind = listed.kind /\ b.schema = f[2] /\ b.name = f[3] /\ b.stats = stats
    OBVIOUS
  <2> HIDE DEF b, o
  <2> QED BY <1>5, <2>1, <2>2 DEF schema_hash, structural_projection, Identity
<1>7. Registered(o)
  BY <1>5, ShapeAssumption DEF Registered
<1>8. o.kind \in DEFINED_KINDS /\ "definition" \in DOMAIN o.stats =>
        LET reads == o.stats["definition"].reads
        IN  IsFiniteSet(reads) /\ \A ref \in reads : ref = <<ref[1], ref[2]>> /\ ref[1] # ""
  BY <1>4, <1>5, ShapeAssumption
<1> QED BY <1>5, <1>6, <1>7, <1>8

(* A capture is a snapshot of its system.                                  *)
LEMMA CaptureIsSnap ==
    ASSUME NEW s, NEW listed, ListedOk(s, listed), NEW now, NEW day
    PROVE  Snap(s, Capture(s, listed, now, day))
<1> DEFINE x == Capture(s, listed, now, day)
           g == [f \in DOMAIN listed |-> Captured(f, listed[f], now[f])]
<1>1. x.system = s /\ x.objects = {Captured(f, listed[f], now[f]) : f \in DOMAIN listed}
  BY DEF Capture
<1>2. IsFiniteSet(x.objects)
  <2>1. IsFiniteSet(DOMAIN listed)
    BY FS_Subset, NameAssumption DEF ListedOk, Objects
  <2>2. x.objects = {g[f] : f \in DOMAIN listed}
    BY <1>1
  <2> HIDE DEF g, x
  <2> QED BY <2>1, <2>2, FiniteImage
<1> HIDE DEF x
<1>3. ASSUME NEW f \in DOMAIN listed
      PROVE  f \in DOMAIN Shape /\ f = <<s, f[2], f[3]>> /\ listed[f] \in Shape[f]
  BY NameAssumption DEF ListedOk, Objects
<1>4. ASSUME NEW o \in x.objects
      PROVE  /\ Registered(o) /\ o.schema_hash = schema_hash(o)
             /\ o.kind \in DEFINED_KINDS /\ "definition" \in DOMAIN o.stats =>
                  LET reads == o.stats["definition"].reads
                  IN  IsFiniteSet(reads) /\ \A ref \in reads : ref = <<ref[1], ref[2]>> /\ ref[1] # ""
  <2>1. PICK f \in DOMAIN listed : o = Captured(f, listed[f], now[f])
    BY <1>1, <1>4
  <2> DEFINE was == listed[f]
             is == now[f]
  <2>2. f \in DOMAIN Shape /\ was \in Shape[f]
    BY <1>3
  <2>3. o = Captured(f, was, is)
    BY <2>1
  <2> HIDE DEF was, is
  <2> QED BY <2>2, <2>3, CapturedObject
<1>5. ASSUME NEW o \in x.objects, NEW p \in x.objects, o.schema = p.schema, o.name = p.name
      PROVE  o = p
  <2>1. PICK f \in DOMAIN listed : o = Captured(f, listed[f], now[f])
    BY <1>1, <1>5
  <2>2. PICK h \in DOMAIN listed : p = Captured(h, listed[h], now[h])
    BY <1>1, <1>5
  <2>3. o.schema = f[2] /\ o.name = f[3]
    BY <1>3, <2>1, CapturedObject
  <2>4. p.schema = h[2] /\ p.name = h[3]
    BY <1>3, <2>2, CapturedObject
  <2>5. f = h
    BY <1>3, <1>5, <2>3, <2>4
  <2> QED BY <2>1, <2>2, <2>5
<1> QED BY <1>1, <1>2, <1>4, <1>5 DEF Snap, x

-----------------------------------------------------------------------------
(* Diffs                                                                   *)

(* The entry of a diff for an object whose hash changed.                   *)
Entry(o, n) ==
    [id |-> Identity(o), class |-> "structural",
     severity |-> IF SubDiffs(o, n) = {} THEN "breaking" ELSE _max_severity(SubDiffs(o, n)),
     subs |-> SubDiffs(o, n)]

Matched(old, new, o, n) == o \in old.objects /\ n \in new.objects /\ Identity(o) = Identity(n)

(* What a diff is made of.                                                 *)
DiffOf(D, old, new) ==
    /\ DOMAIN D = {"system", "added", "removed", "structural", "metadata"}
    /\ D.system = old.system
    /\ \A o \in old.objects : (\A n \in new.objects : Identity(n) # Identity(o)) =>
           Identity(o) \in D.removed
    /\ \A n \in new.objects : (\A o \in old.objects : Identity(n) # Identity(o)) =>
           Identity(n) \in D.added
    /\ \A o, n : Matched(old, new, o, n) /\ o.schema_hash # n.schema_hash =>
           Entry(o, n) \in D.structural
    /\ \A x \in D.structural : \E o, n :
           Matched(old, new, o, n) /\ o.schema_hash # n.schema_hash /\ x = Entry(o, n)

LEMMA ObjectDiff ==
    ASSUME NEW o, NEW n
    PROVE  IF o.schema_hash # n.schema_hash THEN diff_object(o, n) = Entry(o, n)
                                            ELSE diff_object(o, n).class # "structural"
<1>1. CASE o.schema_hash # n.schema_hash
  BY <1>1 DEF diff_object, Entry
<1>2. CASE o.schema_hash = n.schema_hash
  <2>1. CASE o # n
    <3>1. diff_object(o, n).class = "metadata"
      BY <1>2, <2>1 DEF diff_object
    <3> QED BY <1>2, <3>1
  <2>2. CASE o = n
    <3>1. diff_object(o, n).class = "unchanged"
      BY <1>2, <2>2 DEF diff_object
    <3> QED BY <1>2, <3>1
  <2> QED BY <2>1, <2>2
<1> QED BY <1>1, <1>2

LEMMA DiffIs ==
    ASSUME NEW s, NEW old, Snap(s, old), NEW new, Snap(s, new)
    PROVE  DiffOf(diff_snapshots(old, new), old, new)
<1> DEFINE D == diff_snapshots(old, new)
           pairs == {q \in old.objects \X new.objects : Identity(q[1]) = Identity(q[2])}
           both == {diff_object(p[1], p[2]) : p \in pairs}
           Ids(objects) == {Identity(p) : p \in objects}
<1>1. _index_objects(old) = old.objects /\ _index_objects(new) = new.objects
  BY DEF _index_objects, Snap
<1>2. D = [system |-> old.system, added |-> Ids(new.objects) \ Ids(old.objects),
           removed |-> Ids(old.objects) \ Ids(new.objects),
           structural |-> {d \in both : d.class = "structural"},
           metadata |-> {d \in both : d.class = "metadata"}]
  <2> DEFINE oo == _index_objects(old)
             nn == _index_objects(new)
             B(a, b) == {diff_object(p[1], p[2]) : p \in {q \in a \X b : Identity(q[1]) = Identity(q[2])}}
  <2>1. D = [system |-> old.system, added |-> Ids(nn) \ Ids(oo), removed |-> Ids(oo) \ Ids(nn),
             structural |-> {d \in B(oo, nn) : d.class = "structural"},
             metadata |-> {d \in B(oo, nn) : d.class = "metadata"}]
    BY Zenon DEF diff_snapshots
  <2>2. oo = old.objects /\ nn = new.objects
    BY <1>1
  <2> HIDE DEF oo, nn, B, Ids, D
  <2>3. D = [system |-> old.system, added |-> Ids(new.objects) \ Ids(old.objects),
             removed |-> Ids(old.objects) \ Ids(new.objects),
             structural |-> {d \in B(old.objects, new.objects) : d.class = "structural"},
             metadata |-> {d \in B(old.objects, new.objects) : d.class = "metadata"}]
    BY <2>1, <2>2
  <2> QED BY <2>3 DEF B
<1> HIDE DEF D
<1>3. ASSUME NEW o, NEW n, Matched(old, new, o, n), o.schema_hash # n.schema_hash
      PROVE  Entry(o, n) \in D.structural
  <2>1. <<o, n>> \in pairs
    BY <1>3 DEF Matched
  <2>2. diff_object(o, n) \in both
    BY <2>1
  <2>3. diff_object(o, n) = Entry(o, n)
    BY <1>3, ObjectDiff
  <2>4. Entry(o, n).class = "structural"
    BY DEF Entry
  <2> HIDE DEF both
  <2> QED BY <1>2, <2>2, <2>3, <2>4
<1>4. ASSUME NEW x \in D.structural
      PROVE  \E o, n : Matched(old, new, o, n) /\ o.schema_hash # n.schema_hash /\ x = Entry(o, n)
  <2>1. x \in both /\ x.class = "structural"
    BY <1>2, <1>4
  <2>2. PICK p \in pairs : x = diff_object(p[1], p[2])
    BY <2>1
  <2>3. Matched(old, new, p[1], p[2])
    BY <2>2 DEF Matched
  <2>4. p[1].schema_hash # p[2].schema_hash /\ x = Entry(p[1], p[2])
    BY <2>1, <2>2, ObjectDiff
  <2> QED BY <2>3, <2>4
<1>5. /\ DOMAIN D = {"system", "added", "removed", "structural", "metadata"}
      /\ D.system = old.system
      /\ D.added = Ids(new.objects) \ Ids(old.objects)
      /\ D.removed = Ids(old.objects) \ Ids(new.objects)
  BY <1>2
<1> QED BY <1>3, <1>4, <1>5 DEF DiffOf, D

(* Severities are settled by the graphs, entry by entry.                   *)
Untouched(system, g0, g1, x) ==
    LET f == <<system, x.id[2], x.id[3]>>
    IN  /\ ~\E s \in x.subs : s.change \in _COLUMN_SHAPING
        /\ _incoming(g0, f) = _incoming(g1, f)

SettledSub(kept, s) ==
    IF s.downgradable /\ kept THEN [s EXCEPT !.severity = "note", !.downgradable = FALSE]
                              ELSE [s EXCEPT !.downgradable = FALSE]

Settle(kept, x) ==
    LET subs == {SettledSub(kept, s) : s \in x.subs}
    IN  [x EXCEPT !.subs = subs,
                  !.severity = IF \E s \in x.subs : s.downgradable THEN _max_severity(subs) ELSE @]

LEMMA FinalizeIs ==
    ASSUME NEW D, NEW g0, NEW g1
    PROVE  finalize_severity(D, g0, g1) =
             [D EXCEPT !.structural = {Settle(Untouched(D.system, g0, g1, x), x) : x \in @}]
BY Zenon DEF finalize_severity, Settle, SettledSub, Untouched

(* What a settled diff has of the objects that are gone or changed.        *)
FinalOf(F, s, old, new, g0, g1) ==
    /\ F.system = s
    /\ \A o \in old.objects : (\A n \in new.objects : Identity(n) # Identity(o)) =>
           Identity(o) \in F.removed
    /\ \A o, n : Matched(old, new, o, n) /\ o.schema_hash # n.schema_hash =>
           Settle(Untouched(s, g0, g1, Entry(o, n)), Entry(o, n)) \in F.structural

LEMMA FinalIs ==
    ASSUME NEW s, NEW old, Snap(s, old), NEW new, Snap(s, new), NEW g0, NEW g1
    PROVE  FinalOf(finalize_severity(diff_snapshots(old, new), g0, g1), s, old, new, g0, g1)
<1> DEFINE D == diff_snapshots(old, new)
           F == finalize_severity(D, g0, g1)
<1>1. DiffOf(D, old, new)
  BY DiffIs
<1> HIDE DEF D
<1>2. F = [D EXCEPT !.structural = {Settle(Untouched(D.system, g0, g1, x), x) : x \in @}]
  BY FinalizeIs
<1> HIDE DEF F
<1>3. D.system = s /\ DOMAIN D = {"system", "added", "removed", "structural", "metadata"}
  BY <1>1 DEF DiffOf, Snap
<1>4. /\ F.system = s /\ F.removed = D.removed
      /\ F.structural = {Settle(Untouched(D.system, g0, g1, x), x) : x \in D.structural}
  BY <1>2, <1>3
<1>5. \A x \in D.structural : Settle(Untouched(s, g0, g1, x), x) \in F.structural
  BY <1>3, <1>4
<1>6. FinalOf(F, s, old, new, g0, g1)
  BY <1>1, <1>4, <1>5 DEF DiffOf, FinalOf
<1> QED BY <1>6 DEF F, D

LEMMA SettleKeepsId ==
    ASSUME NEW kept, NEW o, NEW n
    PROVE  Settle(kept, Entry(o, n)).id = Identity(o)
BY DEF Settle, Entry

(* The diffs a run settles, against the graph it derived or kept.          *)
Finals(graph) == {finalize_severity(d, head.graph, graph) : d \in Diffs}

LEMMA FinalsHave ==
    ASSUME PinsOk(head.pins), PinsOk(taken), NEW s \in System, NEW graph
    PROVE  \E F \in Finals(graph) : FinalOf(F, s, head.pins[s], taken[s], head.graph, graph)
<1>1. Snap(s, head.pins[s]) /\ Snap(s, taken[s])
  BY DEF PinsOk
<1>2. FinalOf(finalize_severity(diff_snapshots(head.pins[s], taken[s]), head.graph, graph),
              s, head.pins[s], taken[s], head.graph, graph)
  BY <1>1, FinalIs
<1>3. finalize_severity(diff_snapshots(head.pins[s], taken[s]), head.graph, graph) \in Finals(graph)
  BY DEF Finals, Diffs
<1> QED BY <1>2, <1>3

(* An object that is gone breaks ...                                       *)
LEMMA GoneBreaks ==
    ASSUME PinsOk(head.pins), PinsOk(taken), NEW s \in System, NEW graph,
           NEW o \in head.pins[s].objects, \A n \in taken[s].objects : Identity(n) # Identity(o)
    PROVE  Fqn(s, o) \in Breaking(Finals(graph))
<1>1. PICK F \in Finals(graph) : FinalOf(F, s, head.pins[s], taken[s], head.graph, graph)
  BY FinalsHave
<1>2. Identity(o) \in F.removed /\ F.system = s
  BY <1>1 DEF FinalOf
<1>3. DiffFqn(F, Identity(o)) = Fqn(s, o)
  BY <1>2 DEF DiffFqn, Identity, Fqn
<1> QED BY <1>2, <1>3 DEF Breaking

(* ... and one whose hash changed is noticed, by its severity.             *)
LEMMA ChangeNoticed ==
    ASSUME PinsOk(head.pins), PinsOk(taken), NEW s \in System, NEW graph,
           NEW o, NEW n, Matched(head.pins[s], taken[s], o, n), o.schema_hash # n.schema_hash
    PROVE  LET e == Entry(o, n)
               x == Settle(Untouched(s, head.graph, graph, e), e)
           IN  IF x.severity = "breaking" THEN Fqn(s, o) \in Breaking(Finals(graph))
                                          ELSE Fqn(s, o) \in Additive(Finals(graph))
<1> DEFINE e == Entry(o, n)
           x == Settle(Untouched(s, head.graph, graph, e), e)
<1>1. PICK F \in Finals(graph) : FinalOf(F, s, head.pins[s], taken[s], head.graph, graph)
  BY FinalsHave
<1>2. x \in F.structural /\ F.system = s
  BY <1>1 DEF FinalOf
<1>3. x.id = Identity(o)
  BY SettleKeepsId
<1> HIDE DEF x
<1>4. DiffFqn(F, x.id) = Fqn(s, o)
  BY <1>2, <1>3 DEF DiffFqn, Identity, Fqn
<1>5. ASSUME x.severity = "breaking" PROVE Fqn(s, o) \in Breaking(Finals(graph))
  <2> DEFINE ids == F.removed \cup {p.id : p \in {q \in F.structural : q.severity = "breaking"}}
  <2>1. x.id \in ids
    BY <1>2, <1>5
  <2>2. Fqn(s, o) \in {DiffFqn(F, i) : i \in ids}
    BY <1>4, <2>1
  <2> QED BY <1>5, <2>2 DEF Breaking
<1>6. ASSUME x.severity # "breaking" PROVE Fqn(s, o) \in Additive(Finals(graph))
  <2>1. Fqn(s, o) \in {DiffFqn(F, p.id) : p \in {q \in F.structural : q.severity # "breaking"}}
    BY <1>2, <1>4, <1>6
  <2> QED BY <1>6, <2>1 DEF Additive
<1> QED BY <1>5, <1>6 DEF x

LEMMA ChangeSeen ==
    ASSUME PinsOk(head.pins), PinsOk(taken), NEW s \in System, NEW graph,
           NEW o, NEW n, Matched(head.pins[s], taken[s], o, n), o.schema_hash # n.schema_hash
    PROVE  Fqn(s, o) \in Breaking(Finals(graph)) \cup Additive(Finals(graph))
BY ChangeNoticed

-----------------------------------------------------------------------------
(* Marking                                                                 *)

(* Which docs a scan marks.                                                *)
ScanOf(r, kb, graph, diffs) ==
    /\ DOMAIN r.contaminated =
         {d \in Doc : Statusable(kb.docs, d) /\ Reasons(d, kb, graph, Breaking(diffs)) # {}}
    /\ r.stale = {d \in Doc \ DOMAIN r.contaminated :
                    kb.docs[d].status = "verified" /\ Deps(d, kb.tree) \cap Additive(diffs) # {}}

LEMMA ScanIs ==
    ASSUME NEW kb, NEW graph, NEW diffs
    PROVE  ScanOf(scan(kb, graph, diffs), kb, graph, diffs)
<1> DEFINE Why(d) == IF Statusable(kb.docs, d) THEN Reasons(d, kb, graph, Breaking(diffs)) ELSE {}
           bad == {d \in Doc : Why(d) # {}}
           Shortest(rs) == CHOOSE r \in rs : \A q \in rs : r.hops <= q.hops
           r == scan(kb, graph, diffs)
<1>1. r = [contaminated |-> [d \in bad |-> Shortest(Why(d))],
           stale |-> {d \in Doc \ bad : /\ kb.docs[d].status = "verified"
                                        /\ Deps(d, kb.tree) \cap Additive(diffs) # {}}]
  BY Zenon DEF scan
<1>2. bad = {d \in Doc : Statusable(kb.docs, d) /\ Reasons(d, kb, graph, Breaking(diffs)) # {}}
  OBVIOUS
<1> HIDE DEF bad, Why, Shortest, r
<1>3. DOMAIN r.contaminated = bad
  BY <1>1
<1>4. r.stale = {d \in Doc \ bad : /\ kb.docs[d].status = "verified"
                                   /\ Deps(d, kb.tree) \cap Additive(diffs) # {}}
  BY <1>1
<1> QED BY <1>2, <1>3, <1>4 DEF ScanOf, r

(* A doc that depends on something that breaks is contaminated.            *)
LEMMA BreakingMarks ==
    ASSUME NEW r, NEW kb, NEW graph, NEW diffs, ScanOf(r, kb, graph, diffs),
           NEW d \in Doc, Statusable(kb.docs, d), NEW f \in Deps(d, kb.tree), f \in Breaking(diffs)
    PROVE  d \in DOMAIN r.contaminated
<1>1. [object |-> f, hops |-> 0] \in Reasons(d, kb, graph, Breaking(diffs))
  BY DEF Reasons
<1> QED BY <1>1 DEF ScanOf

(* What a run proposes for the docs.                                       *)
ProposedDocs(docs, r) ==
    /\ DocsOk(docs)
    /\ \A d \in Doc : IF d \in DOMAIN r.contaminated THEN docs[d].status = "contaminated"
                      ELSE IF d \in r.stale THEN docs[d].status = "stale"
                      ELSE docs[d] = head.docs[d]

LEMMA ProposalIs ==
    ASSUME DocsOk(head.docs), NEW graph, NEW diffs, NEW r, ScanOf(r, head, graph, diffs),
           NEW inputs, NEW pins, NEW g
    PROVE  LET next == Proposal(r, inputs, pins, g) IN
           /\ DOMAIN next = {"pins", "graph", "docs", "tree"}
           /\ next.pins = pins /\ next.graph = g
           /\ next.tree = render_tree(inputs, next.docs, head.tree)
           /\ ProposedDocs(next.docs, r)
<1> DEFINE marked == DOMAIN r.contaminated \cup r.stale
           ins == [d \in marked |->
                     IF d \in r.stale THEN [status |-> "stale", contamination |-> None]
                     ELSE [status |-> "contaminated", contamination |-> r.contaminated[d]]]
           docs == apply_all(head.docs, ins)
           next == Proposal(r, inputs, pins, g)
<1>1. next = [pins |-> pins, graph |-> g, docs |-> docs, tree |-> render_tree(inputs, docs, head.tree)]
  BY Zenon DEF Proposal
<1>2. marked \subseteq Doc /\ r.stale \cap DOMAIN r.contaminated = {}
  BY DEF ScanOf
<1>3. docs = [d \in Doc |-> IF d \in DOMAIN ins THEN apply_instruction(head.docs[d], ins[d])
                                                ELSE head.docs[d]]
  BY DEF apply_all
<1>4. \A d \in Doc : DOMAIN head.docs[d] = DocFields
  BY DEF DocsOk
<1>5. ASSUME NEW doc, DOMAIN doc = DocFields, NEW i
      PROVE  LET a == apply_instruction(doc, i) IN DOMAIN a = DocFields /\ a.status = i.status
  BY <1>5 DEF apply_instruction, DocFields
<1>6. \A d \in Doc : IF d \in DOMAIN ins THEN docs[d] = apply_instruction(head.docs[d], ins[d])
                                         ELSE docs[d] = head.docs[d]
  BY <1>3
<1>7. \A d \in Doc : DOMAIN docs[d] = DocFields
  <2> HIDE DEF ins, docs
  <2> QED BY <1>4, <1>5, <1>6
<1>8. DocsOk(docs)
  BY <1>3, <1>7 DEF DocsOk
<1>9. DOMAIN ins = marked
  OBVIOUS
<1>10. ASSUME NEW d \in r.stale PROVE ins[d].status = "stale"
  BY <1>10
<1>11. ASSUME NEW d \in DOMAIN r.contaminated PROVE ins[d].status = "contaminated"
  BY <1>2, <1>11
<1> HIDE DEF ins, docs
<1>12. ProposedDocs(docs, r)
  BY <1>2, <1>4, <1>5, <1>6, <1>8, <1>9, <1>10, <1>11 DEF ProposedDocs
<1> QED BY <1>1, <1>12

-----------------------------------------------------------------------------
(* Every knowledge base on the way                                         *)

(* What a verified doc was verified against is there, and it depends on it. *)
Describes(kb) ==
    \A d \in Doc : kb.docs[d].status = "verified" =>
        \A f \in DOMAIN kb.docs[d].against : kb.docs[d].against[f] # {} =>
            /\ f[1] \in System
            /\ HashOf(kb.pins, f) = kb.docs[d].against[f]
            /\ f \in Deps(d, kb.tree)

KbOk(kb) ==
    /\ DOMAIN kb = {"pins", "graph", "docs", "tree"}
    /\ PinsOk(kb.pins) /\ DocsOk(kb.docs)
    /\ Rendered(kb.tree, kb.pins, kb.docs)
    /\ Describes(kb)

(* The roster of an object or group doc.                                   *)
LEMMA RosterIs ==
    ASSUME NEW tree, NEW pins, PinsOk(pins), NEW docs, Rendered(tree, pins, docs),
           NEW q \in DOMAIN tree
    PROVE  /\ SystemOf(q) \in System /\ q \in expected_docs(pins[SystemOf(q)])
           /\ tree[q].roster = Roster(pins[SystemOf(q)], q)
<1>1. PICK s \in System : q \in expected_docs(pins[s])
  BY DEF Rendered
<1>2. SystemOf(q) = s
  BY <1>1, ExpectedIn DEF PinsOk, Snap
<1> DEFINE day == tree[q].day
<1>3. tree[q] = Page(pins[s], docs, q, day)
  BY <1>2 DEF Rendered
<1> HIDE DEF day
<1>4. tree[q].roster = Roster(pins[s], q)
  BY <1>3 DEF Page
<1> QED BY <1>1, <1>2, <1>4

(* A doc keeps a dependency on an object that keeps its identity.          *)
LEMMA DepsStay ==
    ASSUME NEW tree, NEW pins, PinsOk(pins), NEW docs, Rendered(tree, pins, docs),
           NEW tree2, NEW pins2, PinsOk(pins2), NEW docs2, Rendered(tree2, pins2, docs2),
           NEW s \in System, NEW o \in pins[s].objects, NEW n \in pins2[s].objects,
           Identity(n) = Identity(o), NEW d \in Doc, Fqn(s, o) \in Deps(d, tree)
    PROVE  Fqn(s, o) \in Deps(d, tree2)
<1> DEFINE f == Fqn(s, o)
           q == Paper[d].beside
<1>1. CASE f \in _dep_entries(d)
  BY <1>1 DEF Deps
<1>2. CASE f \notin _dep_entries(d)
  <2>1. q \in DOMAIN tree /\ \E r \in tree[q].roster : r[1] = f
    BY <1>2 DEF Deps
  <2>2. /\ SystemOf(q) \in System /\ q \in expected_docs(pins[SystemOf(q)])
        /\ tree[q].roster = Roster(pins[SystemOf(q)], q)
    BY <2>1, RosterIs
  <2>3. \A t \in System : pins[t].system = t /\ pins2[t].system = t
    BY DEF PinsOk, Snap
  <2>4. q[1] \in {"object", "group"}
    BY <2>1, <2>2 DEF Roster
  <2>5. PICK m \in Members(pins[SystemOf(q)], q) : Fqn(SystemOf(q), m) = f
    BY <2>1, <2>2, <2>3, <2>4 DEF Roster
  <2>6. SystemOf(q) = s /\ m.schema = o.schema /\ m.name = o.name
    BY <2>5 DEF Fqn
  <2>7. m = o
    <3>1. m \in pins[s].objects
      BY <2>5, <2>6 DEF Members, Known
    <3>2. \A x, y \in pins[s].objects : x.schema = y.schema /\ x.name = y.name => x = y
      BY DEF PinsOk, Snap
    <3> QED BY <2>6, <3>1, <3>2
  <2>8. n.kind = o.kind /\ n.schema = o.schema /\ n.name = o.name /\ Fqn(s, n) = f
    BY DEF Identity, Fqn
  <2>9. n \in Known(pins2[s])
    BY DEF Known, PinsOk, Snap
  <2>10. n \in Members(pins2[s], q) /\ q \in expected_docs(pins2[s])
    <3>1. CASE q[1] = "object"
      <4>1. q[2] = f
        BY <2>3, <2>5, <2>6, <2>7, <3>1 DEF Members
      <4>2. n \in Members(pins2[s], q)
        BY <2>3, <2>8, <2>9, <3>1, <4>1 DEF Members
      <4>3. Class[s] = "sql" /\ q = ObjectPath(f)
        BY <2>2, <2>3, <2>6, <3>1, <4>1 DEF expected_docs, ObjectPath, GroupPath
      <4>4. q \in {ObjectPath(Fqn(s, p)) : p \in Known(pins2[s])}
        BY <2>8, <2>9, <4>3
      <4>5. q \in expected_docs(pins2[s])
        BY <2>3, <4>3, <4>4 DEF expected_docs
      <4> QED BY <4>2, <4>5
    <3>2. CASE q[1] = "group"
      <4>1. q[2][2] = o.kind
        BY <2>5, <2>6, <2>7, <3>2 DEF Members
      <4>2. n \in Members(pins2[s], q)
        BY <2>8, <2>9, <3>2, <4>1 DEF Members
      <4>3. Class[s] # "sql" /\ q = GroupPath(s, o.kind)
        BY <2>2, <2>3, <2>6, <3>2, <4>1 DEF expected_docs, ObjectPath, GroupPath
      <4>4. q \in {GroupPath(s, kind) : kind \in Kinds(pins2[s])}
        BY <2>8, <2>9, <4>3 DEF Kinds
      <4>5. q \in expected_docs(pins2[s])
        BY <2>3, <4>3, <4>4 DEF expected_docs
      <4> QED BY <4>2, <4>5
    <3> QED BY <2>4, <3>1, <3>2
  <2>11. q \in DOMAIN tree2
    BY <2>10 DEF Rendered
  <2>12. tree2[q].roster = Roster(pins2[s], q)
    BY <2>6, <2>11, RosterIs
  <2>13. <<f, n.schema_hash>> \in tree2[q].roster
    BY <2>3, <2>4, <2>8, <2>10, <2>12 DEF Roster
  <2>14. f \in {r[1] : r \in tree2[q].roster}
    BY <2>13
  <2> QED BY <2>11, <2>14 DEF Deps
<1> QED BY <1>1, <1>2

(* The hash of a captured object.                                          *)
LEMMA HashOfIs ==
    ASSUME NEW pins, PinsOk(pins), NEW s \in System, NEW o \in pins[s].objects
    PROVE  HashOf(pins, Fqn(s, o)) = {o.schema_hash}
<1>1. Fqn(s, o)[1] = s
  BY DEF Fqn
<1>2. {p \in pins[s].objects : Fqn(s, p) = Fqn(s, o)} = {o}
  BY DEF PinsOk, Snap, Fqn
<1> QED BY <1>1, <1>2 DEF HashOf

(* A hash is that of an object.                                            *)
LEMMA HashFrom ==
    ASSUME NEW pins, NEW f, HashOf(pins, f) # {}
    PROVE  \E o \in pins[f[1]].objects : Fqn(f[1], o) = f
BY DEF HashOf

(* The systems a run finds changed, and the pins it proposes.              *)
LEMMA PinsAre ==
    ASSUME PinsOk(head.pins), PinsOk(taken)
    PROVE  LET pins == Pins(Changed(Diffs)) IN
           /\ Changed(Diffs) \subseteq System
           /\ PinsOk(pins)
           /\ \A s \in System : pins[s] = IF s \in Changed(Diffs) THEN taken[s] ELSE head.pins[s]
<1>1. ASSUME NEW d \in Diffs PROVE d.system \in System
  <2>1. PICK s \in System : d = diff_snapshots(head.pins[s], taken[s])
    BY <1>1 DEF Diffs
  <2>2. Snap(s, head.pins[s]) /\ Snap(s, taken[s])
    BY DEF PinsOk
  <2>3. DiffOf(d, head.pins[s], taken[s])
    BY <2>1, <2>2, DiffIs
  <2>4. d.system = head.pins[s].system
    BY <2>3 DEF DiffOf
  <2>5. head.pins[s].system = s
    BY <2>2 DEF Snap
  <2> QED BY <2>4, <2>5
<1>2. Changed(Diffs) \subseteq System
  BY <1>1 DEF Changed
<1> QED BY <1>2 DEF Pins, PinsOk

(* What a run with drift proposes is a knowledge base of the same kind.    *)
LEMMA ProposalOk ==
    ASSUME KbOk(head), PinsOk(taken), NEW graph,
           NEW r, ScanOf(r, head, graph, Finals(graph)),
           NEW pins, pins = Pins(Changed(Diffs)),
           NEW inputs, inputs = {pins[s] : s \in RenderInputs(Changed(Diffs), r)}
    PROVE  KbOk(Proposal(r, inputs, pins, graph))
<1> DEFINE next == Proposal(r, inputs, pins, graph)
           R == RenderInputs(Changed(Diffs), r)
<1>1. /\ DOMAIN head = {"pins", "graph", "docs", "tree"}
      /\ PinsOk(head.pins) /\ DocsOk(head.docs)
      /\ Rendered(head.tree, head.pins, head.docs) /\ Describes(head)
  BY DEF KbOk
<1>2. /\ DOMAIN next = {"pins", "graph", "docs", "tree"} /\ next.pins = pins
      /\ next.tree = render_tree(inputs, next.docs, head.tree)
      /\ ProposedDocs(next.docs, r)
  BY <1>1, ProposalIs
<1> HIDE DEF next
<1>3. /\ Changed(Diffs) \subseteq System /\ PinsOk(pins)
      /\ \A s \in System : pins[s] = IF s \in Changed(Diffs) THEN taken[s] ELSE head.pins[s]
  BY <1>1, PinsAre
<1>4. R \in SUBSET System /\ Changed(Diffs) \subseteq R
  BY <1>3 DEF RenderInputs
<1>5. \A s \in System \ R : pins[s] = head.pins[s]
  BY <1>3, <1>4
<1>6. ASSUME NEW d \in Doc, SystemOf(Paper[d].beside) \in System \ R
      PROVE  head.docs[d] = next.docs[d]
  <2>1. Paper[d].system \in System \ R
    BY <1>6, PaperAssumption
  <2>2. d \notin DOMAIN r.contaminated \cup r.stale
    BY <2>1 DEF RenderInputs
  <2> QED BY <1>2, <2>2 DEF ProposedDocs
<1>7. InputsOf(inputs, pins, R)
  BY DEF InputsOf
<1> HIDE DEF R
<1>8. Rendered(next.tree, next.pins, next.docs)
  BY <1>1, <1>2, <1>3, <1>4, <1>5, <1>6, <1>7, RenderAgain
<1>9. Describes(next)
  <2> SUFFICES ASSUME NEW d \in Doc, next.docs[d].status = "verified",
                      NEW f \in DOMAIN next.docs[d].against, next.docs[d].against[f] # {}
               PROVE  /\ f[1] \in System
                      /\ HashOf(next.pins, f) = next.docs[d].against[f]
                      /\ f \in Deps(d, next.tree)
    BY DEF Describes
  <2> DEFINE s == f[1]
  <2>1. /\ d \notin DOMAIN r.contaminated /\ d \notin r.stale
        /\ next.docs[d] = head.docs[d]
    BY <1>2 DEF ProposedDocs
  <2>2. /\ s \in System
        /\ HashOf(head.pins, f) = head.docs[d].against[f]
        /\ f \in Deps(d, head.tree)
        /\ head.docs[d].status = "verified" /\ Statusable(head.docs, d)
    BY <1>1, <2>1, NoneAssumption DEF Describes, Statusable
  <2>3. PICK o \in head.pins[s].objects : Fqn(s, o) = f
    BY <2>1, <2>2, HashFrom
  <2>4. f \notin Breaking(Finals(graph))
    BY <2>1, <2>2, BreakingMarks
  <2>5. f \notin Additive(Finals(graph))
    BY <2>1, <2>2 DEF ScanOf
  <2>6. \E n \in pins[s].objects : Identity(n) = Identity(o) /\ n.schema_hash = o.schema_hash
    <3>1. CASE s \notin Changed(Diffs)
      BY <1>3, <2>2, <2>3, <3>1
    <3>2. CASE s \in Changed(Diffs)
      <4>1. PICK n \in taken[s].objects : Identity(n) = Identity(o)
        BY <1>1, <2>2, <2>3, <2>4, GoneBreaks
      <4>2. Matched(head.pins[s], taken[s], o, n)
        BY <2>3, <4>1 DEF Matched
      <4>3. n.schema_hash = o.schema_hash
        BY <1>1, <2>2, <2>3, <2>4, <2>5, <4>2, ChangeSeen
      <4> QED BY <1>3, <2>2, <3>2, <4>1, <4>3
    <3> QED BY <3>1, <3>2
  <2>7. PICK n \in pins[s].objects : Identity(n) = Identity(o) /\ n.schema_hash = o.schema_hash
    BY <2>6
  <2>8. Fqn(s, n) = f
    BY <2>3, <2>7 DEF Identity, Fqn
  <2>9. HashOf(pins, f) = {n.schema_hash}
    BY <1>3, <2>2, <2>8, HashOfIs
  <2>10. HashOf(head.pins, f) = {o.schema_hash}
    BY <1>1, <2>2, <2>3, HashOfIs
  <2>11. f \in Deps(d, next.tree)
    <3> DEFINE was == head.pins
               old == head.tree
               prose == head.docs
               tree2 == next.tree
               docs2 == next.docs
    <3>1. PinsOk(was) /\ Rendered(old, was, prose) /\ PinsOk(pins) /\ Rendered(tree2, pins, docs2)
      BY <1>1, <1>2, <1>3, <1>8
    <3>2. /\ s \in System /\ o \in was[s].objects /\ n \in pins[s].objects
          /\ Identity(n) = Identity(o) /\ Fqn(s, o) \in Deps(d, old)
      BY <2>2, <2>3, <2>7
    <3> HIDE DEF was, old, prose, tree2, docs2
    <3>3. Fqn(s, o) \in Deps(d, tree2)
      BY <3>1, <3>2, DepsStay
    <3> QED BY <2>3, <3>3 DEF tree2
  <2> QED BY <1>2, <2>1, <2>2, <2>7, <2>9, <2>10, <2>11
<1> QED BY <1>2, <1>3, <1>8, <1>9 DEF KbOk, ProposedDocs, next

-----------------------------------------------------------------------------
(* The states                                                              *)

LiveOk(now) == DOMAIN now = DOMAIN Shape /\ \A f \in DOMAIN Shape : now[f] \in Shape[f] \cup {Absent}
ReadingOk(r) == DOMAIN r = System /\ \A s \in System : r[s] # None => ListedOk(s, r[s])

StateInv ==
    /\ LiveOk(live)
    /\ ReadingOk(reading)
    /\ PinsOk(taken)
    /\ KbOk(head)
    /\ pr # None => DOMAIN pr = {"current", "next"} /\ KbOk(pr.next)

(* The systems' snapshots are the inputs that render them all.             *)
LEMMA AllInputs ==
    ASSUME NEW pins, PinsOk(pins)
    PROVE  InputsOf(Range(pins), pins, System)
BY DEF InputsOf, Range, PinsOk

LEMMA InitOk == KbInit => StateInv
<1> SUFFICES ASSUME KbInit PROVE StateInv
  OBVIOUS
<1> DEFINE pins == [s \in System |-> Capture(s, Listed(s, First), First, 0)]
           plain == [d \in Doc |-> [status |-> Paper[d].status, contamination |-> None,
                                    purpose |-> "none", against |-> <<>>]]
           tree == render_tree(Range(pins), plain, <<>>)
           graph == build_graph(Range(pins), {})
           kb == [pins |-> pins, graph |-> graph, docs |-> plain, tree |-> tree]
           docs == [d \in Doc |-> [plain[d] EXCEPT !.against = Against(d, kb)]]
<1>1. /\ live = First /\ reading = [s \in System |-> None] /\ taken = pins /\ pr = None
      /\ head = [kb EXCEPT !.docs = docs]
  BY Zenon DEF KbInit
<1>2. LiveOk(live)
  BY <1>1, FirstAssumption DEF LiveOk
<1>3. ReadingOk(reading)
  BY <1>1 DEF ReadingOk
<1>4. PinsOk(pins)
  <2>1. ASSUME NEW s \in System PROVE Snap(s, pins[s])
    <3>1. ListedOk(s, Listed(s, First))
      BY FirstAssumption, ListedIsOk
    <3> QED BY <3>1, CaptureIsSnap
  <2> QED BY <2>1 DEF PinsOk
<1> HIDE DEF pins
<1>5. \A d \in Doc : docs[d] = [status |-> Paper[d].status, contamination |-> None,
                                purpose |-> "none", against |-> Against(d, kb)]
  OBVIOUS
<1>6. DocsOk(docs) /\ \A d \in Doc : Looks(plain[d], docs[d]) /\ docs[d].against = Against(d, kb)
  <2>1. \A d \in Doc : DOMAIN docs[d] = DocFields
    BY <1>5 DEF DocFields
  <2>2. \A d \in Doc : Looks(plain[d], docs[d]) /\ docs[d].against = Against(d, kb)
    BY <1>5 DEF Looks
  <2> QED BY <2>1, <2>2 DEF DocsOk
<1>7. /\ DOMAIN head = {"pins", "graph", "docs", "tree"}
      /\ head.pins = pins /\ head.docs = docs /\ head.tree = tree
  <2> HIDE DEF docs, plain, tree, graph
  <2> QED BY <1>1
<1>8. Rendered(tree, pins, docs)
  <2>1. RenderOf(tree, pins, System, plain, <<>>)
    BY <1>4, AllInputs, RenderTree
  <2>2. /\ DOMAIN tree = UNION {expected_docs(pins[s]) : s \in System}
        /\ \A s \in System : \A p \in expected_docs(pins[s]) :
             tree[p] = _write_machine(<<>>, p, Page(pins[s], plain, p, pins[s].day))
    BY <2>1 DEF RenderOf
  <2> HIDE DEF tree, plain, docs
  <2>3. ASSUME NEW s \in System, NEW p \in expected_docs(pins[s])
        PROVE  tree[p] = Page(pins[SystemOf(p)], docs, p, tree[p].day)
    <3>1. PICK e : tree[p] = Page(pins[s], plain, p, e)
      BY <2>2, WriteNew
    <3>2. Page(pins[s], plain, p, e) = Page(pins[s], docs, p, e)
      <4> DEFINE x == pins[s]
      <4>1. \A d \in Doc : SystemOf(Paper[d].beside) = x.system => Looks(plain[d], docs[d])
        BY <1>6
      <4>2. p \in expected_docs(x)
        BY <2>3
      <4> HIDE DEF x
      <4>3. Page(x, plain, p, e) = Page(x, docs, p, e)
        BY <4>1, <4>2, PageSame
      <4> QED BY <4>3 DEF x
    <3>3. tree[p].day = e
      BY <3>1 DEF Page
    <3>4. SystemOf(p) = s
      BY <1>4, ExpectedIn DEF PinsOk, Snap
    <3> QED BY <3>1, <3>2, <3>3, <3>4
  <2> QED BY <2>2, <2>3 DEF Rendered
<1>9. Describes(head)
  <2>1. kb.pins = pins /\ kb.tree = tree
    OBVIOUS
  <2> HIDE DEF kb, tree, docs
  <2>2. \A d \in Doc : head.docs[d].against =
           [f \in {g \in Deps(d, tree) : g[1] \in System} |-> HashOf(pins, f)]
    BY <1>6, <1>7, <2>1 DEF Against
  <2>3. ASSUME NEW d \in Doc, NEW f \in DOMAIN head.docs[d].against
        PROVE  /\ f[1] \in System /\ f \in Deps(d, head.tree)
               /\ HashOf(head.pins, f) = head.docs[d].against[f]
    <3>1. f \in {g \in Deps(d, tree) : g[1] \in System}
      BY <2>2, <2>3
    <3>2. head.docs[d].against[f] = HashOf(pins, f)
      BY <2>2, <3>1
    <3> QED BY <1>7, <3>1, <3>2
  <2> QED BY <2>3 DEF Describes
<1> HIDE DEF tree, docs
<1>10. KbOk(head)
  BY <1>4, <1>6, <1>7, <1>8, <1>9 DEF KbOk
<1> QED BY <1>1, <1>2, <1>3, <1>4, <1>10 DEF StateInv

(* Repairing a doc keeps HEAD a knowledge base of the same kind.           *)
LEMMA VerifyOk ==
    ASSUME KbOk(head), NEW d \in Doc, Verify(d)
    PROVE  KbOk(head')
<1> DEFINE fm == [status |-> "verified", contamination |-> None,
                  purpose |-> "said", against |-> Against(d, head)]
           docs == [head.docs EXCEPT ![d] = fm]
           tree == render_tree(Range(head.pins), docs, head.tree)
<1>1. /\ DOMAIN head = {"pins", "graph", "docs", "tree"}
      /\ PinsOk(head.pins) /\ DocsOk(head.docs)
      /\ Rendered(head.tree, head.pins, head.docs) /\ Describes(head)
  BY DEF KbOk
<1>2. head' = [head EXCEPT !.docs = docs, !.tree = tree]
  BY Zenon DEF Verify
<1>3. DOMAIN docs = Doc /\ docs[d] = fm /\ \A e \in Doc \ {d} : docs[e] = head.docs[e]
  BY <1>1 DEF DocsOk
<1>4. DocsOk(docs)
  <2>1. docs = [e \in Doc |-> docs[e]]
    BY <1>1 DEF DocsOk
  <2>2. \A e \in Doc : DOMAIN docs[e] = DocFields
    BY <1>1, <1>3 DEF DocsOk, DocFields
  <2> QED BY <2>1, <2>2 DEF DocsOk
<1>5. fm.status = "verified" /\ fm.against = Against(d, head)
  OBVIOUS
<1> HIDE DEF fm, docs
<1>6. Rendered(tree, head.pins, docs)
  <2> DEFINE pins == head.pins
             old == head.tree
             was == head.docs
             inputs == Range(head.pins)
  <2>1. PinsOk(pins) /\ Rendered(old, pins, was) /\ InputsOf(inputs, pins, System)
    BY <1>1, AllInputs
  <2>2. \A s \in System \ System : pins[s] = pins[s]
    OBVIOUS
  <2>3. \A e \in Doc : SystemOf(Paper[e].beside) \in System \ System => was[e] = docs[e]
    OBVIOUS
  <2>4. System \in SUBSET System
    OBVIOUS
  <2> HIDE DEF pins, old, was, inputs
  <2>5. Rendered(render_tree(inputs, docs, old), pins, docs)
    BY <2>1, <2>2, <2>3, <2>4, RenderAgain
  <2> QED BY <2>5 DEF pins, old, inputs
<1> HIDE DEF tree
<1>7. /\ DOMAIN head' = {"pins", "graph", "docs", "tree"}
      /\ head'.pins = head.pins /\ head'.docs = docs /\ head'.tree = tree
  BY <1>1, <1>2
<1>8. ASSUME NEW e \in Doc, docs[e].status = "verified", NEW f \in DOMAIN docs[e].against,
             docs[e].against[f] # {}
      PROVE  f[1] \in System /\ HashOf(head.pins, f) = docs[e].against[f] /\ f \in Deps(e, tree)
  <2>1. /\ f[1] \in System /\ HashOf(head.pins, f) = docs[e].against[f]
        /\ f \in Deps(e, head.tree)
    <3>1. CASE e = d
      <4>1. docs[e].against = [g \in {h \in Deps(d, head.tree) : h[1] \in System} |-> HashOf(head.pins, g)]
        BY <1>3, <1>5, <3>1 DEF Against
      <4>2. f \in {h \in Deps(d, head.tree) : h[1] \in System}
        BY <1>8, <4>1
      <4> QED BY <3>1, <4>1, <4>2
    <3>2. CASE e # d
      BY <1>1, <1>3, <1>8, <3>2 DEF Describes
    <3> QED BY <3>1, <3>2
  <2>2. PICK o \in head.pins[f[1]].objects : Fqn(f[1], o) = f
    BY <1>8, <2>1, HashFrom
  <2> DEFINE s == f[1]
             pins == head.pins
             old == head.tree
             was == head.docs
  <2>3. PinsOk(pins) /\ Rendered(old, pins, was) /\ Rendered(tree, pins, docs)
    BY <1>1, <1>6
  <2>4. s \in System /\ o \in pins[s].objects /\ Identity(o) = Identity(o) /\ Fqn(s, o) \in Deps(e, old)
    BY <2>1, <2>2
  <2> HIDE DEF s, pins, old, was
  <2>5. Fqn(s, o) \in Deps(e, tree)
    BY <2>3, <2>4, DepsStay
  <2> QED BY <2>1, <2>2, <2>5 DEF s
<1>9. Describes(head')
  BY <1>7, <1>8 DEF Describes
<1> QED BY <1>1, <1>4, <1>6, <1>7, <1>9 DEF KbOk

(* So does a run with drift, for the PR it opens ...                       *)
LEMMA SyncDriftOk ==
    ASSUME KbOk(head), PinsOk(taken), SyncDrift
    PROVE  DOMAIN pr' = {"current", "next"} /\ KbOk(pr'.next)
<1> DEFINE pins == Pins(Changed(Diffs))
           required == lineageRequired(Diffs, head.graph) \/ GatewayPending
           graph == IF required THEN build_graph(Range(pins), gateway) ELSE head.graph
           r == Marks(Diffs, graph)
           inputs == {pins[s] : s \in RenderInputs(Changed(Diffs), r)}
           next == Proposal(r, inputs, pins, graph)
<1>1. pr' = [current |-> TRUE, next |-> next]
  BY ZenonT(60) DEF SyncDrift
<1> HIDE DEF graph
<1>2. ScanOf(r, head, graph, Finals(graph))
  BY ScanIs DEF Marks, Finals
<1>3. pins = Pins(Changed(Diffs)) /\ inputs = {pins[s] : s \in RenderInputs(Changed(Diffs), r)}
  OBVIOUS
<1> HIDE DEF r, pins, inputs
<1>4. KbOk(next)
  BY <1>2, <1>3, ProposalOk
<1> HIDE DEF next
<1> QED BY <1>1, <1>4

(* ... and one that has only publishes to record.                          *)
LEMMA SyncGraphOk ==
    ASSUME KbOk(head), SyncGraph
    PROVE  DOMAIN pr' = {"current", "next"} /\ KbOk(pr'.next)
<1> DEFINE graph == build_graph(Range(head.pins), gateway)
           next == [head EXCEPT !.graph = graph]
<1>1. pr' = [current |-> TRUE, next |-> next]
  BY DEF SyncGraph
<1>2. /\ DOMAIN head = {"pins", "graph", "docs", "tree"}
      /\ PinsOk(head.pins) /\ DocsOk(head.docs)
      /\ Rendered(head.tree, head.pins, head.docs) /\ Describes(head)
  BY DEF KbOk
<1> HIDE DEF graph
<1>3. /\ DOMAIN next = {"pins", "graph", "docs", "tree"}
      /\ next.pins = head.pins /\ next.docs = head.docs /\ next.tree = head.tree
  BY <1>2
<1> HIDE DEF next
<1>4. Describes(next)
  BY <1>2, <1>3 DEF Describes
<1>5. KbOk(next)
  BY <1>2, <1>3, <1>4 DEF KbOk
<1> QED BY <1>1, <1>5

LEMMA NextOk == StateInv /\ [KbNext]_vars => StateInv'
<1> SUFFICES ASSUME StateInv, [KbNext]_vars PROVE StateInv'
  OBVIOUS
<1>0. /\ LiveOk(live) /\ ReadingOk(reading) /\ PinsOk(taken) /\ KbOk(head)
      /\ pr # None => DOMAIN pr = {"current", "next"} /\ KbOk(pr.next)
  BY DEF StateInv
<1>1. ASSUME NEW f \in DOMAIN Shape, Change(f) PROVE StateInv'
  <2>1. LiveOk(live')
    BY <1>0, <1>1 DEF LiveOk, Change
  <2> QED BY <1>0, <1>1, <2>1 DEF StateInv, Change
<1>2. ASSUME NEW f \in Backing, Publish(f) PROVE StateInv'
  BY <1>0, <1>2 DEF StateInv, Publish
<1>3. ASSUME NEW s \in System, ListObjects(s) PROVE StateInv'
  <2>1. ListedOk(s, Listed(s, live))
    BY <1>0, ListedIsOk DEF LiveOk
  <2>2. ReadingOk(reading')
    BY <1>0, <1>3, <2>1 DEF ReadingOk, ListObjects
  <2> QED BY <1>0, <1>3, <2>2 DEF StateInv, ListObjects
<1>4. ASSUME NEW s \in System, Deliver(s) PROVE StateInv'
  <2> DEFINE x == Capture(s, reading[s], live, Today)
  <2>1. taken' = [taken EXCEPT ![s] = x] /\ reading' = [reading EXCEPT ![s] = None] /\ reading[s] # None
    BY <1>4 DEF Deliver
  <2>2. Snap(s, x)
    BY <1>0, <2>1, CaptureIsSnap DEF ReadingOk
  <2> HIDE DEF x
  <2>3. PinsOk(taken')
    BY <1>0, <2>1, <2>2 DEF PinsOk
  <2>4. ReadingOk(reading')
    BY <1>0, <2>1 DEF ReadingOk
  <2> QED BY <1>0, <1>4, <2>3, <2>4 DEF StateInv, Deliver
<1>5. CASE SyncDrift
  <2>1. UNCHANGED <<live, reading, taken, head>>
    BY <1>5 DEF SyncDrift
  <2> QED BY <1>0, <1>5, <2>1, SyncDriftOk DEF StateInv
<1>6. CASE SyncGraph
  <2>1. UNCHANGED <<live, reading, taken, head>>
    BY <1>6 DEF SyncGraph
  <2> QED BY <1>0, <1>6, <2>1, SyncGraphOk DEF StateInv
<1>7. CASE Merge
  BY <1>0, <1>7 DEF StateInv, Merge
<1>8. ASSUME NEW d \in Doc, Verify(d) PROVE StateInv'
  <2>1. KbOk(head')
    BY <1>0, <1>8, VerifyOk
  <2>2. UNCHANGED <<live, reading, taken>> /\ pr' = IF pr = None THEN None ELSE [pr EXCEPT !.current = FALSE]
    BY <1>8 DEF Verify
  <2>3. pr' # None => DOMAIN pr' = {"current", "next"} /\ KbOk(pr'.next)
    BY <1>0, <2>2
  <2> QED BY <1>0, <2>1, <2>2, <2>3 DEF StateInv
<1>9. CASE UNCHANGED vars
  BY <1>0, <1>9 DEF StateInv, vars
<1> QED BY <1>1, <1>2, <1>3, <1>4, <1>5, <1>6, <1>7, <1>8, <1>9 DEF KbNext

(* Every PR a sync opens passes the checks of KB CI, for any systems,      *)
(* sources, docs and history: the invariant keeps every tree equal to a    *)
(* render of its own pins and docs, up to dates (generator/validate.py).   *)
THEOREM PrPasses == KbSpec => []PrPassesCI
<1>1. StateInv => PrPassesCI
  BY RenderedPasses DEF StateInv, KbOk, PrPassesCI
<1> QED BY <1>1, InitOk, NextOk, PTL DEF KbSpec

(* A doc verified at HEAD describes the structure it was verified against, *)
(* whatever was captured, synced, merged and repaired since: an object     *)
(* whose hash moves is breaking, which contaminates the doc, or additive,  *)
(* which makes it stale (lineage/scan.py, core/src/pipeline.ts).           *)
THEOREM VerifiedCurrent == KbSpec => []VerifiedIsCurrent
<1>1. StateInv => VerifiedIsCurrent
  BY DEF StateInv, KbOk, Describes, VerifiedIsCurrent
<1> QED BY <1>1, InitOk, NextOk, PTL DEF KbSpec

-----------------------------------------------------------------------------
(* Walking                                                                 *)

(* A set of naturals that is not empty has a least element.                *)
LEMMA Least ==
    ASSUME NEW S \in SUBSET Nat, S # {}
    PROVE  \E x \in S : \A y \in S : x <= y
<1> DEFINE R == OpToRel(<, Nat)
<1>1. IsWellFoundedOn(R, Nat)
  BY NatLessThanWellFounded, Zenon DEF OpToRel
<1>2. \E x \in S : \A y \in S : ~(<<y, x>> \in R)
  <2> HIDE DEF R
  <2> QED BY <1>1, WFMin
<1>3. ASSUME NEW x \in S, NEW y \in S, ~(<<y, x>> \in R) PROVE x <= y
  BY <1>3 DEF OpToRel
<1> QED BY <1>2, <1>3

(* The sets a walk finds, round by round.                                  *)
IsRounds(graph, start, n, f) ==
    f = [m \in 0..n |-> IF m = 0 THEN {start} ELSE Downstream(graph, f[m - 1])]

LEMMA RoundsExist ==
    ASSUME NEW graph, NEW start, NEW n \in Nat
    PROVE  \E f : IsRounds(graph, start, n, f)
<1> DEFINE Some(k) == \E f : IsRounds(graph, start, k, f)
           S == {k \in Nat : ~Some(k)}
<1> SUFFICES ASSUME S # {} PROVE FALSE
  OBVIOUS
<1>1. PICK k \in S : \A j \in S : k <= j
  <2> HIDE DEF S
  <2>1. S \in SUBSET Nat
    BY DEF S
  <2> QED BY <2>1, Least
<1>2. Some(0)
  <2> DEFINE f == [m \in 0..0 |-> {start}]
  <2>1. IsRounds(graph, start, 0, f)
    BY DEF IsRounds
  <2> QED BY <2>1
<1>3. k \in Nat \ {0} /\ k - 1 \in Nat /\ k - 1 < k
  BY <1>1, <1>2
<1>4. Some(k - 1)
  BY <1>1, <1>3
<1>5. PICK f : IsRounds(graph, start, k - 1, f)
  BY <1>4
<1> DEFINE g == [m \in 0..k |-> IF m = k THEN Downstream(graph, f[k - 1]) ELSE f[m]]
           h == [m \in 0..k |-> IF m = 0 THEN {start} ELSE Downstream(graph, g[m - 1])]
<1>6. \A m \in 0 .. k - 1 : f[m] = IF m = 0 THEN {start} ELSE Downstream(graph, f[m - 1])
  BY <1>5 DEF IsRounds
<1>7. ASSUME NEW m \in 0..k PROVE g[m] = h[m]
  <2>1. CASE m = 0
    BY <1>3, <1>6, <2>1
  <2>2. CASE m # 0
    <3>1. m - 1 \in 0..k /\ m - 1 # k /\ m - 1 \in 0 .. k - 1
      BY <1>3, <2>2
    <3>2. g[m - 1] = f[m - 1]
      BY <3>1
    <3>3. h[m] = Downstream(graph, f[m - 1])
      BY <2>2, <3>2
    <3>4. g[m] = Downstream(graph, f[m - 1])
      BY <1>3, <1>6, <2>2, <3>1
    <3> QED BY <3>3, <3>4
  <2> QED BY <2>1, <2>2
<1>8. g = h
  BY <1>7
<1>9. IsRounds(graph, start, k, g)
  BY <1>8 DEF IsRounds
<1>10. Some(k)
  BY <1>9
<1> QED BY <1>1, <1>10

LEMMA RoundsStep ==
    ASSUME NEW graph, NEW start, NEW n \in Nat, NEW f, IsRounds(graph, start, n, f)
    PROVE  f[0] = {start} /\ \A m \in 1..n : f[m] = Downstream(graph, f[m - 1])
<1> DEFINE g == [m \in 0..n |-> IF m = 0 THEN {start} ELSE Downstream(graph, f[m - 1])]
<1>1. f = g
  BY Zenon DEF IsRounds
<1>2. g[0] = {start}
  OBVIOUS
<1>3. \A m \in 1..n : g[m] = Downstream(graph, f[m - 1])
  OBVIOUS
<1> HIDE DEF g
<1> QED BY <1>1, <1>2, <1>3

LEMMA RoundsIs ==
    ASSUME NEW graph, NEW start, Cardinality(DOMAIN graph.nodes) \in Nat
    PROVE  IsRounds(graph, start, Cardinality(DOMAIN graph.nodes), Rounds(graph, start))
<1> DEFINE n == Cardinality(DOMAIN graph.nodes)
<1>1. Rounds(graph, start) = CHOOSE f : IsRounds(graph, start, n, f)
  BY DEF Rounds, IsRounds
<1>2. \E f : IsRounds(graph, start, n, f)
  BY RoundsExist
<1> QED BY <1>1, <1>2

LEMMA RoundsFrom ==
    ASSUME NEW graph, NEW start, Cardinality(DOMAIN graph.nodes) \in Nat
    PROVE  /\ Rounds(graph, start)[0] = {start}
           /\ \A n \in 1..Cardinality(DOMAIN graph.nodes) :
                Rounds(graph, start)[n] = Downstream(graph, Rounds(graph, start)[n - 1])
<1> DEFINE N == Cardinality(DOMAIN graph.nodes)
           w == Rounds(graph, start)
<1>1. IsRounds(graph, start, N, w)
  BY RoundsIs
<1>2. N \in Nat
  OBVIOUS
<1> HIDE DEF N, w
<1>3. w[0] = {start} /\ \A n \in 1..N : w[n] = Downstream(graph, w[n - 1])
  BY <1>1, <1>2, RoundsStep
<1> QED BY <1>3 DEF N, w

(* An end of the walk is closed under the edges.                           *)
Closed(graph, S) == \A e \in DOMAIN graph.edges : e[1] \in S => e[2] \in S

(* Edges that end in nodes, of which there are finitely many.              *)
Walkable(graph) ==
    /\ IsFiniteSet(DOMAIN graph.nodes)
    /\ \A e \in DOMAIN graph.edges : e[1] \in DOMAIN graph.nodes /\ e[2] \in DOMAIN graph.nodes

(* A round goes from nodes to nodes; it finds one more, or nothing.        *)
LEMMA OneRound ==
    ASSUME NEW graph, Walkable(graph), NEW S \in SUBSET DOMAIN graph.nodes
    PROVE  /\ Downstream(graph, S) \in SUBSET DOMAIN graph.nodes
           /\ S \subseteq Downstream(graph, S)
           /\ Closed(graph, S) => Downstream(graph, S) = S
           /\ ~Closed(graph, S) => Cardinality(Downstream(graph, S)) > Cardinality(S)
           /\ Cardinality(S) \in Nat
<1> DEFINE D == Downstream(graph, S)
<1>1. D \in SUBSET DOMAIN graph.nodes /\ S \subseteq D
  BY DEF Downstream, Walkable
<1>2. Closed(graph, S) => D = S
  BY DEF Downstream, Closed
<1>3. ~Closed(graph, S) => D # S
  BY DEF Downstream, Closed
<1>4. IsFiniteSet(D) /\ IsFiniteSet(S)
  BY <1>1, FS_Subset DEF Walkable
<1> HIDE DEF D
<1>5. D # S => Cardinality(S) < Cardinality(D)
  BY <1>1, <1>4, FS_Subset, FS_CardinalityType
<1>6. Cardinality(S) \in Nat /\ Cardinality(D) \in Nat
  BY <1>4, FS_CardinalityType
<1> QED BY <1>1, <1>2, <1>3, <1>5, <1>6 DEF D

(* The walk holds where it starts and all that follows.                    *)
LEMMA WalkIsClosed ==
    ASSUME NEW graph, Walkable(graph), NEW start \in DOMAIN graph.nodes
    PROVE  LET W == DOMAIN contamination_walk(graph, start)
           IN  start \in W /\ Closed(graph, W)
<1> DEFINE N == Cardinality(DOMAIN graph.nodes)
           w == Rounds(graph, start)
           Good(n) == /\ w[n] \in SUBSET DOMAIN graph.nodes /\ start \in w[n]
                      /\ Closed(graph, w[n]) \/ Cardinality(w[n]) > n
           S == {n \in 0..N : ~Good(n)}
<1>1. N \in Nat
  BY FS_CardinalityType DEF Walkable
<1>3. /\ w[0] = {start}
      /\ \A n \in 1..N : w[n] = Downstream(graph, w[n - 1])
  BY <1>1, RoundsFrom
<1> HIDE DEF w, N
<1>4. S = {}
  <2> SUFFICES ASSUME S # {} PROVE FALSE
    OBVIOUS
  <2>1. PICK k \in S : \A j \in S : k <= j
    <3>1. S \in SUBSET Nat
      BY <1>1
    <3> HIDE DEF S
    <3> QED BY <3>1, Least
  <2>2. Good(0)
    <3>1. Cardinality({start}) = 1
      BY FS_Singleton
    <3> QED BY <1>3, <3>1
  <2>3. k \in 1..N /\ k - 1 \in 0..N /\ k - 1 < k /\ k \in Nat
    BY <1>1, <2>1, <2>2
  <2>4. Good(k - 1)
    BY <2>1, <2>3
  <2> DEFINE X == w[k - 1]
  <2>5. w[k] = Downstream(graph, X)
    BY <1>3, <2>3
  <2>6. X \in SUBSET DOMAIN graph.nodes /\ start \in X
    BY <2>4
  <2>7. Closed(graph, X) \/ Cardinality(X) > k - 1
    BY <2>4
  <2> HIDE DEF X
  <2>8. Good(k)
    <3>1. w[k] \in SUBSET DOMAIN graph.nodes /\ start \in w[k]
      BY <2>5, <2>6, OneRound
    <3>2. CASE Closed(graph, X)
      <4>1. w[k] = X
        BY <2>5, <2>6, <3>2, OneRound
      <4> QED BY <3>1, <3>2, <4>1
    <3>3. CASE ~Closed(graph, X)
      <4>1. Cardinality(w[k]) > Cardinality(X) /\ Cardinality(X) \in Nat
        BY <2>5, <2>6, <3>3, OneRound
      <4>2. Cardinality(w[k]) \in Nat
        BY <3>1, OneRound
      <4>3. Cardinality(w[k]) > k
        BY <2>3, <2>7, <3>3, <4>1, <4>2
      <4> QED BY <3>1, <4>3
    <3> QED BY <3>2, <3>3
  <2> QED BY <2>1, <2>8
<1>5. Good(N)
  BY <1>1, <1>4
<1>6. Cardinality(w[N]) <= N
  BY <1>5, FS_Subset DEF N, Walkable
<1>7. Closed(graph, w[N]) /\ start \in w[N]
  BY <1>1, <1>5, <1>6, OneRound
<1>8. DOMAIN contamination_walk(graph, start) = w[N]
  BY DEF contamination_walk, w, N
<1> QED BY <1>7, <1>8

(* ... and nothing else.                                                   *)
LEMMA WalkIsLeast ==
    ASSUME NEW graph, Walkable(graph), NEW start \in DOMAIN graph.nodes,
           NEW T, start \in T, Closed(graph, T)
    PROVE  DOMAIN contamination_walk(graph, start) \subseteq T
<1> DEFINE N == Cardinality(DOMAIN graph.nodes)
           w == Rounds(graph, start)
           S == {n \in 0..N : ~(w[n] \subseteq T)}
<1>1. N \in Nat
  BY FS_CardinalityType DEF Walkable
<1>3. DOMAIN contamination_walk(graph, start) = w[N]
  BY DEF contamination_walk
<1>4. /\ w[0] = {start}
      /\ \A n \in 1..N : w[n] = Downstream(graph, w[n - 1])
  BY <1>1, RoundsFrom
<1> HIDE DEF w, N
<1>5. S = {}
  <2> SUFFICES ASSUME S # {} PROVE FALSE
    OBVIOUS
  <2>1. PICK k \in S : \A j \in S : k <= j
    <3>1. S \in SUBSET Nat
      BY <1>1
    <3> HIDE DEF S
    <3> QED BY <3>1, Least
  <2>2. k \in 1..N /\ k - 1 \in 0..N /\ k - 1 < k
    BY <1>1, <1>4, <2>1
  <2>3. w[k - 1] \subseteq T
    BY <2>1, <2>2
  <2>4. w[k] \subseteq T
    BY <1>4, <2>2, <2>3 DEF Downstream, Closed
  <2> QED BY <2>1, <2>4
<1> QED BY <1>1, <1>3, <1>5

(* The walk of lineage/scan.py finds exactly what is downstream of its     *)
(* start: the least set of nodes that has it and is closed under the       *)
(* edges, cycles included, although it stops after as many rounds as there *)
(* are nodes.                                                              *)
THEOREM WalkFindsDownstream ==
    ASSUME NEW graph, Walkable(graph), NEW start \in DOMAIN graph.nodes
    PROVE  LET W == DOMAIN contamination_walk(graph, start) IN
           /\ start \in W /\ Closed(graph, W)
           /\ \A T : start \in T /\ Closed(graph, T) => W \subseteq T
BY WalkIsClosed, WalkIsLeast

-----------------------------------------------------------------------------
(* Lineage                                                                 *)

(* The edge of a relation a view draws on, p = <<relation, operation>>.    *)
EdgeOf(s, o, p) == <<<<s, p[1][1], p[1][2]>>, Fqn(s, o), p[2]>>

(* The edges of a snapshot's views, and those of publishes.                *)
OfView(x, s, e) == \E o \in x.objects : \E p \in Drawn(o) : e = EdgeOf(s, o, p)
Parsed(pins, e) == \E s \in System : OfView(pins[s], s, e)
Published(gw, e) == \E a \in gw : edge_id(a) = e

(* A view's operation is never that of a publish.                          *)
LEMMA NoViewIngests ==
    ASSUME NEW d
    PROVE  _operation(d) # "ingest"
<1> DEFINE shown == {i \in DOMAIN _OP_PRECEDENCE : _OP_PRECEDENCE[i] \in d.exhibits}
<1>1. DOMAIN _OP_PRECEDENCE = 1..7 /\ \A i \in 1..7 : _OP_PRECEDENCE[i] # "ingest"
  BY DEF _OP_PRECEDENCE
<1>2. _operation(d) = IF shown = {} THEN "rename" ELSE _OP_PRECEDENCE[Min(shown)]
  BY Zenon DEF _operation
<1>3. shown \in SUBSET Nat
  BY <1>1
<1>4. shown # {} => Min(shown) \in shown
  <2> HIDE DEF shown
  <2> SUFFICES ASSUME shown # {} PROVE Min(shown) \in shown
    OBVIOUS
  <2>1. \E i \in shown : \A j \in shown : i <= j
    BY <1>3, Least
  <2> QED BY <2>1 DEF Min
<1>5. shown # {} => Min(shown) \in 1..7
  BY <1>1, <1>4
<1> HIDE DEF shown
<1> QED BY <1>1, <1>2, <1>5

(* A reference that names its schema keeps its name.                       *)
LEMMA Resolved ==
    ASSUME NEW x, NEW ref, ref[1] # ""
    PROVE  resolve(x, ref).fqn = <<x.system, ref[1], ref[2]>>
<1> DEFINE named == {o \in x.objects :
                       o.kind \in RELATION_KINDS /\ o.name = ref[2] /\ ref[1] \in {"", o.schema}}
           found == IF ref[1] = "" /\ Cardinality(named) > 1 THEN {} ELSE named
           o == CHOOSE p \in found : TRUE
<1>1. resolve(x, ref) = IF found = {}
        THEN [fqn |-> <<x.system, ref[1], ref[2]>>, resolved |-> FALSE, columns |-> {}]
        ELSE [fqn |-> Fqn(x.system, o), resolved |-> TRUE, columns |-> DOMAIN o.columns]
  BY Zenon DEF resolve
<1>2. \A p \in found : p.name = ref[2] /\ p.schema = ref[1]
  OBVIOUS
<1> DEFINE missing == [fqn |-> <<x.system, ref[1], ref[2]>>, resolved |-> FALSE, columns |-> {}]
           known == [fqn |-> Fqn(x.system, o), resolved |-> TRUE, columns |-> DOMAIN o.columns]
<1> HIDE DEF found, o
<1>3. CASE found = {}
  <2>1. resolve(x, ref) = missing
    BY <1>1, <1>3, Zenon
  <2>2. missing.fqn = <<x.system, ref[1], ref[2]>>
    OBVIOUS
  <2> HIDE DEF missing
  <2> QED BY <2>1, <2>2
<1>4. CASE found # {}
  <2>1. o \in found
    BY <1>4 DEF o
  <2>2. Fqn(x.system, o) = <<x.system, ref[1], ref[2]>>
    BY <1>2, <2>1 DEF Fqn
  <2>3. resolve(x, ref) = known
    BY <1>1, <1>4, Zenon
  <2>4. known.fqn = Fqn(x.system, o)
    OBVIOUS
  <2> HIDE DEF known
  <2> QED BY <2>2, <2>3, <2>4, Zenon
<1> QED BY <1>3, <1>4

(* The attestations of one view.                                           *)
LEMMA ViewAttests ==
    ASSUME NEW s, NEW x, Snap(s, x), NEW o \in Defined(x)
    PROVE  /\ IsFiniteSet(_parse_definition(x, o))
           /\ \A a \in _parse_definition(x, o) : \E p \in Drawn(o) : edge_id(a) = EdgeOf(s, o, p)
           /\ \A p \in Drawn(o) : \E a \in _parse_definition(x, o) : edge_id(a) = EdgeOf(s, o, p)
<1> DEFINE d == o.stats["definition"]
           Edge(ref) == [source    |-> resolve(x, ref).fqn, source_resolved |-> resolve(x, ref).resolved,
                         target    |-> Fqn(x.system, o), target_resolved |-> TRUE,
                         operation |-> _operation(d),
                         evidence  |-> <<"sql-parse", d>>,
                         columns   |-> output_mappings(x, d, ref)]
           g == [ref \in d.reads |-> Edge(ref)]
<1>1. _parse_definition(x, o) = {Edge(ref) : ref \in d.reads}
  BY Zenon DEF _parse_definition
<1>2. o \in x.objects /\ o.kind \in DEFINED_KINDS /\ "definition" \in DOMAIN o.stats /\ x.system = s
  BY DEF Defined, Snap
<1>3. IsFiniteSet(d.reads) /\ \A ref \in d.reads : ref = <<ref[1], ref[2]>> /\ ref[1] # ""
  BY <1>2 DEF Snap
<1>4. Drawn(o) = {<<ref, _operation(d)>> : ref \in d.reads}
  BY <1>2 DEF Drawn, Definition
<1>5. ASSUME NEW ref \in d.reads PROVE edge_id(Edge(ref)) = EdgeOf(s, o, <<ref, _operation(d)>>)
  <2>1. resolve(x, ref).fqn = <<s, ref[1], ref[2]>>
    BY <1>2, <1>3, Resolved
  <2>2. edge_id(Edge(ref)) = <<resolve(x, ref).fqn, Fqn(s, o), _operation(d)>>
    BY <1>2 DEF edge_id
  <2> HIDE DEF Edge
  <2> QED BY <2>1, <2>2 DEF EdgeOf
<1>6. IsFiniteSet({g[ref] : ref \in d.reads})
  <2> DEFINE reads == d.reads
  <2>1. IsFiniteSet(reads)
    BY <1>3
  <2> HIDE DEF g, reads
  <2>2. IsFiniteSet({g[ref] : ref \in reads})
    BY <2>1, FiniteImage
  <2> QED BY <2>2 DEF reads
<1>7. {g[ref] : ref \in d.reads} = {Edge(ref) : ref \in d.reads}
  <2> HIDE DEF Edge, d
  <2> QED OBVIOUS
<1> HIDE DEF Edge, d, g
<1> QED BY <1>1, <1>4, <1>5, <1>6, <1>7

(* The attestations of a snapshot.                                         *)
LEMMA SnapshotAttests ==
    ASSUME NEW s, NEW x, Snap(s, x)
    PROVE  /\ IsFiniteSet(snapshot_attestations(x))
           /\ \A e : (\E a \in snapshot_attestations(x) : edge_id(a) = e) <=> OfView(x, s, e)
<1> DEFINE g == [o \in Defined(x) |-> _parse_definition(x, o)]
           A == snapshot_attestations(x)
<1>1. A = UNION {_parse_definition(x, o) : o \in Defined(x)}
  BY DEF snapshot_attestations
<1>2. IsFiniteSet(A)
  <2>1. IsFiniteSet(Defined(x))
    BY FS_Subset DEF Defined, Snap
  <2>2. {g[o] : o \in Defined(x)} = {_parse_definition(x, o) : o \in Defined(x)}
    OBVIOUS
  <2>3. IsFiniteSet({g[o] : o \in Defined(x)})
    <3> HIDE DEF g
    <3> QED BY <2>1, FiniteImage
  <2>4. \A o \in Defined(x) : IsFiniteSet(_parse_definition(x, o))
    BY ViewAttests
  <2> DEFINE Sets == {_parse_definition(x, o) : o \in Defined(x)}
  <2>5. IsFiniteSet(Sets) /\ \A T \in Sets : IsFiniteSet(T)
    BY <2>2, <2>3, <2>4
  <2> HIDE DEF Sets
  <2>6. IsFiniteSet(UNION Sets)
    BY <2>5, FS_UNION
  <2> QED BY <1>1, <2>6 DEF Sets
<1> HIDE DEF A
<1>3. ASSUME NEW a \in A PROVE OfView(x, s, edge_id(a))
  <2>1. PICK o \in Defined(x) : a \in _parse_definition(x, o)
    BY <1>1, <1>3
  <2>2. PICK p \in Drawn(o) : edge_id(a) = EdgeOf(s, o, p)
    BY <2>1, ViewAttests
  <2>3. o \in x.objects
    BY DEF Defined
  <2> QED BY <2>2, <2>3 DEF OfView
<1>4. ASSUME NEW e, OfView(x, s, e) PROVE \E a \in A : edge_id(a) = e
  <2>0. PICK o \in x.objects : \E p \in Drawn(o) : e = EdgeOf(s, o, p)
    BY <1>4 DEF OfView
  <2>1. PICK p \in Drawn(o) : e = EdgeOf(s, o, p)
    BY <2>0
  <2>2. o \in Defined(x)
    BY DEF Drawn, Definition, Defined
  <2>3. \E a \in _parse_definition(x, o) : edge_id(a) = EdgeOf(s, o, p)
    BY <2>2, ViewAttests
  <2> QED BY <1>1, <2>1, <2>2, <2>3
<1> QED BY <1>2, <1>3, <1>4 DEF A

(* The column mappings attestations of one edge have together.             *)
ColumnsOf(as) ==
    [out \in UNION {DOMAIN a.columns : a \in as} |->
        UNION {a.columns[out] : a \in {b \in as : out \in DOMAIN b.columns}}]

LEMMA MergeIs ==
    ASSUME NEW A
    PROVE  LET G == merge_attestations(A) IN
           /\ DOMAIN G.nodes = UNION {{a.source, a.target} : a \in A}
           /\ DOMAIN G.edges = {edge_id(a) : a \in A}
           /\ \A e \in DOMAIN G.edges : G.edges[e].columns = ColumnsOf({a \in A : edge_id(a) = e})
<1> DEFINE Of(id) == {a \in A : edge_id(a) = id}
           Edge(as) == [evidence |-> {a.evidence : a \in as},
                        trust    |-> Trust({a.evidence : a \in as}),
                        columns  |-> ColumnsOf(as)]
           Knows(fqn) == \E a \in A : \/ a.source = fqn /\ a.source_resolved
                                      \/ a.target = fqn /\ a.target_resolved
           Ends == UNION {{a.source, a.target} : a \in A}
           nodes == [fqn \in Ends |-> Knows(fqn)]
           edges == [id \in {edge_id(a) : a \in A} |-> Edge(Of(id))]
           G == merge_attestations(A)
<1>1. G = [nodes |-> nodes, edges |-> edges]
  BY Zenon DEF merge_attestations, ColumnsOf
<1>2. \A as : Edge(as).columns = ColumnsOf(as)
  OBVIOUS
<1> HIDE DEF Edge
<1>3. DOMAIN nodes = Ends /\ DOMAIN edges = {edge_id(a) : a \in A}
  OBVIOUS
<1>4. \A e \in DOMAIN edges : edges[e].columns = ColumnsOf(Of(e))
  BY <1>2
<1> HIDE DEF nodes, edges, G
<1>5. G.nodes = nodes /\ G.edges = edges
  BY <1>1
<1> QED BY <1>3, <1>4, <1>5 DEF G

(* A graph built from pins and publishes has their edges.                  *)
BuildOf(G, pins, gw) ==
    /\ Walkable(G)
    /\ \A e : e \in DOMAIN G.edges <=> Parsed(pins, e) \/ Published(gw, e)

LEMMA BuildIs ==
    ASSUME NEW pins, PinsOk(pins), NEW gw, IsFiniteSet(gw)
    PROVE  BuildOf(build_graph(Range(pins), gw), pins, gw)
<1> DEFINE views == UNION {snapshot_attestations(s) : s \in Range(pins)}
           A == views \cup gw
           G == merge_attestations(A)
           g == [s \in System |-> snapshot_attestations(pins[s])]
           Sets == {g[s] : s \in System}
<1>1. build_graph(Range(pins), gw) = G
  BY Zenon DEF build_graph
<1>2. \A s \in System : Snap(s, pins[s])
  BY DEF PinsOk
<1>3. views = UNION Sets
  <2>1. \A s \in System : g[s] = snapshot_attestations(pins[s])
    OBVIOUS
  <2>2. Range(pins) = {pins[s] : s \in System}
    BY DEF Range, PinsOk
  <2> HIDE DEF g
  <2>3. {snapshot_attestations(x) : x \in Range(pins)} = Sets
    BY <2>1, <2>2
  <2> QED BY <2>3
<1>4. \A s \in System : /\ IsFiniteSet(g[s])
                        /\ \A e : (\E a \in g[s] : edge_id(a) = e) <=> OfView(pins[s], s, e)
  BY <1>2, SnapshotAttests
<1> HIDE DEF g, views
<1>5. IsFiniteSet(Sets)
  BY FiniteImage, NameAssumption
<1>6. \A T \in Sets : IsFiniteSet(T)
  BY <1>4
<1>7. \A e : (\E a \in views : edge_id(a) = e) <=> Parsed(pins, e)
  <2>1. \A a : a \in views <=> \E s \in System : a \in g[s]
    BY <1>3
  <2> QED BY <1>4, <2>1 DEF Parsed
<1> HIDE DEF Sets
<1>8. IsFiniteSet(A)
  BY <1>3, <1>5, <1>6, FS_UNION, FS_Union
<1>9. \A e : (\E a \in A : edge_id(a) = e) <=> Parsed(pins, e) \/ Published(gw, e)
  BY <1>7 DEF Published
<1> HIDE DEF A
<1>10. /\ DOMAIN G.nodes = UNION {{a.source, a.target} : a \in A}
       /\ DOMAIN G.edges = {edge_id(a) : a \in A}
  BY MergeIs
<1> HIDE DEF G
<1>11. IsFiniteSet(DOMAIN G.nodes)
  <2> DEFINE h == [a \in A |-> {a.source, a.target}]
             Ends == {h[a] : a \in A}
  <2>1. \A a \in A : IsFiniteSet(h[a])
    <3>1. ASSUME NEW a \in A PROVE IsFiniteSet({a.source, a.target})
      <4>1. IsFiniteSet({a.source}) /\ IsFiniteSet({a.target})
        BY FS_Singleton
      <4>2. {a.source, a.target} = {a.source} \cup {a.target}
        OBVIOUS
      <4> QED BY <4>1, <4>2, FS_Union
    <3> QED BY <3>1
  <2>2. Ends = {{a.source, a.target} : a \in A}
    OBVIOUS
  <2> HIDE DEF h
  <2>3. IsFiniteSet(Ends)
    BY <1>8, FiniteImage
  <2>4. \A T \in Ends : IsFiniteSet(T)
    BY <2>1
  <2> HIDE DEF Ends
  <2>5. IsFiniteSet(UNION Ends)
    BY <2>3, <2>4, FS_UNION
  <2> QED BY <1>10, <2>2, <2>5
<1>12. ASSUME NEW e \in DOMAIN G.edges
       PROVE  e[1] \in DOMAIN G.nodes /\ e[2] \in DOMAIN G.nodes
  <2>1. PICK a \in A : e = edge_id(a)
    BY <1>10
  <2>2. e[1] = a.source /\ e[2] = a.target
    BY <2>1 DEF edge_id
  <2> QED BY <1>10, <2>2
<1>13. Walkable(G)
  BY <1>11, <1>12 DEF Walkable
<1>14. \A e : e \in DOMAIN G.edges <=> Parsed(pins, e) \/ Published(gw, e)
  BY <1>9, <1>10
<1> QED BY <1>1, <1>13, <1>14 DEF BuildOf

(* Publishes are recorded as such.                                         *)
GatewayOk(gw) == IsFiniteSet(gw) /\ \A a \in gw : a.operation = "ingest"

(* The lineage of a view has nothing of the publishes.                     *)
LEMMA LineageSame ==
    ASSUME NEW pins, NEW gw, GatewayOk(gw), NEW f
    PROVE  Lineage(build_graph(Range(pins), gw), f) = Lineage(build_graph(Range(pins), {}), f)
<1> DEFINE views == UNION {snapshot_attestations(s) : s \in Range(pins)}
           A == views \cup gw
           G == merge_attestations(A)
           H == merge_attestations(views)
<1>1. build_graph(Range(pins), gw) = G /\ build_graph(Range(pins), {}) = H
  <2>1. views \cup {} = views
    OBVIOUS
  <2>2. build_graph(Range(pins), {}) = merge_attestations(views \cup {})
    BY Zenon DEF build_graph
  <2>3. build_graph(Range(pins), gw) = G
    BY Zenon DEF build_graph
  <2> HIDE DEF views, G
  <2> QED BY <2>1, <2>2, <2>3
<1> HIDE DEF views
<1>2. \A a \in gw : edge_id(a)[3] = "ingest"
  BY DEF edge_id, GatewayOk
<1>3. /\ DOMAIN G.edges = {edge_id(a) : a \in A}
      /\ \A e \in DOMAIN G.edges : G.edges[e].columns = ColumnsOf({a \in A : edge_id(a) = e})
  BY MergeIs
<1>4. /\ DOMAIN H.edges = {edge_id(a) : a \in views}
      /\ \A e \in DOMAIN H.edges : H.edges[e].columns = ColumnsOf({a \in views : edge_id(a) = e})
  BY MergeIs
<1> HIDE DEF G, H
<1> DEFINE ids(g) == {e \in DOMAIN g.edges : e[2] = f /\ e[3] # "ingest"}
<1>5. ids(G) = ids(H)
  BY <1>2, <1>3, <1>4
<1>6. ASSUME NEW e \in ids(G) PROVE G.edges[e].columns = H.edges[e].columns
  <2>1. {a \in A : edge_id(a) = e} = {a \in views : edge_id(a) = e}
    BY <1>2
  <2>2. e \in DOMAIN G.edges /\ e \in DOMAIN H.edges
    BY <1>5
  <2>3. G.edges[e].columns = ColumnsOf({a \in A : edge_id(a) = e})
    BY <1>3, <2>2
  <2>4. H.edges[e].columns = ColumnsOf({a \in views : edge_id(a) = e})
    BY <1>4, <2>2
  <2> QED BY <2>1, <2>3, <2>4
<1>7. [e \in ids(G) |-> G.edges[e].columns] = [e \in ids(H) |-> H.edges[e].columns]
  BY <1>5, <1>6
<1> QED BY <1>1, <1>7 DEF Lineage

-----------------------------------------------------------------------------
(* What breaks                                                             *)

(* The value of a stat: none, or one.                                      *)
StatOf(o, stat) == IF stat \in DOMAIN o.stats THEN {o.stats[stat]} ELSE {}

IsSub(t) ==
    /\ DOMAIN t = {"change", "on", "severity", "downgradable"}
    /\ t.severity \in {"additive", "note", "breaking"}

(* A change that breaks whatever the lineage says.                         *)
Hard(t) == t.severity = "breaking" /\ ~t.downgradable

LEMMA SubDiffIs ==
    ASSUME NEW change, NEW on, NEW severity \in {"additive", "note", "breaking"},
           NEW downgradable
    PROVE  IsSub(SubDiff(change, on, severity, downgradable))
BY DEF SubDiff, IsSub

LEMMA HardSub ==
    ASSUME NEW change, NEW on
    PROVE  Hard(SubDiff(change, on, "breaking", FALSE))
BY DEF SubDiff, Hard

LEMMA ColumnSubs ==
    ASSUME NEW o, NEW n
    PROVE  /\ \A t \in _column_sub_diffs(o, n) : IsSub(t)
           /\ \A c \in DOMAIN o.columns :
                \/ c \notin DOMAIN n.columns
                \/ o.columns[c].type # n.columns[c].type \/ o.columns[c].ordinal # n.columns[c].ordinal
                => \E t \in _column_sub_diffs(o, n) : Hard(t)
<1>1. \A t \in _column_sub_diffs(o, n) : IsSub(t)
  <2> SUFFICES ASSUME NEW t \in _column_sub_diffs(o, n) PROVE IsSub(t)
    OBVIOUS
  <2>1. \E change, c : \/ t = SubDiff(change, c, "additive", FALSE)
                       \/ t = SubDiff(change, c, "note", FALSE)
                       \/ t = SubDiff(change, c, "breaking", FALSE)
    BY DEF _column_sub_diffs
  <2> QED BY <2>1, SubDiffIs
<1>2. ASSUME NEW c \in DOMAIN o.columns,
             \/ c \notin DOMAIN n.columns
             \/ o.columns[c].type # n.columns[c].type \/ o.columns[c].ordinal # n.columns[c].ordinal
      PROVE  \E t \in _column_sub_diffs(o, n) : Hard(t)
  <2>1. CASE c \notin DOMAIN n.columns
    <3>1. SubDiff("column_removed", c, "breaking", FALSE) \in _column_sub_diffs(o, n)
      BY <2>1 DEF _column_sub_diffs
    <3> QED BY <3>1, HardSub
  <2>2. CASE c \in DOMAIN n.columns /\ o.columns[c].type # n.columns[c].type
    <3>1. SubDiff("column_type_changed", c, "breaking", FALSE) \in _column_sub_diffs(o, n)
      BY <2>2 DEF _column_sub_diffs
    <3> QED BY <3>1, HardSub
  <2>3. CASE c \in DOMAIN n.columns /\ o.columns[c].ordinal # n.columns[c].ordinal
    <3>1. SubDiff("column_ordinal_changed", c, "breaking", FALSE) \in _column_sub_diffs(o, n)
      BY <2>3 DEF _column_sub_diffs
    <3> QED BY <3>1, HardSub
  <2> QED BY <1>2, <2>1, <2>2, <2>3
<1> QED BY <1>1, <1>2

LEMMA KeySubs ==
    ASSUME NEW o, NEW n
    PROVE  /\ \A t \in _key_sub_diffs(o, n) : IsSub(t)
           /\ \A k \in DOMAIN o.keys :
                k \notin DOMAIN n.keys \/ o.keys[k] # n.keys[k] => \E t \in _key_sub_diffs(o, n) : Hard(t)
<1>1. \A t \in _key_sub_diffs(o, n) : IsSub(t)
  BY SubDiffIs DEF _key_sub_diffs
<1>2. ASSUME NEW k \in DOMAIN o.keys, k \notin DOMAIN n.keys \/ o.keys[k] # n.keys[k]
      PROVE  \E t \in _key_sub_diffs(o, n) : Hard(t)
  <2>1. CASE k \notin DOMAIN n.keys
    <3>1. SubDiff("key_removed", k, "breaking", FALSE) \in _key_sub_diffs(o, n)
      BY <2>1 DEF _key_sub_diffs
    <3> QED BY <3>1, HardSub
  <2>2. CASE k \in DOMAIN n.keys /\ o.keys[k] # n.keys[k]
    <3>1. SubDiff("key_altered", k, "breaking", FALSE) \in _key_sub_diffs(o, n)
      BY <2>2 DEF _key_sub_diffs
    <3> QED BY <3>1, HardSub
  <2> QED BY <1>2, <2>1, <2>2
<1> QED BY <1>1, <1>2

LEMMA StatSubs ==
    ASSUME NEW o, NEW n
    PROVE  /\ \A t \in _stats_sub_diffs(o, n) : IsSub(t)
           /\ \A stat \in KIND_REGISTRY[o.kind].included : StatOf(o, stat) # StatOf(n, stat) =>
                \E t \in _stats_sub_diffs(o, n) :
                   IF stat = "definition" THEN t.severity = "breaking" /\ t.change = "definition_changed"
                                          ELSE Hard(t)
<1> DEFINE included == KIND_REGISTRY[o.kind].included
           Moved == {stat \in included : StatOf(o, stat) # StatOf(n, stat)}
           Sub(stat) == IF stat = "definition" THEN SubDiff("definition_changed", stat, "breaking", TRUE)
                                               ELSE SubDiff("stat_changed", stat, "breaking", FALSE)
<1>1. _stats_sub_diffs(o, n) = {Sub(stat) : stat \in Moved}
  BY Zenon DEF _stats_sub_diffs, StatOf
<1>2. \A stat : IsSub(Sub(stat))
  BY SubDiffIs
<1>3. ASSUME NEW stat
      PROVE  IF stat = "definition"
             THEN Sub(stat).severity = "breaking" /\ Sub(stat).change = "definition_changed"
             ELSE Hard(Sub(stat))
  BY HardSub DEF SubDiff
<1> HIDE DEF Sub, included
<1>4. \A t \in _stats_sub_diffs(o, n) : IsSub(t)
  BY <1>1, <1>2
<1>5. ASSUME NEW stat \in included, StatOf(o, stat) # StatOf(n, stat)
      PROVE  \E t \in _stats_sub_diffs(o, n) :
                IF stat = "definition" THEN t.severity = "breaking" /\ t.change = "definition_changed"
                                       ELSE Hard(t)
  <2>1. Sub(stat) \in _stats_sub_diffs(o, n)
    BY <1>1, <1>5
  <2> QED BY <1>3, <2>1
<1> QED BY <1>4, <1>5 DEF included

(* Among severities that are known, one that breaks is the greatest.       *)
LEMMA MaxBreaks ==
    ASSUME NEW subs, \A t \in subs : t.severity \in {"additive", "note", "breaking"},
           NEW t \in subs, t.severity = "breaking"
    PROVE  _max_severity(subs) = "breaking"
<1> DEFINE P(x) == \A y \in subs : Rank[y.severity] <= Rank[x.severity]
           m == CHOOSE x \in subs : P(x)
<1>1. Rank["additive"] = 1 /\ Rank["note"] = 2 /\ Rank["breaking"] = 3
  BY DEF Rank
<1>2. P(t)
  BY <1>1
<1>3. m \in subs /\ P(m)
  BY <1>2
<1>4. _max_severity(subs) = m.severity
  BY DEF _max_severity
<1> HIDE DEF m
<1>5. Rank[t.severity] <= Rank[m.severity]
  BY <1>3
<1> QED BY <1>1, <1>3, <1>4, <1>5

(* An entry with a change that breaks, and is not downgraded, breaks.      *)
LEMMA SettledBreaks ==
    ASSUME NEW kept, NEW o, NEW n, NEW t \in SubDiffs(o, n), t.severity = "breaking",
           ~(t.downgradable /\ kept)
    PROVE  Settle(kept, Entry(o, n)).severity = "breaking"
<1> DEFINE x == Entry(o, n)
           subs == {SettledSub(kept, u) : u \in SubDiffs(o, n)}
           y == Settle(kept, x)
<1>1. \A u \in SubDiffs(o, n) : IsSub(u)
  BY ColumnSubs, KeySubs, StatSubs DEF SubDiffs
<1>2. ASSUME NEW u, IsSub(u)
      PROVE  SettledSub(kept, u).severity = IF u.downgradable /\ kept THEN "note" ELSE u.severity
  BY <1>2 DEF SettledSub, IsSub
<1>3. \A u \in SubDiffs(o, n) : u.severity \in {"additive", "note", "breaking"}
  BY <1>1 DEF IsSub
<1>4. _max_severity(subs) = "breaking"
  <2>1. \A v \in subs : v.severity \in {"additive", "note", "breaking"}
    BY <1>1, <1>2, <1>3
  <2>2. SettledSub(kept, t) \in subs /\ SettledSub(kept, t).severity = "breaking"
    BY <1>1, <1>2
  <2> HIDE DEF subs
  <2> QED BY <2>1, <2>2, MaxBreaks
<1>5. _max_severity(SubDiffs(o, n)) = "breaking"
  BY <1>3, MaxBreaks
<1>6. DOMAIN x = {"id", "class", "severity", "subs"} /\ x.severity = "breaking" /\ x.subs = SubDiffs(o, n)
  BY <1>5 DEF Entry
<1> HIDE DEF x
<1>7. y = [x EXCEPT !.subs = {SettledSub(kept, u) : u \in x.subs},
                    !.severity = IF \E u \in x.subs : u.downgradable
                                 THEN _max_severity({SettledSub(kept, u) : u \in x.subs}) ELSE @]
  BY Zenon DEF Settle
<1>8. y.severity = IF \E u \in x.subs : u.downgradable
                   THEN _max_severity({SettledSub(kept, u) : u \in x.subs}) ELSE x.severity
  <2> DEFINE new == {SettledSub(kept, u) : u \in x.subs}
             top == IF \E u \in x.subs : u.downgradable THEN _max_severity(new) ELSE x.severity
  <2>1. y = [x EXCEPT !.subs = new, !.severity = top]
    BY <1>7, Zenon
  <2> HIDE DEF new, top, y
  <2>2. y.severity = top
    BY <1>6, <2>1
  <2> QED BY <2>2 DEF top, new
<1> HIDE DEF y
<1> QED BY <1>4, <1>6, <1>8 DEF y, x

(* Equal hashes leave nothing a diff looks at changed.                     *)
LEMMA SameHash ==
    ASSUME NEW o, NEW n, o.schema_hash = schema_hash(o), n.schema_hash = schema_hash(n),
           o.schema_hash = n.schema_hash
    PROVE  /\ o.columns = n.columns /\ o.keys = n.keys
           /\ \A stat \in KIND_REGISTRY[o.kind].included : StatOf(o, stat) = StatOf(n, stat)
<1> DEFINE So == DOMAIN o.stats \cap KIND_REGISTRY[o.kind].included
           Sn == DOMAIN n.stats \cap KIND_REGISTRY[n.kind].included
           so == Restrict(o.stats, So)
           sn == Restrict(n.stats, Sn)
<1>1. [identity |-> Identity(o), columns |-> o.columns, keys |-> o.keys, stats |-> so]
       = [identity |-> Identity(n), columns |-> n.columns, keys |-> n.keys, stats |-> sn]
  BY Zenon DEF schema_hash, structural_projection
<1>2. DOMAIN so = So /\ DOMAIN sn = Sn
  BY DEF Restrict
<1>3. (\A stat \in So : so[stat] = o.stats[stat]) /\ (\A stat \in Sn : sn[stat] = n.stats[stat])
  BY DEF Restrict
<1> HIDE DEF so, sn
<1>4. Identity(o) = Identity(n) /\ o.columns = n.columns /\ o.keys = n.keys /\ so = sn
  BY <1>1
<1>5. o.kind = n.kind
  BY <1>4 DEF Identity
<1> QED BY <1>2, <1>3, <1>4, <1>5 DEF StatOf

(* A dependent of f, object o before and n after, cannot tell them apart.  *)
Kept(kb, new, f, o, n) ==
    /\ Identity(n) = Identity(o)
    /\ \A c \in DOMAIN o.columns : /\ c \in DOMAIN n.columns
                                   /\ o.columns[c].type = n.columns[c].type
                                   /\ o.columns[c].ordinal = n.columns[c].ordinal
    /\ \A k \in DOMAIN o.keys : k \in DOMAIN n.keys /\ o.keys[k] = n.keys[k]
    /\ Facts(o) = Facts(n)
    /\ Drawn(o) = Drawn(n)
    /\ Definition(o) # Definition(n) => Lineage(kb.graph, f) = Lineage(build_graph(Range(new), {}), f)

LEMMA ContradictedIs ==
    ASSUME NEW kb, PinsOk(kb.pins), NEW new, NEW s \in System, NEW o \in kb.pins[s].objects,
           Contradicted(kb, new, Fqn(s, o)), NEW n \in new[s].objects
    PROVE  ~Kept(kb, new, Fqn(s, o), o, n)
<1> DEFINE f == Fqn(s, o)
           p == CHOOSE q \in kb.pins[f[1]].objects : Fqn(f[1], q) = f
           Lost(was, is) == \E x \in DOMAIN was : x \notin DOMAIN is \/ was[x] # is[x]
           Bare(columns) == [c \in DOMAIN columns |-> <<columns[c].type, columns[c].ordinal>>]
           Redrawn(was, m) == \/ Drawn(was) # Drawn(m)
                              \/ /\ Definition(was) # Definition(m)
                                 /\ Lineage(kb.graph, f) # Lineage(build_graph(Range(new), {}), f)
           Same(was, m) ==
               /\ Identity(m) = Identity(was)
               /\ ~Lost(Bare(was.columns), Bare(m.columns)) /\ ~Lost(was.keys, m.keys)
               /\ Facts(was) = Facts(m)
               /\ ~Redrawn(was, m)
<1>1. ~\E m \in new[f[1]].objects : Same(p, m)
  BY Zenon DEF Contradicted
<1>2. f[1] = s
  BY DEF Fqn
<1>3. p = o
  <2>1. \A q \in kb.pins[s].objects : Fqn(s, q) = f => q = o
    BY DEF PinsOk, Snap, Fqn
  <2> HIDE DEF f
  <2> QED BY <1>2, <2>1 DEF f
<1> HIDE DEF p, Same, f
<1>4. ~Same(o, n)
  BY <1>1, <1>2, <1>3
<1> SUFFICES ASSUME Kept(kb, new, f, o, n) PROVE FALSE
  BY DEF f
<1>5. ~Lost(Bare(o.columns), Bare(n.columns))
  BY DEF Kept
<1>6. ~Lost(o.keys, n.keys)
  BY DEF Kept
<1>7. ~Redrawn(o, n) /\ Facts(o) = Facts(n) /\ Identity(n) = Identity(o)
  BY DEF Kept
<1> HIDE DEF Lost, Bare, Redrawn
<1> QED BY <1>4, <1>5, <1>6, <1>7 DEF Same

(* The facts of objects of one kind are their stats.                       *)
LEMMA SameFacts ==
    ASSUME NEW o, NEW n, o.kind = n.kind,
           \A stat \in KIND_REGISTRY[o.kind].included \ {"definition"} : StatOf(o, stat) = StatOf(n, stat)
    PROVE  Facts(o) = Facts(n)
<1> DEFINE inc == KIND_REGISTRY[o.kind].included
           So == (DOMAIN o.stats \cap inc) \ {"definition"}
           Sn == (DOMAIN n.stats \cap inc) \ {"definition"}
<1>1. Facts(o) = [stat \in So |-> o.stats[stat]] /\ Facts(n) = [stat \in Sn |-> n.stats[stat]]
  BY DEF Facts, Restrict
<1> HIDE DEF inc
<1>2. So = Sn
  BY DEF StatOf, inc
<1>3. \A stat \in So : o.stats[stat] = n.stats[stat]
  BY <1>2 DEF StatOf, inc
<1> HIDE DEF So, Sn
<1> QED BY <1>1, <1>2, <1>3

LEMMA SameDefinition ==
    ASSUME NEW o, NEW n, o.kind = n.kind
    PROVE  /\ Definition(o) # Definition(n) =>
                /\ o.kind \in DEFINED_KINDS /\ StatOf(o, "definition") # StatOf(n, "definition")
                /\ "definition" \in KIND_REGISTRY[o.kind].included
           /\ Definition(o) = Definition(n) => Drawn(o) = Drawn(n)
<1>1. \A kind \in DEFINED_KINDS : "definition" \in KIND_REGISTRY[kind].included
  BY DEF DEFINED_KINDS, KIND_REGISTRY
<1>2. Definition(o) # Definition(n) =>
        o.kind \in DEFINED_KINDS /\ StatOf(o, "definition") # StatOf(n, "definition")
  BY DEF Definition, StatOf
<1>3. Definition(o) = Definition(n) => Drawn(o) = Drawn(n)
  BY DEF Drawn
<1> QED BY <1>1, <1>2, <1>3

(* What is not kept has a change that breaks: one that no lineage          *)
(* downgrades, or a definition that draws on something else.               *)
LEMMA NotKept ==
    ASSUME NEW kb, NEW new, NEW f, NEW o, NEW n, Identity(o) = Identity(n),
           ~Kept(kb, new, f, o, n)
    PROVE  \/ \E t \in SubDiffs(o, n) : Hard(t)
           \/ /\ Definition(o) # Definition(n)
              /\ \/ Drawn(o) # Drawn(n)
                 \/ Lineage(kb.graph, f) # Lineage(build_graph(Range(new), {}), f)
<1>1. o.kind = n.kind
  BY DEF Identity
<1>2. CASE \E c \in DOMAIN o.columns : \/ c \notin DOMAIN n.columns
                                       \/ o.columns[c].type # n.columns[c].type
                                       \/ o.columns[c].ordinal # n.columns[c].ordinal
  BY <1>2, ColumnSubs DEF SubDiffs
<1>3. CASE \E k \in DOMAIN o.keys : k \notin DOMAIN n.keys \/ o.keys[k] # n.keys[k]
  BY <1>3, KeySubs DEF SubDiffs
<1>4. CASE Facts(o) # Facts(n)
  <2>1. PICK stat \in KIND_REGISTRY[o.kind].included \ {"definition"} : StatOf(o, stat) # StatOf(n, stat)
    BY <1>1, <1>4, SameFacts
  <2>2. \E t \in _stats_sub_diffs(o, n) : Hard(t)
    BY <2>1, StatSubs
  <2> QED BY <2>2 DEF SubDiffs
<1>5. CASE Drawn(o) # Drawn(n)
  BY <1>1, <1>5, SameDefinition
<1>6. CASE Definition(o) # Definition(n) /\ Lineage(kb.graph, f) # Lineage(build_graph(Range(new), {}), f)
  BY <1>6
<1> QED BY <1>2, <1>3, <1>4, <1>5, <1>6 DEF Kept

(* A graph that has the edges of the pins, and beside them only publishes. *)
GraphOf(G, pins, gw) ==
    /\ Walkable(G)
    /\ \A e : Parsed(pins, e) => e \in DOMAIN G.edges
    /\ \A e \in DOMAIN G.edges : Parsed(pins, e) \/ Published(gw, e)

(* What a view draws on, in the form of its relations and operation.       *)
LEMMA DrawnIs ==
    ASSUME NEW s, NEW x, Snap(s, x), NEW o \in x.objects, NEW p \in Drawn(o)
    PROVE  p = <<<<p[1][1], p[1][2]>>, p[2]>> /\ p[2] # "ingest"
<1>1. PICK d \in Definition(o) : p \in {<<ref, _operation(d)>> : ref \in d.reads}
  BY DEF Drawn
<1>2. PICK ref \in d.reads : p = <<ref, _operation(d)>>
  BY <1>1
<1>3. o.kind \in DEFINED_KINDS /\ "definition" \in DOMAIN o.stats /\ d = o.stats["definition"]
  BY <1>1 DEF Definition
<1>4. ref = <<ref[1], ref[2]>>
  BY <1>3 DEF Snap
<1>5. _operation(d) # "ingest"
  BY NoViewIngests
<1> QED BY <1>2, <1>4, <1>5

(* The edges into an object that are not publishes are what it draws on.   *)
Derived(G, pins, gw) == PinsOk(pins) /\ GatewayOk(gw) /\ GraphOf(G, pins, gw)

Into(G, s, o) ==
    \A e : e \in DOMAIN G.edges /\ e[2] = Fqn(s, o) /\ e[3] # "ingest"
             <=> \E p \in Drawn(o) : e = EdgeOf(s, o, p)

LEMMA EdgesInto ==
    ASSUME NEW G, NEW pins, NEW gw, Derived(G, pins, gw),
           NEW s \in System, NEW o \in pins[s].objects
    PROVE  Into(G, s, o)
<1> SUFFICES ASSUME NEW e
             PROVE  e \in DOMAIN G.edges /\ e[2] = Fqn(s, o) /\ e[3] # "ingest"
                      <=> \E p \in Drawn(o) : e = EdgeOf(s, o, p)
  BY DEF Into
<1>0. PinsOk(pins) /\ GatewayOk(gw) /\ GraphOf(G, pins, gw)
  BY DEF Derived
<1>1. \A t \in System : Snap(t, pins[t])
  BY <1>0 DEF PinsOk
<1>2. ASSUME NEW p \in Drawn(o), e = EdgeOf(s, o, p)
      PROVE  e \in DOMAIN G.edges /\ e[2] = Fqn(s, o) /\ e[3] # "ingest"
  <2>1. e[2] = Fqn(s, o) /\ e[3] = p[2]
    BY <1>2 DEF EdgeOf
  <2>2. Parsed(pins, e)
    BY <1>2 DEF Parsed, OfView
  <2>3. p[2] # "ingest"
    BY <1>1, DrawnIs
  <2> QED BY <1>0, <2>1, <2>2, <2>3 DEF GraphOf
<1>3. ASSUME e \in DOMAIN G.edges, e[2] = Fqn(s, o), e[3] # "ingest"
      PROVE  \E p \in Drawn(o) : e = EdgeOf(s, o, p)
  <2>1. ~Published(gw, e)
    BY <1>0, <1>3 DEF Published, edge_id, GatewayOk
  <2>2. Parsed(pins, e)
    BY <1>0, <1>3, <2>1 DEF GraphOf
  <2>3. PICK t \in System : OfView(pins[t], t, e)
    BY <2>2 DEF Parsed
  <2>4. PICK q \in pins[t].objects : \E p \in Drawn(q) : e = EdgeOf(t, q, p)
    BY <2>3 DEF OfView
  <2>5. Fqn(t, q) = Fqn(s, o)
    BY <1>3, <2>4 DEF EdgeOf
  <2>6. t = s /\ q.schema = o.schema /\ q.name = o.name
    BY <2>5 DEF Fqn
  <2>7. q = o
    <3>1. \A x, y \in pins[s].objects : x.schema = y.schema /\ x.name = y.name => x = y
      BY <1>1 DEF Snap
    <3> QED BY <2>6, <3>1
  <2> QED BY <2>4, <2>6, <2>7
<1> QED BY <1>2, <1>3

(* Equal incoming edges are equal lineage, of views that draw on the same. *)
LEMMA SameIncoming ==
    ASSUME NEW G, NEW H, NEW pins, NEW new, NEW gw, Derived(G, pins, gw), Derived(H, new, gw),
           NEW s \in System, NEW o \in pins[s].objects, NEW n \in new[s].objects,
           Identity(o) = Identity(n), _incoming(G, Fqn(s, o)) = _incoming(H, Fqn(s, o))
    PROVE  Drawn(o) = Drawn(n) /\ Lineage(G, Fqn(s, o)) = Lineage(H, Fqn(s, o))
<1> DEFINE f == Fqn(s, o)
           iG == {e \in DOMAIN G.edges : e[2] = f}
           iH == {e \in DOMAIN H.edges : e[2] = f}
           G1 == [e \in iG |-> G.edges[e].columns]
           H1 == [e \in iH |-> H.edges[e].columns]
<1>1. G1 = H1
  BY DEF _incoming
<1>2. iG = iH
  <2>1. DOMAIN G1 = iG /\ DOMAIN H1 = iH
    OBVIOUS
  <2> HIDE DEF G1, H1
  <2> QED BY <1>1, <2>1
<1>3. \A e \in iG : G.edges[e].columns = H.edges[e].columns
  <2>1. \A e \in iG : G1[e] = G.edges[e].columns
    OBVIOUS
  <2>2. \A e \in iH : H1[e] = H.edges[e].columns
    OBVIOUS
  <2> HIDE DEF G1, H1, iG, iH
  <2> QED BY <1>1, <1>2, <2>1, <2>2
<1>4. Fqn(s, n) = f
  BY DEF Identity, Fqn
<1>5. \A e : (\E p \in Drawn(o) : e = EdgeOf(s, o, p)) <=> e \in iG /\ e[3] # "ingest"
  <2>1. Into(G, s, o)
    BY EdgesInto
  <2> QED BY <2>1 DEF Into
<1>6. \A e : (\E p \in Drawn(n) : e = EdgeOf(s, n, p)) <=> e \in iH /\ e[3] # "ingest"
  <2>1. Into(H, s, n)
    BY EdgesInto
  <2> QED BY <1>4, <2>1 DEF Into
<1>7. \A p : EdgeOf(s, o, p) = <<<<s, p[1][1], p[1][2]>>, f, p[2]>>
             /\ EdgeOf(s, n, p) = <<<<s, p[1][1], p[1][2]>>, f, p[2]>>
  BY <1>4 DEF EdgeOf
<1>8. /\ \A p \in Drawn(o) : p = <<<<p[1][1], p[1][2]>>, p[2]>>
      /\ \A p \in Drawn(n) : p = <<<<p[1][1], p[1][2]>>, p[2]>>
  BY DrawnIs DEF Derived, PinsOk
<1> HIDE DEF iG, iH, f
<1>9. ASSUME NEW p \in Drawn(o) PROVE p \in Drawn(n)
  <2>1. PICK q \in Drawn(n) : EdgeOf(s, o, p) = EdgeOf(s, n, q)
    BY <1>2, <1>5, <1>6
  <2>2. p[1][1] = q[1][1] /\ p[1][2] = q[1][2] /\ p[2] = q[2]
    <3>1. <<<<s, p[1][1], p[1][2]>>, f, p[2]>> = <<<<s, q[1][1], q[1][2]>>, f, q[2]>>
      BY <1>7, <2>1, Zenon
    <3> QED BY <3>1
  <2>3. p = q
    BY <1>8, <2>2
  <2> QED BY <2>3
<1>10. ASSUME NEW p \in Drawn(n) PROVE p \in Drawn(o)
  <2>1. PICK q \in Drawn(o) : EdgeOf(s, n, p) = EdgeOf(s, o, q)
    BY <1>2, <1>5, <1>6
  <2>2. p[1][1] = q[1][1] /\ p[1][2] = q[1][2] /\ p[2] = q[2]
    <3>1. <<<<s, p[1][1], p[1][2]>>, f, p[2]>> = <<<<s, q[1][1], q[1][2]>>, f, q[2]>>
      BY <1>7, <2>1, Zenon
    <3> QED BY <3>1
  <2>3. p = q
    BY <1>8, <2>2
  <2> QED BY <2>3
<1>11. Lineage(G, f) = Lineage(H, f)
  <2> DEFINE lG == {e \in DOMAIN G.edges : e[2] = f /\ e[3] # "ingest"}
             lH == {e \in DOMAIN H.edges : e[2] = f /\ e[3] # "ingest"}
  <2>1. lG = lH /\ \A e \in lG : e \in iG
    BY <1>2 DEF iG, iH
  <2>2. [e \in lG |-> G.edges[e].columns] = [e \in lH |-> H.edges[e].columns]
    BY <1>3, <2>1
  <2> QED BY <2>2 DEF Lineage
<1> QED BY <1>9, <1>10, <1>11 DEF f

-----------------------------------------------------------------------------
(* What a run marks                                                        *)

(* The graph a run walks: derived from the pins it proposes, or HEAD's.    *)
Required == lineageRequired(Diffs, head.graph) \/ GatewayPending
RunGraph(graph, pins) == graph = IF Required THEN build_graph(Range(pins), gateway) ELSE head.graph

LEMMA DiffThere ==
    ASSUME PinsOk(head.pins), PinsOk(taken), NEW s \in System
    PROVE  \E D \in Diffs : D.system = s /\ DiffOf(D, head.pins[s], taken[s])
<1> DEFINE D == diff_snapshots(head.pins[s], taken[s])
<1>1. Snap(s, head.pins[s]) /\ Snap(s, taken[s])
  BY DEF PinsOk
<1>2. DiffOf(D, head.pins[s], taken[s])
  BY <1>1, DiffIs
<1>3. D \in Diffs
  BY DEF Diffs
<1> HIDE DEF D
<1>4. D.system = s
  BY <1>1, <1>2 DEF DiffOf, Snap
<1> QED BY <1>2, <1>3, <1>4

(* Another definition has the graph derived again ...                      *)
LEMMA DefinitionRequires ==
    ASSUME PinsOk(head.pins), PinsOk(taken), NEW s \in System, NEW o, NEW n,
           Matched(head.pins[s], taken[s], o, n), Definition(o) # Definition(n)
    PROVE  /\ o.schema_hash # n.schema_hash
           /\ \E t \in SubDiffs(o, n) : t.severity = "breaking" /\ t.change = "definition_changed"
           /\ Required
<1>1. o.kind = n.kind
  BY DEF Matched, Identity
<1>2. /\ "definition" \in KIND_REGISTRY[o.kind].included
      /\ StatOf(o, "definition") # StatOf(n, "definition")
  BY <1>1, SameDefinition
<1>3. o.schema_hash = schema_hash(o) /\ n.schema_hash = schema_hash(n)
  BY DEF Matched, PinsOk, Snap
<1>4. o.schema_hash # n.schema_hash
  BY <1>2, <1>3, SameHash
<1>5. PICK t \in _stats_sub_diffs(o, n) : t.severity = "breaking" /\ t.change = "definition_changed"
  BY <1>2, StatSubs
<1>6. t \in SubDiffs(o, n)
  BY DEF SubDiffs
<1>7. PICK D \in Diffs : D.system = s /\ DiffOf(D, head.pins[s], taken[s])
  BY DiffThere
<1>8. Entry(o, n) \in D.structural
  BY <1>4, <1>7 DEF DiffOf
<1>9. Entry(o, n).subs = SubDiffs(o, n)
  BY DEF Entry
<1>10. Required
  BY <1>5, <1>6, <1>7, <1>8, <1>9 DEF Required, lineageRequired
<1> QED BY <1>4, <1>5, <1>6, <1>10

(* ... and so has a view that comes or goes.                               *)
LEMMA ViewRequires ==
    ASSUME PinsOk(head.pins), PinsOk(taken), NEW s \in System, ~Required
    PROVE  /\ \A o \in head.pins[s].objects : o.kind \in DEFINED_KINDS =>
                \E n \in taken[s].objects : Identity(n) = Identity(o)
           /\ \A n \in taken[s].objects : n.kind \in DEFINED_KINDS =>
                \E o \in head.pins[s].objects : Identity(n) = Identity(o)
<1>1. PICK D \in Diffs : D.system = s /\ DiffOf(D, head.pins[s], taken[s])
  BY DiffThere
<1>2. \A i \in D.added \cup D.removed : i[1] \notin DEFINED_KINDS
  BY <1>1 DEF Required, lineageRequired
<1>3. \A o : Identity(o)[1] = o.kind
  BY DEF Identity
<1> QED BY <1>1, <1>2, <1>3 DEF DiffOf

(* Proposed pins have HEAD's object, or one the diff compares it with.     *)
LEMMA ProposedPins ==
    ASSUME PinsOk(head.pins), PinsOk(taken), NEW pins, pins = Pins(Changed(Diffs))
    PROVE  /\ PinsOk(pins)
           /\ \A s \in System : pins[s] = head.pins[s] \/ pins[s] = taken[s]
BY PinsAre

(* A graph that is not derived again has the edges of the new pins.        *)
LEMMA RunGraphOk ==
    ASSUME PinsOk(head.pins), PinsOk(taken), NEW pins, pins = Pins(Changed(Diffs)),
           GatewayOk(gateway), GraphOf(head.graph, head.pins, gateway),
           NEW graph, RunGraph(graph, pins)
    PROVE  /\ GraphOf(graph, pins, gateway)
           /\ Required => \A e : Published(gateway, e) => e \in DOMAIN graph.edges
<1>1. PinsOk(pins) /\ \A s \in System : pins[s] = head.pins[s] \/ pins[s] = taken[s]
  BY ProposedPins
<1>2. CASE Required
  <2>1. graph = build_graph(Range(pins), gateway)
    BY <1>2 DEF RunGraph
  <2>2. BuildOf(graph, pins, gateway)
    BY <1>1, <2>1, BuildIs DEF GatewayOk
  <2> QED BY <2>2 DEF BuildOf, GraphOf
<1>3. CASE ~Required
  <2>1. graph = head.graph
    BY <1>3 DEF RunGraph
  <2>2. ASSUME NEW s \in System, NEW e
        PROVE  OfView(pins[s], s, e) <=> OfView(head.pins[s], s, e)
    <3>1. CASE pins[s] = head.pins[s]
      BY <3>1
    <3>2. CASE pins[s] = taken[s]
      <4>1. ASSUME NEW o, NEW n, Matched(head.pins[s], taken[s], o, n), NEW p
            PROVE  Drawn(o) = Drawn(n) /\ EdgeOf(s, o, p) = EdgeOf(s, n, p)
        <5>1. Definition(o) = Definition(n)
          BY <1>3, <4>1, DefinitionRequires
        <5>2. Drawn(o) = Drawn(n)
          BY <5>1 DEF Drawn
        <5>3. Fqn(s, o) = Fqn(s, n)
          BY <4>1 DEF Matched, Identity, Fqn
        <5> QED BY <5>2, <5>3 DEF EdgeOf
      <4>2. ASSUME NEW o, NEW p \in Drawn(o) PROVE o.kind \in DEFINED_KINDS
        BY <4>2 DEF Drawn, Definition
      <4>3. ASSUME NEW o \in head.pins[s].objects, NEW p \in Drawn(o), e = EdgeOf(s, o, p)
            PROVE  OfView(taken[s], s, e)
        <5>1. PICK n \in taken[s].objects : Identity(n) = Identity(o)
          BY <1>3, <4>2, ViewRequires
        <5>2. Matched(head.pins[s], taken[s], o, n)
          BY <5>1 DEF Matched
        <5> QED BY <4>1, <4>3, <5>2 DEF OfView
      <4>4. ASSUME NEW n \in taken[s].objects, NEW p \in Drawn(n), e = EdgeOf(s, n, p)
            PROVE  OfView(head.pins[s], s, e)
        <5>1. PICK o \in head.pins[s].objects : Identity(n) = Identity(o)
          BY <1>3, <4>2, ViewRequires
        <5>2. Matched(head.pins[s], taken[s], o, n)
          BY <5>1 DEF Matched
        <5> QED BY <4>1, <4>4, <5>2 DEF OfView
      <4> QED BY <3>2, <4>3, <4>4 DEF OfView
    <3> QED BY <1>1, <3>1, <3>2
  <2>3. \A e : Parsed(pins, e) <=> Parsed(head.pins, e)
    BY <2>2 DEF Parsed
  <2> QED BY <1>3, <2>1, <2>3 DEF GraphOf
<1> QED BY <1>2, <1>3

(* What a run contradicts, it finds breaking.                              *)
LEMMA ContradictionBreaks ==
    ASSUME PinsOk(head.pins), PinsOk(taken), NEW pins, pins = Pins(Changed(Diffs)),
           GatewayOk(gateway), GraphOf(head.graph, head.pins, gateway),
           NEW graph, RunGraph(graph, pins),
           NEW s \in System, NEW o \in head.pins[s].objects, Contradicted(head, pins, Fqn(s, o))
    PROVE  Fqn(s, o) \in Breaking(Finals(graph))
<1> DEFINE f == Fqn(s, o)
<1>1. PinsOk(pins) /\ (pins[s] = head.pins[s] \/ pins[s] = taken[s])
  BY ProposedPins
<1>2. \A n \in pins[s].objects : ~Kept(head, pins, f, o, n)
  BY ContradictedIs
<1>3. Kept(head, head.pins, f, o, o) /\ Kept(head, pins, f, o, o)
  BY DEF Kept
<1>4. pins[s] = taken[s]
  BY <1>1, <1>2, <1>3
<1>5. CASE \A n \in taken[s].objects : Identity(n) # Identity(o)
  BY <1>5, GoneBreaks
<1>6. ASSUME NEW n \in taken[s].objects, Identity(n) = Identity(o)
      PROVE  f \in Breaking(Finals(graph))
  <2> DEFINE e == Entry(o, n)
             kept == Untouched(s, head.graph, graph, e)
  <2>1. Matched(head.pins[s], taken[s], o, n)
    BY <1>6 DEF Matched
  <2>2. \/ \E t \in SubDiffs(o, n) : Hard(t)
        \/ /\ Definition(o) # Definition(n)
           /\ \/ Drawn(o) # Drawn(n)
              \/ Lineage(head.graph, f) # Lineage(build_graph(Range(pins), {}), f)
    BY <1>2, <1>4, <1>6, NotKept
  <2>3. o.schema_hash # n.schema_hash
    <3>1. /\ o.schema_hash = schema_hash(o) /\ n.schema_hash = schema_hash(n)
      BY <2>1 DEF Matched, PinsOk, Snap
    <3>2. o.kind = n.kind
      BY <1>6 DEF Identity
    <3> SUFFICES ASSUME o.schema_hash = n.schema_hash PROVE FALSE
      OBVIOUS
    <3>3. /\ o.columns = n.columns /\ o.keys = n.keys
          /\ \A stat \in KIND_REGISTRY[o.kind].included : StatOf(o, stat) = StatOf(n, stat)
      BY <3>1, SameHash
    <3>4. Definition(o) = Definition(n) /\ Drawn(o) = Drawn(n) /\ Facts(o) = Facts(n)
      BY <3>2, <3>3, SameDefinition, SameFacts
    <3>5. Kept(head, pins, f, o, n)
      BY <1>6, <3>3, <3>4 DEF Kept
    <3> QED BY <1>2, <1>4, <3>5
  <2>4. ASSUME NEW t \in SubDiffs(o, n), t.severity = "breaking", ~(t.downgradable /\ kept)
        PROVE  f \in Breaking(Finals(graph))
    <3>1. Settle(kept, e).severity = "breaking"
      BY <2>4, SettledBreaks
    <3> QED BY <2>1, <2>3, <3>1, ChangeNoticed
  <2>5. CASE \E t \in SubDiffs(o, n) : Hard(t)
    BY <2>4, <2>5 DEF Hard
  <2>6. CASE /\ Definition(o) # Definition(n)
             /\ \/ Drawn(o) # Drawn(n)
                \/ Lineage(head.graph, f) # Lineage(build_graph(Range(pins), {}), f)
    <3>1. Required /\ \E t \in SubDiffs(o, n) : t.severity = "breaking"
      BY <2>1, <2>6, DefinitionRequires
    <3>2. graph = build_graph(Range(pins), gateway)
      BY <3>1 DEF RunGraph
    <3>3. GraphOf(graph, pins, gateway)
      BY RunGraphOk
    <3>4. Lineage(graph, f) = Lineage(build_graph(Range(pins), {}), f)
      BY <3>2, LineageSame
    <3>5. _incoming(head.graph, f) # _incoming(graph, f)
      <4> DEFINE G == head.graph
                 was == head.pins
      <4>1. /\ Derived(G, was, gateway) /\ Derived(graph, pins, gateway)
            /\ o \in was[s].objects /\ n \in pins[s].objects
        BY <1>1, <1>4, <3>3 DEF Derived
      <4> HIDE DEF G, was
      <4>2. ASSUME _incoming(G, f) = _incoming(graph, f)
            PROVE  Drawn(o) = Drawn(n) /\ Lineage(G, f) = Lineage(graph, f)
        <5>1. Identity(o) = Identity(n)
          BY <1>6
        <5>2. _incoming(G, Fqn(s, o)) = _incoming(graph, Fqn(s, o))
          BY <4>2
        <5>3. Drawn(o) = Drawn(n) /\ Lineage(G, Fqn(s, o)) = Lineage(graph, Fqn(s, o))
          BY <4>1, <5>1, <5>2, SameIncoming
        <5> QED BY <5>3
      <4> QED BY <2>6, <3>4, <4>2 DEF G
    <3>6. ~kept
      <4>1. <<s, e.id[2], e.id[3]>> = f
        BY DEF Entry, Identity, Fqn
      <4> QED BY <3>5, <4>1 DEF Untouched
    <3> QED BY <2>4, <3>1, <3>6
  <2> QED BY <2>2, <2>5, <2>6
<1> QED BY <1>5, <1>6

(* A PR lets nothing through: some set of objects has those it contradicts *)
(* and all that follow in either graph, and no dependency of a doc that    *)
(* it does not mark.                                                       *)
Stops(S, kb, next) ==
    /\ \A s \in System : \A o \in kb.pins[s].objects :
         Contradicted(kb, next.pins, Fqn(s, o)) => Fqn(s, o) \in S
    /\ Closed(kb.graph, S) /\ Closed(next.graph, S)
    /\ \A d \in Doc : Statusable(kb.docs, d) /\ next.docs[d].status # "contaminated" =>
         \A f \in Deps(d, kb.tree) : f \notin S

Clean(kb, next) == \E S : Stops(S, kb, next)

(* What breaks, and all that a run walks to from it.                       *)
Walked(graph, breaking) ==
    breaking \cup UNION {DOMAIN contamination_walk(graph, f) : f \in breaking \cap DOMAIN graph.nodes}

LEMMA WalkedIsClosed ==
    ASSUME NEW graph, Walkable(graph), NEW breaking
    PROVE  Closed(graph, Walked(graph, breaking))
<1> SUFFICES ASSUME NEW e \in DOMAIN graph.edges, e[1] \in Walked(graph, breaking)
             PROVE  e[2] \in Walked(graph, breaking)
  BY DEF Closed
<1>1. e[1] \in DOMAIN graph.nodes
  BY DEF Walkable
<1>2. PICK f \in breaking \cap DOMAIN graph.nodes : e[1] \in DOMAIN contamination_walk(graph, f)
  <2>1. CASE e[1] \in breaking
    <3>1. e[1] \in DOMAIN contamination_walk(graph, e[1])
      BY <1>1, WalkIsClosed
    <3> QED BY <1>1, <2>1, <3>1
  <2>2. CASE e[1] \notin breaking
    BY <2>2 DEF Walked
  <2> QED BY <2>1, <2>2
<1>3. e[2] \in DOMAIN contamination_walk(graph, f)
  <2>1. Closed(graph, DOMAIN contamination_walk(graph, f))
    BY WalkIsClosed
  <2> QED BY <1>2, <2>1 DEF Closed
<1> QED BY <1>3 DEF Walked

(* A doc that a scan leaves alone depends on none of it.                   *)
LEMMA UnmarkedIsAway ==
    ASSUME NEW r, NEW kb, NEW graph, NEW diffs, ScanOf(r, kb, graph, diffs),
           NEW d \in Doc, Statusable(kb.docs, d), d \notin DOMAIN r.contaminated,
           NEW g \in Deps(d, kb.tree)
    PROVE  g \notin Walked(graph, Breaking(diffs))
<1> DEFINE B == Breaking(diffs)
           Far(f) == LET walk == contamination_walk(graph, f)
                     IN  {[object |-> f, hops |-> walk[h]] :
                            h \in {q \in DOMAIN walk \ {f} :
                                     \/ q \in Deps(d, kb.tree)
                                     \/ graph.nodes[q] /\ Paper[d].beside = ObjectPath(q)}}
<1>1. Reasons(d, kb, graph, B) = {}
  BY DEF ScanOf
<1>2. g \notin B
  BY BreakingMarks
<1>3. Reasons(d, kb, graph, B) =
        {[object |-> f, hops |-> 0] : f \in B \cap Deps(d, kb.tree)} \cup
        UNION {Far(f) : f \in B \cap DOMAIN graph.nodes}
  BY Zenon DEF Reasons
<1> HIDE DEF B
<1>4. ASSUME NEW f \in B \cap DOMAIN graph.nodes, g \in DOMAIN contamination_walk(graph, f) PROVE FALSE
  <2>1. g # f
    BY <1>2, <1>4
  <2>2. [object |-> f, hops |-> contamination_walk(graph, f)[g]] \in Far(f)
    BY <1>4, <2>1
  <2>3. Far(f) # {}
    BY <2>2
  <2> HIDE DEF Far
  <2> QED BY <1>1, <1>3, <1>4, <2>3
<1> QED BY <1>2, <1>4 DEF Walked, B

(* An object that is not contradicted is there, and draws on the same.     *)
LEMMA StillThere ==
    ASSUME NEW kb, PinsOk(kb.pins), NEW new, NEW s \in System, NEW o \in kb.pins[s].objects,
           ~Contradicted(kb, new, Fqn(s, o))
    PROVE  \E n \in new[s].objects : Identity(n) = Identity(o) /\ Drawn(o) = Drawn(n)
<1> DEFINE f == Fqn(s, o)
           p == CHOOSE q \in kb.pins[f[1]].objects : Fqn(f[1], q) = f
<1>1. \E n \in new[f[1]].objects : Identity(n) = Identity(p) /\ Drawn(p) = Drawn(n)
  BY Zenon DEF Contradicted
<1>2. f[1] = s
  BY DEF Fqn
<1>3. p = o
  <2>1. \A q \in kb.pins[s].objects : Fqn(s, q) = f => q = o
    BY DEF PinsOk, Snap, Fqn
  <2> HIDE DEF f
  <2> QED BY <1>2, <2>1 DEF f
<1> HIDE DEF p, f
<1> QED BY <1>1, <1>2, <1>3

(* A run with drift opens such a PR.                                       *)
LEMMA DriftClean ==
    ASSUME PinsOk(head.pins), PinsOk(taken), NEW pins, pins = Pins(Changed(Diffs)),
           GatewayOk(gateway), GraphOf(head.graph, head.pins, gateway),
           NEW graph, RunGraph(graph, pins), NEW r, ScanOf(r, head, graph, Finals(graph)),
           NEW next, next.pins = pins, next.graph = graph, ProposedDocs(next.docs, r)
    PROVE  Clean(head, next)
<1> DEFINE B == Breaking(Finals(graph))
           S == Walked(graph, B)
<1>1. /\ GraphOf(graph, pins, gateway)
      /\ Required => \A e : Published(gateway, e) => e \in DOMAIN graph.edges
  BY RunGraphOk
<1>2. Closed(graph, S)
  BY <1>1, WalkedIsClosed DEF GraphOf
<1>3. B \subseteq S
  BY DEF Walked
<1>4. ASSUME NEW s \in System, NEW o \in head.pins[s].objects, Contradicted(head, pins, Fqn(s, o))
      PROVE  Fqn(s, o) \in S
  <2>1. Fqn(s, o) \in B
    BY <1>4, ContradictionBreaks
  <2> QED BY <1>3, <2>1
<1>5. ASSUME NEW d \in Doc, Statusable(head.docs, d), next.docs[d].status # "contaminated",
             NEW f \in Deps(d, head.tree)
      PROVE  f \notin S
  <2>1. d \notin DOMAIN r.contaminated
    BY <1>5 DEF ProposedDocs
  <2> QED BY <1>5, <2>1, UnmarkedIsAway
<1> HIDE DEF S
<1>6. ASSUME NEW e \in DOMAIN head.graph.edges, e[1] \in S PROVE e[2] \in S
  <2>1. CASE e \in DOMAIN graph.edges
    BY <1>2, <1>6, <2>1 DEF Closed
  <2>2. CASE e \notin DOMAIN graph.edges
    <3>1. Required
      BY <2>2 DEF RunGraph
    <3>2. Parsed(head.pins, e)
      BY <1>1, <2>2, <3>1 DEF GraphOf
    <3>3. PICK s \in System : OfView(head.pins[s], s, e)
      BY <3>2 DEF Parsed
    <3>4. PICK o \in head.pins[s].objects : \E p \in Drawn(o) : e = EdgeOf(s, o, p)
      BY <3>3 DEF OfView
    <3>5. PICK p \in Drawn(o) : e = EdgeOf(s, o, p)
      BY <3>4
    <3>6. e[2] = Fqn(s, o)
      BY <3>5 DEF EdgeOf
    <3>7. CASE Contradicted(head, pins, Fqn(s, o))
      BY <1>4, <3>6, <3>7
    <3>8. CASE ~Contradicted(head, pins, Fqn(s, o))
      <4>1. PICK n \in pins[s].objects : Identity(n) = Identity(o) /\ Drawn(o) = Drawn(n)
        BY <3>8, StillThere
      <4>2. e = EdgeOf(s, n, p) /\ p \in Drawn(n)
        BY <3>5, <4>1 DEF EdgeOf, Identity, Fqn
      <4>3. Parsed(pins, e)
        BY <4>1, <4>2 DEF Parsed, OfView
      <4> QED BY <1>1, <2>2, <4>3 DEF GraphOf
    <3> QED BY <3>7, <3>8
  <2> QED BY <2>1, <2>2
<1>7. Stops(S, head, next)
  BY <1>2, <1>4, <1>5, <1>6 DEF Stops, Closed
<1> QED BY <1>7 DEF Clean

(* Publishes are only added to, and the graphs have what they had.         *)
LEMMA GraphGrows ==
    ASSUME NEW G, NEW pins, NEW gw, GraphOf(G, pins, gw), NEW more,
           \A e : Published(gw, e) => Published(more, e)
    PROVE  GraphOf(G, pins, more)
BY DEF GraphOf

(* Nothing is contradicted by the pins it is in.                           *)
LEMMA NothingContradicted ==
    ASSUME NEW kb, PinsOk(kb.pins), NEW s \in System, NEW o \in kb.pins[s].objects
    PROVE  ~Contradicted(kb, kb.pins, Fqn(s, o))
<1>1. Kept(kb, kb.pins, Fqn(s, o), o, o)
  BY DEF Kept
<1> QED BY <1>1, ContradictedIs

LineageInv ==
    /\ GatewayOk(gateway)
    /\ GraphOf(head.graph, head.pins, gateway)
    /\ pr # None => GraphOf(pr.next.graph, pr.next.pins, gateway)
    /\ pr # None /\ pr.current => Clean(head, pr.next)

LEMMA InitLineage == KbInit => LineageInv
<1> SUFFICES ASSUME KbInit PROVE LineageInv
  OBVIOUS
<1> DEFINE pins == [s \in System |-> Capture(s, Listed(s, First), First, 0)]
           plain == [d \in Doc |-> [status |-> Paper[d].status, contamination |-> None,
                                    purpose |-> "none", against |-> <<>>]]
           tree == render_tree(Range(pins), plain, <<>>)
           graph == build_graph(Range(pins), {})
           kb == [pins |-> pins, graph |-> graph, docs |-> plain, tree |-> tree]
           docs == [d \in Doc |-> [plain[d] EXCEPT !.against = Against(d, kb)]]
<1>1. taken = pins /\ gateway = {} /\ pr = None /\ head = [kb EXCEPT !.docs = docs]
  BY Zenon DEF KbInit
<1>2. PinsOk(pins)
  BY <1>1, InitOk DEF StateInv
<1>3. graph = build_graph(Range(pins), {})
  OBVIOUS
<1> HIDE DEF pins, plain, tree, graph, docs
<1>4. head.pins = pins /\ head.graph = graph
  BY <1>1
<1>5. IsFiniteSet({})
  BY FS_EmptySet
<1>6. BuildOf(graph, pins, {})
  BY <1>2, <1>3, <1>5, BuildIs
<1>7. GraphOf(head.graph, head.pins, gateway)
  BY <1>1, <1>4, <1>6 DEF BuildOf, GraphOf
<1>8. GatewayOk(gateway)
  BY <1>1, <1>5 DEF GatewayOk
<1> QED BY <1>1, <1>7, <1>8 DEF LineageInv

LEMMA SyncDriftLineage ==
    ASSUME StateInv, LineageInv, SyncDrift
    PROVE  GraphOf(pr'.next.graph, pr'.next.pins, gateway) /\ Clean(head, pr'.next)
<1> DEFINE pins == Pins(Changed(Diffs))
           graph == IF Required THEN build_graph(Range(pins), gateway) ELSE head.graph
           r == Marks(Diffs, graph)
           inputs == {pins[s] : s \in RenderInputs(Changed(Diffs), r)}
           next == Proposal(r, inputs, pins, graph)
<1>1. pr' = [current |-> TRUE, next |-> next]
  BY ZenonT(60) DEF SyncDrift, Required
<1>2. RunGraph(graph, pins) /\ pins = Pins(Changed(Diffs))
  BY DEF RunGraph
<1> HIDE DEF graph, pins
<1>3. ScanOf(r, head, graph, Finals(graph))
  BY ScanIs DEF Marks, Finals
<1>4. PinsOk(head.pins) /\ PinsOk(taken) /\ DocsOk(head.docs)
  BY DEF StateInv, KbOk
<1>5. GatewayOk(gateway) /\ GraphOf(head.graph, head.pins, gateway)
  BY DEF LineageInv
<1> HIDE DEF r, inputs
<1>6. next.pins = pins /\ next.graph = graph /\ ProposedDocs(next.docs, r)
  BY <1>3, <1>4, ProposalIs
<1> HIDE DEF next
<1>7. Clean(head, next)
  BY <1>2, <1>3, <1>4, <1>5, <1>6, DriftClean
<1>8. GraphOf(graph, pins, gateway)
  BY <1>2, <1>4, <1>5, RunGraphOk
<1>9. pr'.next = next
  BY <1>1
<1> QED BY <1>6, <1>7, <1>8, <1>9

LEMMA SyncGraphLineage ==
    ASSUME StateInv, LineageInv, SyncGraph
    PROVE  GraphOf(pr'.next.graph, pr'.next.pins, gateway) /\ Clean(head, pr'.next)
<1> DEFINE graph == build_graph(Range(head.pins), gateway)
           next == [head EXCEPT !.graph = graph]
<1>1. pr'.next = next
  BY DEF SyncGraph
<1>2. PinsOk(head.pins) /\ DOMAIN head = {"pins", "graph", "docs", "tree"}
  BY DEF StateInv, KbOk
<1>3. BuildOf(graph, head.pins, gateway)
  BY <1>2, BuildIs DEF LineageInv, GatewayOk
<1> HIDE DEF graph
<1>4. next.pins = head.pins /\ next.graph = graph
  BY <1>2
<1> HIDE DEF next
<1>5. GraphOf(graph, head.pins, gateway)
  BY <1>3 DEF BuildOf, GraphOf
<1>6. Stops({}, head, next)
  BY <1>2, <1>4, NothingContradicted DEF Stops, Closed
<1> QED BY <1>1, <1>4, <1>5, <1>6 DEF Clean

LEMMA NextLineage == StateInv /\ LineageInv /\ [KbNext]_vars => LineageInv'
<1> SUFFICES ASSUME StateInv, LineageInv, [KbNext]_vars PROVE LineageInv'
  OBVIOUS
<1>0. /\ GatewayOk(gateway) /\ GraphOf(head.graph, head.pins, gateway)
      /\ pr # None => GraphOf(pr.next.graph, pr.next.pins, gateway)
      /\ pr # None /\ pr.current => Clean(head, pr.next)
  BY DEF LineageInv
<1>1. ASSUME UNCHANGED <<gateway, head, pr>> PROVE LineageInv'
  BY <1>0, <1>1 DEF LineageInv
<1>2. ASSUME NEW f \in Backing, Publish(f) PROVE LineageInv'
  <2> DEFINE known == \E o \in head.pins[f[1]].objects : Fqn(f[1], o) = f
             entry == [source |-> f, source_resolved |-> known, target |-> Report,
                       target_resolved |-> TRUE, operation |-> "ingest",
                       evidence |-> <<"pipeline-tool", "audit">>, columns |-> <<>>]
  <2>1. /\ gateway' = {a \in gateway : edge_id(a) # edge_id(entry)} \cup {entry}
        /\ UNCHANGED <<head, pr>>
    BY <1>2, Zenon DEF Publish
  <2>2. entry.operation = "ingest"
    OBVIOUS
  <2> HIDE DEF entry
  <2>3. GatewayOk(gateway')
    <3>1. IsFiniteSet({a \in gateway : edge_id(a) # edge_id(entry)}) /\ IsFiniteSet({entry})
      BY <1>0, FS_Subset, FS_Singleton DEF GatewayOk
    <3>2. IsFiniteSet(gateway')
      BY <2>1, <3>1, FS_Union
    <3> QED BY <1>0, <2>1, <2>2, <3>2 DEF GatewayOk
  <2>4. \A e : Published(gateway, e) => Published(gateway', e)
    BY <2>1 DEF Published
  <2>5. GraphOf(head'.graph, head'.pins, gateway')
    BY <1>0, <2>1, <2>4, GraphGrows
  <2>6. pr' # None => GraphOf(pr'.next.graph, pr'.next.pins, gateway')
    BY <1>0, <2>1, <2>4, GraphGrows
  <2> QED BY <1>0, <2>1, <2>3, <2>5, <2>6 DEF LineageInv
<1>3. CASE SyncDrift
  <2>1. UNCHANGED <<gateway, head>>
    BY <1>3 DEF SyncDrift
  <2>2. GraphOf(pr'.next.graph, pr'.next.pins, gateway) /\ Clean(head, pr'.next)
    BY <1>3, SyncDriftLineage
  <2> QED BY <1>0, <2>1, <2>2 DEF LineageInv
<1>4. CASE SyncGraph
  <2>1. UNCHANGED <<gateway, head>>
    BY <1>4 DEF SyncGraph
  <2>2. GraphOf(pr'.next.graph, pr'.next.pins, gateway) /\ Clean(head, pr'.next)
    BY <1>4, SyncGraphLineage
  <2> QED BY <1>0, <2>1, <2>2 DEF LineageInv
<1>5. CASE Merge
  BY <1>0, <1>5 DEF LineageInv, Merge
<1>6. ASSUME NEW d \in Doc, Verify(d) PROVE LineageInv'
  <2> DEFINE docs == [head.docs EXCEPT ![d] = [status |-> "verified", contamination |-> None,
                                               purpose |-> "said", against |-> Against(d, head)]]
             tree == render_tree(Range(head.pins), docs, head.tree)
  <2>1. head' = [head EXCEPT !.docs = docs, !.tree = tree]
    BY <1>6, Zenon DEF Verify
  <2>2. DOMAIN head = {"pins", "graph", "docs", "tree"}
    BY DEF StateInv, KbOk
  <2> HIDE DEF docs, tree
  <2>3. head'.graph = head.graph /\ head'.pins = head.pins
    BY <2>1, <2>2
  <2>4. UNCHANGED gateway /\ pr' = IF pr = None THEN None ELSE [pr EXCEPT !.current = FALSE]
    BY <1>6 DEF Verify
  <2>5. pr # None => DOMAIN pr = {"current", "next"}
    BY DEF StateInv
  <2>6. pr' # None => pr # None /\ ~pr'.current /\ pr'.next = pr.next
    BY <2>4, <2>5
  <2> QED BY <1>0, <2>3, <2>4, <2>6 DEF LineageInv
<1>7. CASE \E f \in DOMAIN Shape : Change(f)
  BY <1>1, <1>7 DEF Change
<1>8. CASE \E s \in System : ListObjects(s) \/ Deliver(s)
  BY <1>1, <1>8 DEF ListObjects, Deliver
<1>9. CASE UNCHANGED vars
  BY <1>1, <1>9 DEF vars
<1> QED BY <1>2, <1>3, <1>4, <1>5, <1>6, <1>7, <1>8, <1>9 DEF KbNext

LEMMA CleanStops == StateInv /\ LineageInv => NoContaminationEscapes
<1> SUFFICES ASSUME StateInv, LineageInv, pr # None, pr.current PROVE NoContaminationEscapes
  BY DEF NoContaminationEscapes
<1> DEFINE gw == {a \in gateway : edge_id(a) \in DOMAIN head.graph.edges}
           old == build_graph(Range(head.pins), gw)
           pinned == UNION {{Fqn(s, o) : o \in head.pins[s].objects} : s \in System}
           bad == {f \in pinned : Contradicted(head, pr.next.pins, f)}
           unmarked == {d \in Doc : /\ Statusable(head.docs, d)
                                    /\ pr.next.docs[d].status # "contaminated"}
           relied == UNION {Deps(d, head.tree) : d \in unmarked}
           edges == DOMAIN old.edges \cup DOMAIN pr.next.graph.edges
           all == pinned \cup {e[2] : e \in edges}
<1>1. PICK S : Stops(S, head, pr.next)
  BY DEF LineageInv, Clean
<1>2. DOMAIN old.edges \subseteq DOMAIN head.graph.edges
  <2>1. PinsOk(head.pins)
    BY DEF StateInv, KbOk
  <2>2. IsFiniteSet(gw)
    BY FS_Subset DEF LineageInv, GatewayOk
  <2>3. BuildOf(old, head.pins, gw)
    <3> HIDE DEF gw
    <3> QED BY <2>1, <2>2, BuildIs
  <2>4. \A e : Published(gw, e) => e \in DOMAIN head.graph.edges
    BY DEF Published
  <2>5. \A e : Parsed(head.pins, e) => e \in DOMAIN head.graph.edges
    BY DEF LineageInv, GraphOf
  <2> HIDE DEF old, gw
  <2> QED BY <2>3, <2>4, <2>5 DEF BuildOf
<1> HIDE DEF old
<1>3. bad \subseteq S
  <2> SUFFICES ASSUME NEW f \in bad PROVE f \in S
    OBVIOUS
  <2>1. PICK s \in System : f \in {Fqn(s, o) : o \in head.pins[s].objects}
    OBVIOUS
  <2>2. PICK o \in head.pins[s].objects : f = Fqn(s, o)
    BY <2>1
  <2> QED BY <1>1, <2>2 DEF Stops
<1>4. S \cap relied = {}
  BY <1>1 DEF Stops
<1>5. \A e \in edges : e[1] \in S => e[2] \in S
  BY <1>1, <1>2 DEF Stops, Closed
<1> DEFINE set == S \cap all
<1>6. bad \subseteq set
  <2>1. bad \subseteq pinned
    OBVIOUS
  <2> HIDE DEF bad, pinned
  <2> QED BY <1>3, <2>1
<1> HIDE DEF bad, relied, edges, pinned
<1>7. set \in SUBSET (all \ relied)
  BY <1>4
<1>8. \A e \in edges : e[1] \in set => e[2] \in set
  BY <1>5
<1> HIDE DEF set
<1>9. \E E \in {edges} : \E T \in SUBSET ((pinned \cup {e[2] : e \in E}) \ relied) :
        bad \subseteq T /\ \A e \in E : e[1] \in T => e[2] \in T
  BY <1>6, <1>7, <1>8
<1> QED BY <1>9, Zenon DEF NoContaminationEscapes, bad, relied, edges, pinned, old, unmarked

(* No sync PR lets a contradicted doc through, for any systems, views,     *)
(* docs, publishes and history: what contradicts is breaking once the      *)
(* severities are settled, the walk from it is closed under the graph it   *)
(* walks, and an edge that only HEAD's graph has ends in a view that       *)
(* draws on something else, which is breaking too (lineage/scan.py).       *)
THEOREM NothingEscapes == KbSpec => []NoContaminationEscapes
<1> DEFINE Inv == StateInv /\ LineageInv
<1>1. KbInit => Inv
  BY InitOk, InitLineage
<1>2. Inv /\ [KbNext]_vars => Inv'
  BY NextOk, NextLineage
<1>3. Inv => NoContaminationEscapes
  BY CleanStops
<1> HIDE DEF Inv
<1> QED BY <1>1, <1>2, <1>3, PTL DEF KbSpec
=============================================================================
