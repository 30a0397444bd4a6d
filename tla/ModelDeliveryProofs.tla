------------------------ MODULE ModelDeliveryProofs ------------------------
(***************************************************************************)
(* What ModelDelivery promises for any calls, contents, tables, batches,   *)
(* retries and faults.  The core's queries and the adapters' requests are  *)
(* argued about apart: the revisions and records in the first half, one    *)
(* call's progress through its requests in the second.  The predicates on  *)
(* a call take its record s and the workspace D as parameters, so that one *)
(* lemma serves the state before and the state after a request.            *)
(***************************************************************************)
EXTENDS ModelDelivery, WellFoundedInduction, TLAPS

DatasetType == [table : {<<>>} \cup [Table -> TableState]]

CallType ==
    [pc : Phase, content : Content \cup {None}, rev : Nat, prev : Deliver \cup {None},
     ds : Nat, mode : Mode, at : Table, last : Table, batch : Batch,
     tries : 0 .. MaxRetries, seen : {<<>>} \cup [Table -> Schema],
     problem : BOOLEAN, loud : BOOLEAN, alone : BOOLEAN, twice : BOOLEAN,
     broken : BOOLEAN, hurt : 0 .. Tables, before : Seq(DatasetType)]

-----------------------------------------------------------------------------
(* The core's records                                                      *)

(* A call about to insert has the number after the revisions it read, and  *)
(* none of those has its content.                                          *)
Inserting(s) ==
    s.pc = "insert" =>
        /\ s.rev - 1 <= Len(artifacts)
        /\ \A r \in DOMAIN artifacts : r < s.rev => artifacts[r] # s.content

(* Delivery d of revision rev has been recorded.                           *)
Recorded(rev, d) ==
    rev \in past /\ d \in Deliver /\ call[d].rev = rev /\ answer[d] = "ok"

(* A call that has read its revision has one; one whose job does not run   *)
(* yet was told nothing; an attest job attests a recorded delivery.        *)
Asked(c) ==
    LET s == call[c] IN
    /\ s.pc \in {"idle", "insert", "ready"} => answer[c] = "none"
    /\ s.pc # "idle" => s.rev > 0 /\ s.content \in Content
    /\ Inserting(s)
    /\ c \in Attest => s.pc \notin Wire
    /\ c \in Attest /\ s.pc = "succeeded" => Recorded(s.rev, s.prev)

RecordsInv ==
    /\ delivered = NoDelivery \/ Recorded(delivered.rev, delivered.by)
    /\ \A a \in attested : Recorded(a[1], a[2])
    /\ \A c \in Call : Asked(c)
    /\ RevisionsUnique

-----------------------------------------------------------------------------
(* One call's requests                                                     *)

(* The first n posts of call d.                                            *)
Filled(d, n) == [b \in 1 .. n |-> <<d, b>>]

There(s, D) == s.ds \in DOMAIN D /\ D[s.ds] # Absent
Fits(s, D, t) == D[s.ds].table[t].schema = SchemaOf[s.content]
HasRows(s, D, t, rows) == D[s.ds].table[t].rows = rows
Kept(s, D, t) == HasRows(s, D, t, s.before[s.ds].table[t].rows)
AllIn(c, s, D) == There(s, D) /\ \A t \in Table : Fits(s, D, t) /\ HasRows(s, D, t, Full(c))

(* Which requests a call may be at, in which mode, whoever else is at the  *)
(* model.                                                                  *)
Shape(s, D) ==
    /\ s \in CallType
    /\ s.pc \in Wire => s.content \in Content
    /\ s.pc \in {"tables", "put", "delete", "post", "relist", "drop"} => s.ds \in DOMAIN D
    /\ s.pc \in {"idle", "insert", "ready", "list", "create", "tables", "put"} =>
           s.mode = "none" /\ s.hurt = 0 /\ s.last = Tables
    /\ s.pc \in {"idle", "insert", "ready", "list", "create"} => s.at = 1 /\ s.batch = 1
    /\ s.pc = "put" => s.seen \in [Table -> Schema]
    /\ s.pc = "delete" => s.mode \in {"replace", "restore"}
    /\ s.pc = "post" => s.mode \in {"fill", "replace", "restore"}
    /\ s.pc \in {"relist", "drop"} => s.mode = "fill"
    /\ s.pc \in {"delete", "post"} =>
           /\ s.at <= s.last
           /\ s.mode = "restore" => s.hurt = s.last + 1 /\ s.prev # None
           /\ s.mode # "restore" => s.hurt = 0 /\ s.last = Tables
    /\ s.pc = "succeeded" => s.hurt = 0
    /\ s.mode = "fill" => s.hurt = 0

(* How far each kind of request has brought the tables of call c.          *)
Putting(s, D) ==
    \A t \in Table : /\ Kept(s, D, t)
                     /\ t < s.at => Fits(s, D, t)
                     /\ t > s.at => D[s.ds].table[t].schema = s.seen[t]

Pouring(c, s, D) ==
    \A t \in Table : /\ Fits(s, D, t)
                     /\ t < s.at => HasRows(s, D, t, Full(c))
                     /\ t > s.at /\ s.mode = "replace" => Kept(s, D, t)
                     /\ t > s.at /\ s.mode = "fill" => HasRows(s, D, t, <<>>)
                     /\ t = s.at /\ s.pc = "post" => HasRows(s, D, t, Filled(c, s.batch - 1))

Restoring(s, D) ==
    \A t \in Table : /\ t > s.hurt => Kept(s, D, t)
                     /\ t < s.at => HasRows(s, D, t, Full(s.prev))
                     /\ t = s.at /\ s.pc = "post" => HasRows(s, D, t, Filled(s.prev, s.batch - 1))

(* What a failure leaves, unless it is loud or nobody recovered from it.   *)
Left(c, s, D) ==
    /\ s.mode = "fill" => D[s.ds] = Absent \/ AllIn(c, s, D)
    /\ s.hurt > 0 =>
         \/ s.prev # None /\ \E t \in Table : s.before[s.ds].table[t].rows # Full(s.prev)
         \/ \A t \in Table \ {s.hurt} : Kept(s, D, t)

Progress(c, s, D) ==
    /\ s.pc \in {"list", "tables"} => s.before = D
    /\ s.pc \in {"tables", "put", "delete", "post", "relist"} => There(s, D)
    /\ s.pc = "put" => Putting(s, D)
    /\ s.pc \in {"delete", "post"} /\ s.mode # "restore" => Pouring(c, s, D)
    /\ s.pc \in {"delete", "post"} /\ s.mode = "restore" => s.problem \/ Restoring(s, D)
    /\ s.pc \in {"relist", "succeeded"} => AllIn(c, s, D)
    /\ s.pc = "failed" /\ ~s.loud /\ ~s.broken => Left(c, s, D)

Good(c, s, D) ==
    Shape(s, D) /\ (c \in Deliver /\ s.alone /\ ~s.twice => Progress(c, s, D))

WorkspaceInv ==
    /\ datasets \in Seq(DatasetType)
    /\ call \in [Call -> CallType]
    /\ \A c \in Call : Good(c, call[c], datasets)

RecordTypes ==
    /\ artifacts \in Seq(Content)
    /\ delivered \in [rev : Nat, by : Deliver \cup {None}]
    /\ attested \subseteq Nat \X (Deliver \cup {None})
    /\ answer \in [Call -> Refusals \cup {"none", "ok", "error", "failed", "inconsistent",
                                          "timeout", "revalidate_required"}]

DeliveryInv == RecordTypes /\ RecordsInv /\ WorkspaceInv

-----------------------------------------------------------------------------
(* Numbers and sequences                                                   *)

LEMMA LeastNat ==
    ASSUME NEW S \in SUBSET Nat, S # {}
    PROVE  \E t \in S : \A u \in S : t <= u
<1> DEFINE R == OpToRel(<, Nat)
<1>1. IsWellFoundedOn(R, Nat)
  BY NatLessThanWellFounded, Zenon DEF OpToRel
<1>2. \E x \in S : \A y \in S : ~(<<y, x>> \in R)
  <2> HIDE DEF R
  <2> QED  BY <1>1, WFMin
<1>3. ASSUME NEW x \in S, NEW y \in S, ~(<<y, x>> \in R) PROVE x <= y
  BY <1>3 DEF OpToRel
<1> QED  BY <1>2, <1>3

(* The first post fills one row, the last one the table.                   *)
LEMMA FilledNone == ASSUME NEW d PROVE Filled(d, 0) = <<>>
BY DEF Filled

LEMMA FilledAll == ASSUME NEW d PROVE Filled(d, Batches) = Full(d)
BY DEF Filled, Full, Batch

LEMMA FilledMore ==
    ASSUME NEW d, NEW n \in Nat \ {0}
    PROVE  Append(Filled(d, n - 1), <<d, n>>) = Filled(d, n)
<1>1. Filled(d, n - 1) \in Seq({d} \X Nat) /\ Len(Filled(d, n - 1)) = n - 1
  BY DEF Filled
<1>2. Filled(d, n) \in Seq({d} \X Nat) /\ Len(Filled(d, n)) = n
  BY DEF Filled
<1> QED  BY <1>1, <1>2 DEF Filled

-----------------------------------------------------------------------------
(* What the adapter's local steps keep of a call                           *)

Ident(s, u) ==
    /\ u.rev = s.rev /\ u.content = s.content /\ u.prev = s.prev
    /\ u.alone = s.alone /\ u.twice = s.twice /\ u.before = s.before
    /\ u.pc \in Wire \cup Ended

LEMMA TableDoneIdent ==
    ASSUME NEW s \in CallType, s.mode \in {"fill", "replace", "restore"}
    PROVE  Ident(s, TableDone(s))
BY DEF CallType, TableDone, Ident, Wire, Ended

LEMMA NextPutIdent ==
    ASSUME NEW s \in CallType, NEW at
    PROVE  Ident(s, NextPut(s, at))
BY DEF CallType, NextPut, Ident, Wire, Ended

LEMMA ProceedIdent ==
    ASSUME NEW s \in CallType, s.pc \in Wire, NEW ds,
           s.pc = "post" => s.mode \in {"fill", "replace", "restore"}
    PROVE  Ident(s, Proceed(s, ds))
<1>1. CASE s.pc = "list"
  BY <1>1 DEF Proceed, Located, Ident, CallType, Wire
<1>2. CASE s.pc = "tables"
  <2>1. Ident(Listed(s), NextPut(Listed(s), 1))
    BY DEF NextPut, Ident, CallType, Wire, Listed
  <2>2. Ident(s, NextPut(Listed(s), 1))
    BY <2>1 DEF Ident, Listed, CallType
  <2> QED  BY <1>2, <2>2 DEF Proceed
<1>3. CASE s.pc = "put"
  BY <1>3, NextPutIdent DEF Proceed
<1>4. CASE s.pc = "post"
  <2>1. CASE s.batch < Batches
    BY <1>4, <2>1 DEF Proceed, Ident, CallType, Wire
  <2>2. CASE ~(s.batch < Batches)
    BY <1>4, <2>2, TableDoneIdent DEF Proceed
  <2> QED  BY <2>1, <2>2
<1>5. CASE s.pc \in {"create", "delete", "relist", "drop"}
  BY <1>5 DEF Proceed, Created, Ident, CallType, Wire, Ended
<1> QED  BY <1>1, <1>2, <1>3, <1>4, <1>5 DEF Wire

LEMMA RecoverIdent ==
    ASSUME NEW s \in CallType, s.pc \in Wire, s.pc = "drop" => s.mode = "fill"
    PROVE  Ident(s, Recover(s))
<1>1. CASE s.mode = "restore"
  <2> DEFINE p == [s EXCEPT !.problem = TRUE]
  <2>1. p \in CallType /\ p.mode = "restore" /\ Ident(s, p)
    BY <1>1 DEF CallType, Ident
  <2>2. Ident(p, TableDone(p))
    BY <2>1, TableDoneIdent
  <2>3. Recover(s) = TableDone(p)
    BY <1>1 DEF Recover
  <2> HIDE DEF p
  <2> QED  BY <2>1, <2>2, <2>3 DEF Ident
<1>2. CASE s.mode = "replace"
  <2>1. Recover(s) = Restored(s)
    BY <1>2 DEF Recover
  <2>2. s.at = 1 \/ (s.at > 1 /\ s.prev = None) \/ (s.at > 1 /\ s.prev # None)
    BY SizeAssumption DEF CallType, Table
  <2> QED  BY <2>1, <2>2 DEF Restored, Ident, CallType, Wire, Ended
<1>3. CASE s.mode = "fill"
  BY <1>3 DEF Recover, Removed, Ident, CallType, Wire, Ended
<1>4. CASE s.mode = "none"
  BY <1>4 DEF Recover, Ident, CallType, Wire, Ended
<1> QED  BY <1>1, <1>2, <1>3, <1>4 DEF CallType, Mode

-----------------------------------------------------------------------------
(* The workspace                                                           *)

(* Poster and Effect, on a call's record and a workspace.                  *)
PostedFor(c, s) == IF s.mode = "restore" THEN s.prev ELSE c

Eff(c, s, D) ==
    CASE s.pc = "create" ->
           Append(D, [table |-> [t \in Table |-> [schema |-> SchemaOf[s.content], rows |-> <<>>]]])
      [] s.pc = "drop"   -> [D EXCEPT ![s.ds] = Absent]
      [] s.pc = "put"    -> [D EXCEPT ![s.ds].table[s.at].schema = SchemaOf[s.content]]
      [] s.pc = "delete" -> [D EXCEPT ![s.ds].table[s.at].rows = <<>>]
      [] s.pc = "post"   -> [D EXCEPT ![s.ds].table[s.at].rows =
                               Append(@, <<PostedFor(c, s), s.batch>>)]
      [] OTHER           -> D

LEMMA EffectIsEff == ASSUME NEW c PROVE Effect(c) = Eff(c, call[c], datasets)
BY DEF Effect, Eff, Poster, PostedFor

(* A request that can be executed: its dataset is there.                   *)
CanRun(s, D) == s.pc \in {"drop", "tables", "put", "delete", "post"} => There(s, D)

LEMMA PossibleIsCanRun == ASSUME NEW c PROVE Possible(c) <=> CanRun(call[c], datasets)
BY DEF Possible, CanRun, There, Existing

(* A dataset that is there has its tables.                                 *)
LEMMA PresentTyped ==
    ASSUME NEW e \in DatasetType, e # Absent
    PROVE  e.table \in [Table -> TableState]
<1>1. e.table = <<>> => e = Absent
  BY DEF DatasetType, Absent
<1> QED  BY <1>1 DEF DatasetType

LEMMA ThereTyped ==
    ASSUME NEW D \in Seq(DatasetType), NEW s, There(s, D)
    PROVE  /\ D[s.ds] \in DatasetType /\ D[s.ds].table \in [Table -> TableState]
<1>1. D[s.ds] \in DatasetType
  BY DEF There
<1> QED  BY <1>1, PresentTyped DEF There

(* D2 is D but for table t of dataset i, which has this schema and rows.   *)
OneTable(D, D2, i, t, sch, rows) ==
    /\ D2 \in Seq(DatasetType) /\ DOMAIN D2 = DOMAIN D
    /\ D2[i] \in DatasetType /\ D2[i] # Absent
    /\ D2[i].table \in [Table -> TableState]
    /\ D2[i].table[t].schema = sch /\ D2[i].table[t].rows = rows
    /\ \A u \in Table \ {t} : D2[i].table[u] = D[i].table[u]

LEMMA TableReplaced ==
    ASSUME NEW D \in Seq(DatasetType), NEW i \in DOMAIN D, D[i] # Absent, NEW t \in Table,
           NEW x \in TableState, NEW D2, D2 = [D EXCEPT ![i].table[t] = x]
    PROVE  OneTable(D, D2, i, t, x.schema, x.rows)
<1>0. D[i] \in DatasetType
  OBVIOUS
<1>1. D[i] \in DatasetType /\ D[i].table \in [Table -> TableState]
  BY <1>0, PresentTyped
<1> DEFINE f == [D[i].table EXCEPT ![t] = x]
           e == [D[i] EXCEPT !.table = f]
<1>2. f \in [Table -> TableState] /\ f[t] = x /\ \A u \in Table \ {t} : f[u] = D[i].table[u]
  BY <1>1
<1>3. e \in DatasetType /\ e.table = f
  BY <1>1, <1>2 DEF DatasetType
<1>4. D2 = [D EXCEPT ![i] = e]
  OBVIOUS
<1>5. f # <<>>
  <2>1. DOMAIN f = Table /\ 1 \in Table
    BY <1>2, SizeAssumption DEF Table
  <2> QED  BY <2>1
<1>6. e # Absent
  BY <1>3, <1>5 DEF Absent
<1> HIDE DEF e, f
<1>7. D2 \in Seq(DatasetType) /\ DOMAIN D2 = DOMAIN D /\ D2[i] = e
  BY <1>3, <1>4
<1> QED  BY <1>2, <1>3, <1>6, <1>7 DEF OneTable

LEMMA SchemaTyped == ASSUME NEW x \in Content PROVE SchemaOf[x] \in Schema
BY SchemaAssumption

LEMMA EffPut ==
    ASSUME NEW D \in Seq(DatasetType), NEW c, NEW s, Shape(s, D), s.pc = "put", There(s, D)
    PROVE  OneTable(D, Eff(c, s, D), s.ds, s.at, SchemaOf[s.content], D[s.ds].table[s.at].rows)
<1> DEFINE x == [D[s.ds].table[s.at] EXCEPT !.schema = SchemaOf[s.content]]
<1>1. s.at \in Table /\ s.content \in Content
  BY DEF Shape, CallType, Wire
<1>2. D[s.ds].table[s.at] \in TableState /\ D[s.ds].table \in [Table -> TableState]
  BY <1>1, ThereTyped
<1>3. x \in TableState /\ x.schema = SchemaOf[s.content] /\ x.rows = D[s.ds].table[s.at].rows
  BY <1>1, <1>2, SchemaTyped DEF TableState
<1>4. Eff(c, s, D) = [D EXCEPT ![s.ds].table[s.at] = x]
  BY DEF Eff
<1> HIDE DEF x
<1> QED  BY <1>1, <1>3, <1>4, TableReplaced DEF There

LEMMA EffDelete ==
    ASSUME NEW D \in Seq(DatasetType), NEW c, NEW s, Shape(s, D), s.pc = "delete", There(s, D)
    PROVE  OneTable(D, Eff(c, s, D), s.ds, s.at, D[s.ds].table[s.at].schema, <<>>)
<1> DEFINE x == [D[s.ds].table[s.at] EXCEPT !.rows = <<>>]
<1>1. s.at \in Table
  BY DEF Shape, CallType
<1>2. D[s.ds].table[s.at] \in TableState
  BY <1>1, ThereTyped
<1>3. x \in TableState /\ x.schema = D[s.ds].table[s.at].schema /\ x.rows = <<>>
  <2>1. <<>> \in Seq(Row)
    OBVIOUS
  <2> QED  BY <1>1, <1>2, <2>1 DEF TableState
<1>4. Eff(c, s, D) = [D EXCEPT ![s.ds].table[s.at] = x]
  BY DEF Eff
<1> HIDE DEF x
<1>5. OneTable(D, Eff(c, s, D), s.ds, s.at, x.schema, x.rows)
  BY <1>1, <1>3, <1>4, TableReplaced DEF There
<1> QED  BY <1>3, <1>5

LEMMA EffPost ==
    ASSUME NEW D \in Seq(DatasetType), NEW c \in Deliver, NEW s, Shape(s, D), s.pc = "post",
           There(s, D)
    PROVE  OneTable(D, Eff(c, s, D), s.ds, s.at, D[s.ds].table[s.at].schema,
                    Append(D[s.ds].table[s.at].rows, <<PostedFor(c, s), s.batch>>))
<1> DEFINE r == <<PostedFor(c, s), s.batch>>
           y == D[s.ds].table[s.at]
           x == [y EXCEPT !.rows = Append(y.rows, r)]
<1>1. s.at \in Table /\ r \in Row
  BY DEF Shape, CallType, Row, PostedFor
<1>2. y \in TableState
  BY <1>1, ThereTyped
<1>3. x \in TableState /\ x.schema = y.schema /\ x.rows = Append(y.rows, r)
  <2> HIDE DEF r, y
  <2>1. Append(y.rows, r) \in Seq(Row)
    BY <1>1, <1>2 DEF TableState
  <2> QED  BY <1>2, <2>1 DEF TableState
<1>4. Eff(c, s, D) = [D EXCEPT ![s.ds].table[s.at] = x]
  BY DEF Eff
<1> HIDE DEF x
<1>5. OneTable(D, Eff(c, s, D), s.ds, s.at, x.schema, x.rows)
  BY <1>1, <1>3, <1>4, TableReplaced DEF There
<1> QED  BY <1>3, <1>5

LEMMA EffDrop ==
    ASSUME NEW D \in Seq(DatasetType), NEW c, NEW s, s.pc = "drop", s.ds \in DOMAIN D
    PROVE  /\ Eff(c, s, D) \in Seq(DatasetType) /\ DOMAIN Eff(c, s, D) = DOMAIN D
           /\ Eff(c, s, D)[s.ds] = Absent
<1>1. Absent \in DatasetType
  BY DEF Absent, DatasetType
<1>2. Eff(c, s, D) = [D EXCEPT ![s.ds] = Absent]
  BY DEF Eff
<1> QED  BY <1>1, <1>2

(* The dataset a create makes: every table with its columns and no rows.   *)
LEMMA EffCreate ==
    ASSUME NEW D \in Seq(DatasetType), NEW c, NEW s, s.pc = "create", s.content \in Content
    PROVE  LET D2 == Eff(c, s, D)  i == Len(D) + 1 IN
           /\ D2 \in Seq(DatasetType) /\ DOMAIN D2 = 1 .. i
           /\ i \in DOMAIN D2 /\ D2[i] # Absent
           /\ \A t \in Table : D2[i].table[t] = [schema |-> SchemaOf[s.content], rows |-> <<>>]
<1> DEFINE f == [t \in Table |-> [schema |-> SchemaOf[s.content], rows |-> <<>>]]
           e == [table |-> f]
<1>1. f \in [Table -> TableState]
  BY SchemaTyped DEF TableState
<1>2. e \in DatasetType /\ e.table = f
  BY <1>1 DEF DatasetType
<1>3. e # Absent
  <2>1. DOMAIN f = Table /\ 1 \in Table
    BY <1>1, SizeAssumption DEF Table
  <2>2. f # <<>>
    BY <2>1
  <2> HIDE DEF f
  <2> QED  BY <2>2, <1>2 DEF Absent
<1>4. Eff(c, s, D) = Append(D, e)
  BY DEF Eff
<1>5. \A t \in Table : f[t] = [schema |-> SchemaOf[s.content], rows |-> <<>>]
  OBVIOUS
<1> HIDE DEF e, f
<1>6. Append(D, e) \in Seq(DatasetType) /\ DOMAIN Append(D, e) = 1 .. Len(D) + 1
      /\ Append(D, e)[Len(D) + 1] = e /\ Len(D) + 1 \in 1 .. Len(D) + 1
  BY <1>2
<1> QED  BY <1>2, <1>3, <1>4, <1>5, <1>6

LEMMA EffElse ==
    ASSUME NEW D, NEW c, NEW s, s.pc \in {"list", "relist", "tables"}
    PROVE  Eff(c, s, D) = D
BY DEF Eff

(* Requests keep the workspace typed, and no dataset's place goes.         *)
LEMMA EffTyped ==
    ASSUME NEW D \in Seq(DatasetType), NEW c \in Deliver, NEW s, Shape(s, D), s.pc \in Wire,
           CanRun(s, D)
    PROVE  /\ Eff(c, s, D) \in Seq(DatasetType)
           /\ DOMAIN D \subseteq DOMAIN Eff(c, s, D)
<1>1. CASE s.pc = "put"
  BY <1>1, EffPut DEF CanRun, OneTable
<1>2. CASE s.pc = "delete"
  BY <1>2, EffDelete DEF CanRun, OneTable
<1>3. CASE s.pc = "post"
  <2>1. There(s, D)
    BY <1>3 DEF CanRun
  <2>2. OneTable(D, Eff(c, s, D), s.ds, s.at, D[s.ds].table[s.at].schema,
                 Append(D[s.ds].table[s.at].rows, <<PostedFor(c, s), s.batch>>))
    BY <1>3, <2>1, EffPost
  <2> QED  BY <2>2 DEF OneTable
<1>4. CASE s.pc = "drop"
  BY <1>4, EffDrop DEF CanRun, There
<1>5. CASE s.pc = "create"
  <2>1. s.content \in Content
    BY <1>5 DEF Shape, Wire
  <2>2. DOMAIN D = 1 .. Len(D) /\ Len(D) \in Nat
    OBVIOUS
  <2>3. Eff(c, s, D) \in Seq(DatasetType) /\ DOMAIN Eff(c, s, D) = 1 .. Len(D) + 1
    BY <1>5, <2>1, EffCreate
  <2> QED  BY <2>2, <2>3
<1>6. CASE s.pc \in {"list", "relist", "tables"}
  BY <1>6, EffElse
<1> QED  BY <1>1, <1>2, <1>3, <1>4, <1>5, <1>6 DEF Wire

-----------------------------------------------------------------------------
(* A call keeps its progress: the small changes of its record              *)

LEMMA TriesGood ==
    ASSUME NEW c, NEW s, NEW D, Good(c, s, D), NEW n \in 0 .. MaxRetries
    PROVE  Good(c, [s EXCEPT !.tries = n], D)
<1> DEFINE u == [s EXCEPT !.tries = n]
<1>1. u \in CallType
  BY DEF Good, Shape, CallType
<1>2. /\ u.pc = s.pc /\ u.content = s.content /\ u.prev = s.prev /\ u.ds = s.ds
      /\ u.mode = s.mode /\ u.at = s.at /\ u.last = s.last /\ u.batch = s.batch
      /\ u.seen = s.seen /\ u.problem = s.problem /\ u.loud = s.loud /\ u.alone = s.alone
      /\ u.twice = s.twice /\ u.broken = s.broken /\ u.hurt = s.hurt /\ u.before = s.before
  BY DEF Good, Shape, CallType
<1> HIDE DEF u
<1>3. Shape(u, D)
  BY <1>1, <1>2 DEF Good, Shape
<1>4. Progress(c, s, D) => Progress(c, u, D)
  <2>1. ASSUME NEW t \in Table
        PROVE  /\ Fits(s, D, t) <=> Fits(u, D, t)
               /\ Kept(s, D, t) <=> Kept(u, D, t)
               /\ \A r : HasRows(s, D, t, r) <=> HasRows(u, D, t, r)
    BY <1>2 DEF Fits, Kept, HasRows
  <2>2. There(s, D) <=> There(u, D)
    BY <1>2 DEF There
  <2>3. Putting(s, D) => Putting(u, D)
    BY <1>2, <2>1 DEF Putting
  <2>4. Pouring(c, s, D) => Pouring(c, u, D)
    BY <1>2, <2>1 DEF Pouring
  <2>5. Restoring(s, D) => Restoring(u, D)
    BY <1>2, <2>1 DEF Restoring
  <2>6. AllIn(c, s, D) => AllIn(c, u, D)
    BY <2>1, <2>2 DEF AllIn
  <2>7. Left(c, s, D) => Left(c, u, D)
    BY <1>2, <2>1, <2>6 DEF Left
  <2> QED  BY <1>2, <2>2, <2>3, <2>4, <2>5, <2>6, <2>7 DEF Progress
<1>5. Good(c, u, D)
  BY <1>2, <1>3, <1>4 DEF Good
<1> QED  BY <1>5 DEF u

(* A call that was disturbed, or repeated a request, promises its shape.   *)
LEMMA SpoiltGood ==
    ASSUME NEW c, NEW s, NEW D, NEW u \in CallType, Shape(s, D), ~u.alone \/ u.twice,
           u.pc = s.pc, u.content = s.content, u.prev = s.prev, u.ds = s.ds,
           u.mode = s.mode, u.at = s.at, u.last = s.last, u.batch = s.batch,
           u.seen = s.seen, u.hurt = s.hurt,
           NEW D2, DOMAIN D \subseteq DOMAIN D2
    PROVE  Good(c, u, D2)
BY DEF Good, Shape

Settled(s) == IF s.pc \in Ended THEN [s EXCEPT !.seen = <<>>, !.at = 1, !.batch = 1] ELSE s

LEMMA SettledGood ==
    ASSUME NEW c, NEW s, NEW D, Good(c, s, D)
    PROVE  Good(c, Settled(s), D)
<1>1. CASE s.pc \notin Ended
  BY <1>1 DEF Settled
<1>2. CASE s.pc \in Ended
  <2> DEFINE u == [s EXCEPT !.seen = <<>>, !.at = 1, !.batch = 1]
  <2>1. 1 \in Table /\ 1 \in Batch
    BY SizeAssumption DEF Table, Batch
  <2>2. u \in CallType
    BY <2>1 DEF Good, Shape, CallType
  <2>3. /\ u.pc = s.pc /\ u.content = s.content /\ u.prev = s.prev /\ u.ds = s.ds
        /\ u.mode = s.mode /\ u.last = s.last /\ u.loud = s.loud /\ u.alone = s.alone
        /\ u.twice = s.twice /\ u.broken = s.broken /\ u.hurt = s.hurt /\ u.before = s.before
    BY DEF Good, Shape, CallType
  <2> HIDE DEF u
  <2>4. Shape(u, D)
    BY <1>2, <2>2, <2>3 DEF Good, Shape, Ended, Wire
  <2>5. Progress(c, s, D) => Progress(c, u, D)
    BY <1>2, <2>3 DEF Progress, There, AllIn, Left, Kept, Fits, HasRows, Ended
  <2>6. Good(c, u, D)
    BY <2>3, <2>4, <2>5 DEF Good
  <2> QED  BY <1>2, <2>6 DEF Settled, u
<1> QED  BY <1>1, <1>2

(* Nobody recovers: nothing is promised of what is left.                   *)
LEMMA BrokenGood ==
    ASSUME NEW c, NEW s, NEW D, Shape(s, D), NEW D2
    PROVE  Good(c, [s EXCEPT !.pc = "failed", !.broken = TRUE], D2)
<1> DEFINE u == [s EXCEPT !.pc = "failed", !.broken = TRUE]
<1>1. u \in CallType /\ u.pc = "failed" /\ u.broken /\ u.mode = s.mode /\ u.hurt = s.hurt
  BY DEF Shape, CallType, Phase, Ended
<1> HIDE DEF u
<1>2. Good(c, u, D2)
  BY <1>1 DEF Good, Shape, Progress, Wire
<1> QED  BY <1>2 DEF u

(* A request that is executed and will be repeated: nothing is lost, or it *)
(* is one of those that add (create, post) and the call says so.           *)
LEMMA EffectAgain ==
    ASSUME NEW c \in Deliver, NEW s, NEW D \in Seq(DatasetType), Good(c, s, D),
           s.pc \in Wire \ {"create", "post"}, CanRun(s, D)
    PROVE  Good(c, s, Eff(c, s, D))
<1> DEFINE E == Eff(c, s, D)
<1>1. Shape(s, E)
  <2>1. DOMAIN D \subseteq DOMAIN E
    BY EffTyped DEF Good
  <2> HIDE DEF E
  <2> QED  BY <2>1 DEF Good, Shape
<1>2. ASSUME s.alone, ~s.twice PROVE Progress(c, s, E)
  <2>1. Progress(c, s, D) /\ Shape(s, D)
    BY <1>2 DEF Good
  <2>2. CASE s.pc \in {"list", "relist", "tables"}
    BY <2>1, <2>2, EffElse
  <2>3. CASE s.pc = "drop"
    BY <2>3 DEF Progress
  <2>4. CASE s.pc = "put"
    <3>1. OneTable(D, E, s.ds, s.at, SchemaOf[s.content], D[s.ds].table[s.at].rows)
      BY <2>1, <2>4, EffPut DEF CanRun
    <3>2. Putting(s, D) /\ There(s, D) /\ s.at \in Table
      BY <2>1, <2>4 DEF Progress, Shape, CallType
    <3> HIDE DEF E
    <3>3. There(s, E)
      BY <3>1, <3>2 DEF There, OneTable
    <3>4. ASSUME NEW t \in Table
          PROVE  /\ Kept(s, E, t) /\ (t < s.at => Fits(s, E, t))
                 /\ (t > s.at => E[s.ds].table[t].schema = s.seen[t])
      <4>1. CASE t = s.at
        <5>1. Kept(s, E, t)
          BY <3>1, <3>2, <4>1 DEF OneTable, Putting, Kept, HasRows
        <5> QED  BY <4>1, <5>1 DEF Table
      <4>2. CASE t # s.at
        BY <3>1, <3>2, <4>2 DEF OneTable, Putting, Kept, HasRows, Fits
      <4> QED  BY <4>1, <4>2
    <3> QED  BY <2>4, <3>3, <3>4 DEF Progress, Putting
  <2>5. CASE s.pc = "delete"
    <3>1. OneTable(D, E, s.ds, s.at, D[s.ds].table[s.at].schema, <<>>)
      BY <2>1, <2>5, EffDelete DEF CanRun
    <3>2. There(s, D) /\ s.at \in Table /\ s.at \in Nat
      BY <2>1, <2>5 DEF Progress, Shape, CallType, Table
    <3> HIDE DEF E
    <3>3. There(s, E)
      BY <3>1, <3>2 DEF There, OneTable
    <3>4. Pouring(c, s, D) => Pouring(c, s, E)
      <4> SUFFICES ASSUME Pouring(c, s, D), NEW t \in Table
                   PROVE  /\ Fits(s, E, t)
                          /\ t < s.at => HasRows(s, E, t, Full(c))
                          /\ t > s.at /\ s.mode = "replace" => Kept(s, E, t)
                          /\ t > s.at /\ s.mode = "fill" => HasRows(s, E, t, <<>>)
        BY <2>5 DEF Pouring
      <4>1. CASE t = s.at
        <5>1. Fits(s, E, t)
          BY <3>1, <4>1 DEF OneTable, Pouring, Fits
        <5> QED  BY <4>1, <5>1 DEF Table
      <4>2. CASE t # s.at
        BY <3>1, <4>2 DEF OneTable, Pouring, Kept, HasRows, Fits
      <4> QED  BY <4>1, <4>2
    <3>5. s.at < s.hurt /\ Restoring(s, D) => Restoring(s, E)
      <4> SUFFICES ASSUME s.at < s.hurt, Restoring(s, D), NEW t \in Table
                   PROVE  /\ t > s.hurt => Kept(s, E, t)
                          /\ t < s.at => HasRows(s, E, t, Full(s.prev))
        BY <2>5 DEF Restoring
      <4>1. CASE t = s.at
        <5>1. s.hurt \in Nat /\ t \in Nat
          BY <2>1 DEF Shape, CallType, Table
        <5> QED  BY <3>2, <4>1, <5>1
      <4>2. CASE t # s.at
        BY <3>1, <4>2 DEF OneTable, Restoring, Kept, HasRows
      <4> QED  BY <4>1, <4>2
    <3>6. s.mode = "restore" => s.at < s.hurt
      BY <2>1, <2>5 DEF Shape, CallType, Table
    <3> QED  BY <2>1, <2>5, <3>3, <3>4, <3>5, <3>6 DEF Progress
  <2> QED  BY <2>2, <2>3, <2>4, <2>5 DEF Wire
<1> QED  BY <1>1, <1>2 DEF Good

(* A request raised a ConnectorError, and the adapter recovers.            *)
LEMMA RecoverGood ==
    ASSUME NEW c, NEW s, NEW D, Good(c, s, D), s.pc \in Wire
    PROVE  Good(c, Recover(s), D)
<1>1. Shape(s, D) /\ s \in CallType /\ s.at \in Nat /\ s.last \in Nat /\ s.hurt \in Nat
  BY DEF Good, Shape, CallType, Table
<1>2. CASE s.mode = "none"
  <2> DEFINE u == [s EXCEPT !.pc = "failed"]
  <2>1. u \in CallType /\ u.pc = "failed" /\ u.mode = "none" /\ u.hurt = 0
    BY <1>1, <1>2 DEF Shape, CallType, Phase, Ended, Wire
  <2>2. Recover(s) = u
    BY <1>1, <1>2 DEF Recover, Shape
  <2> HIDE DEF u
  <2> QED  BY <2>1, <2>2 DEF Good, Shape, Progress, Left, Wire
<1>3. CASE s.mode = "fill" /\ s.pc = "post"
  <2> DEFINE u == [s EXCEPT !.pc = "drop"]
  <2>1. u \in CallType /\ u.pc = "drop" /\ u.mode = "fill" /\ u.hurt = 0 /\ u.ds = s.ds
        /\ u.content = s.content
    BY <1>1, <1>3 DEF Shape, CallType, Phase, Wire
  <2>2. Recover(s) = u
    BY <1>3 DEF Recover, Removed
  <2> HIDE DEF u
  <2>3. s.ds \in DOMAIN D /\ s.content \in Content
    BY <1>1, <1>3 DEF Shape, Wire
  <2> QED  BY <2>1, <2>2, <2>3 DEF Good, Shape, Progress
<1>4. CASE s.mode = "fill" /\ s.pc = "drop"
  <2> DEFINE u == [s EXCEPT !.pc = "failed", !.loud = TRUE]
  <2>1. u \in CallType /\ u.pc = "failed" /\ u.loud /\ u.mode = "fill" /\ u.hurt = 0
    BY <1>1, <1>4 DEF Shape, CallType, Phase, Ended
  <2>2. Recover(s) = u
    BY <1>4 DEF Recover
  <2> HIDE DEF u
  <2> QED  BY <2>1, <2>2 DEF Good, Shape, Progress, Wire
<1>5. CASE s.mode = "fill" /\ s.pc = "relist"
  <2> DEFINE u == [s EXCEPT !.pc = "failed"]
  <2>1. u \in CallType /\ u.pc = "failed" /\ u.mode = "fill" /\ u.hurt = 0 /\ u.ds = s.ds
        /\ u.content = s.content /\ u.alone = s.alone /\ u.twice = s.twice
    BY <1>1, <1>5 DEF Shape, CallType, Phase, Ended
  <2>2. Recover(s) = u
    BY <1>5 DEF Recover
  <2> HIDE DEF u
  <2>3. c \in Deliver /\ s.alone /\ ~s.twice => AllIn(c, s, D)
    BY <1>5 DEF Good, Progress
  <2>4. AllIn(c, s, D) => AllIn(c, u, D)
    BY <2>1 DEF AllIn, There, Fits, HasRows
  <2> QED  BY <2>1, <2>2, <2>3, <2>4 DEF Good, Shape, Progress, Left, Wire
<1>6. CASE s.mode = "replace" /\ s.at = 1
  <2> DEFINE u == [s EXCEPT !.pc = "failed", !.hurt = s.at]
  <2>0. 1 \in 0 .. Tables
    BY SizeAssumption
  <2>1. u \in CallType /\ u.pc = "failed" /\ u.mode = "replace" /\ u.hurt = 1 /\ u.ds = s.ds
        /\ u.before = s.before /\ u.alone = s.alone /\ u.twice = s.twice
    BY <1>1, <1>6, <2>0 DEF Shape, CallType, Phase, Ended
  <2>2. Recover(s) = u
    BY <1>1, <1>6 DEF Recover, Restored, Shape
  <2> HIDE DEF u
  <2>3. c \in Deliver /\ s.alone /\ ~s.twice => Pouring(c, s, D)
    BY <1>1, <1>6 DEF Good, Progress, Shape, Wire
  <2>4. Pouring(c, s, D) => \A t \in Table \ {u.hurt} : Kept(u, D, t)
    BY <1>6, <2>1 DEF Pouring, Kept, HasRows, Table
  <2> QED  BY <2>1, <2>2, <2>3, <2>4 DEF Good, Shape, Progress, Left, Wire
<1>7. CASE s.mode = "replace" /\ s.at # 1 /\ s.prev = None
  <2> DEFINE u == [s EXCEPT !.pc = "failed", !.hurt = s.at, !.loud = TRUE]
  <2>1. s.at \in 0 .. Tables /\ s.at > 1
    BY <1>1, <1>7 DEF CallType, Table
  <2>2. u \in CallType /\ u.pc = "failed" /\ u.mode = "replace" /\ u.loud
    BY <1>1, <1>7, <2>1 DEF Shape, CallType, Phase, Ended
  <2>3. Recover(s) = u
    BY <1>1, <1>7, <2>1 DEF Recover, Restored, Shape
  <2> HIDE DEF u
  <2> QED  BY <2>2, <2>3 DEF Good, Shape, Progress, Wire
<1>8. CASE s.mode = "replace" /\ s.at # 1 /\ s.prev # None
  <2> DEFINE u == [s EXCEPT !.pc = "delete", !.hurt = s.at, !.mode = "restore",
                            !.last = s.at - 1, !.at = 1, !.batch = 1]
  <2>1. s.at \in 0 .. Tables /\ s.at > 1 /\ s.at - 1 \in Table /\ 1 \in Table /\ 1 \in Batch
    BY <1>1, <1>8, SizeAssumption DEF CallType, Table, Batch
  <2>2. /\ u \in CallType /\ u.pc = "delete" /\ u.mode = "restore" /\ u.ds = s.ds
        /\ u.hurt = s.at /\ u.last = s.at - 1 /\ u.at = 1 /\ u.before = s.before
        /\ u.prev = s.prev /\ u.content = s.content /\ u.alone = s.alone /\ u.twice = s.twice
    BY <1>1, <1>8, <2>1 DEF Shape, CallType, Phase, Wire, Mode
  <2>3. Recover(s) = u
    BY <1>1, <1>8, <2>1 DEF Recover, Restored, Shape
  <2> HIDE DEF u
  <2>4. s.pc \in {"delete", "post"} /\ s.ds \in DOMAIN D /\ s.content \in Content
    BY <1>1, <1>8 DEF Shape, Wire
  <2>5. Shape(u, D)
    BY <1>8, <2>1, <2>2, <2>4 DEF Shape, Wire
  <2>6. ASSUME c \in Deliver, s.alone, ~s.twice PROVE Progress(c, u, D)
    <3>1. Pouring(c, s, D) /\ There(s, D)
      BY <1>8, <2>4, <2>6 DEF Good, Progress
    <3>2. There(u, D)
      BY <2>2, <3>1 DEF There
    <3>3. Restoring(u, D)
      <4> SUFFICES ASSUME NEW t \in Table
                   PROVE  /\ t > u.hurt => Kept(u, D, t)
                          /\ ~(t < u.at)
        BY <2>2 DEF Restoring
      <4>1. t > s.at => Kept(s, D, t)
        BY <1>8, <3>1 DEF Pouring
      <4>2. ~(t < u.at)
        BY <2>2 DEF Table
      <4> QED  BY <2>2, <4>1, <4>2 DEF Kept, HasRows
    <3> QED  BY <2>2, <3>2, <3>3 DEF Progress
  <2> QED  BY <2>2, <2>3, <2>5, <2>6 DEF Good
<1>9. CASE s.mode = "restore"
  <2> DEFINE p == [s EXCEPT !.problem = TRUE]
             u == TableDone(p)
  <2>1. s.pc \in {"delete", "post"} /\ s.ds \in DOMAIN D /\ s.content \in Content
        /\ s.at <= s.last /\ s.hurt = s.last + 1 /\ s.prev # None
    BY <1>1, <1>9 DEF Shape, Wire
  <2>2. Recover(s) = u
    BY <1>9, <2>1 DEF Recover
  <2>3. CASE s.at < s.last
    <3> DEFINE w == [s EXCEPT !.problem = TRUE, !.at = s.at + 1, !.batch = 1, !.pc = "delete"]
    <3>1. u = w
      BY <1>1, <1>9, <2>3 DEF TableDone, CallType
    <3>2. s.at + 1 \in Table /\ 1 \in Batch /\ s.at + 1 <= s.last
      BY <1>1, <2>3, SizeAssumption DEF CallType, Table, Batch
    <3>3. /\ w \in CallType /\ w.pc = "delete" /\ w.mode = "restore" /\ w.ds = s.ds
          /\ w.hurt = s.hurt /\ w.last = s.last /\ w.at = s.at + 1 /\ w.problem
          /\ w.prev = s.prev /\ w.content = s.content /\ w.alone = s.alone /\ w.twice = s.twice
      BY <1>1, <1>9, <3>2 DEF CallType, Phase, Wire
    <3> HIDE DEF w, u
    <3>4. Shape(w, D)
      BY <2>1, <3>2, <3>3 DEF Shape, Wire
    <3>5. c \in Deliver /\ s.alone /\ ~s.twice => There(w, D)
      BY <2>1, <3>3 DEF Good, Progress, There
    <3> QED  BY <2>2, <3>1, <3>3, <3>4, <3>5 DEF Good, Progress
  <2>4. CASE ~(s.at < s.last)
    <3> DEFINE w == [s EXCEPT !.problem = TRUE, !.pc = "failed", !.loud = TRUE]
    <3>1. u = w
      BY <1>1, <1>9, <2>4 DEF TableDone, CallType
    <3>2. w \in CallType /\ w.pc = "failed" /\ w.loud /\ w.mode = "restore"
      BY <1>1, <1>9 DEF CallType, Phase, Ended
    <3> HIDE DEF w, u
    <3> QED  BY <2>2, <3>1, <3>2 DEF Good, Shape, Progress, Wire
  <2> QED  BY <2>3, <2>4
<1> QED
  <2>1. s.mode = "fill" => s.pc \in {"post", "drop", "relist"}
    BY <1>1 DEF Shape, Wire
  <2>2. s.mode \in Mode
    BY <1>1 DEF CallType
  <2> QED  BY <1>2, <1>3, <1>4, <1>5, <1>6, <1>7, <1>8, <1>9, <2>1, <2>2 DEF Mode

-----------------------------------------------------------------------------
(* A request is answered with success                                      *)

(* Before the columns of the tables from a on are looked at.               *)
Looking(s, D, a) ==
    \A t \in Table : /\ Kept(s, D, t)
                     /\ t < a => Fits(s, D, t)
                     /\ t >= a => D[s.ds].table[t].schema = s.seen[t]

LEMMA NextPutGood ==
    ASSUME NEW c, NEW s \in CallType, NEW D, NEW a \in 1 .. Tables + 1,
           s.seen \in [Table -> Schema], s.content \in Content, s.ds \in DOMAIN D,
           s.mode = "none", s.hurt = 0, s.last = Tables,
           c \in Deliver /\ s.alone /\ ~s.twice => There(s, D) /\ Looking(s, D, a)
    PROVE  Good(c, NextPut(s, a), D)
<1> DEFINE todo == {t \in a .. Tables : s.seen[t] # SchemaOf[s.content]}
<1>0. a \in Nat /\ Tables \in Nat /\ todo \in SUBSET Nat /\ todo \subseteq Table
  BY SizeAssumption DEF Table
<1>1. CASE todo = {}
  <2> DEFINE u == [s EXCEPT !.pc = "delete", !.mode = "replace", !.at = 1]
  <2>1. 1 \in Table /\ 1 <= Tables
    BY SizeAssumption DEF Table
  <2>2. /\ u \in CallType /\ u.pc = "delete" /\ u.mode = "replace" /\ u.at = 1 /\ u.ds = s.ds
        /\ u.hurt = 0 /\ u.last = Tables /\ u.content = s.content /\ u.before = s.before
        /\ u.alone = s.alone /\ u.twice = s.twice
    <3>1. "delete" \in Phase /\ "replace" \in Mode
      BY DEF Phase, Wire, Mode
    <3>2. u \in CallType
      BY <2>1, <3>1 DEF CallType
    <3> QED  BY <3>2 DEF CallType
  <2>3. NextPut(s, a) = u
    BY <1>1 DEF NextPut
  <2>4. \A t \in Table : t >= a => s.seen[t] = SchemaOf[s.content]
    BY <1>0, <1>1 DEF Table
  <2> HIDE DEF u, todo
  <2>5. Shape(u, D)
    BY <2>1, <2>2 DEF Shape, Wire
  <2>6. ASSUME c \in Deliver, s.alone, ~s.twice PROVE Progress(c, u, D)
    <3>1. There(u, D)
      BY <2>2, <2>6 DEF There
    <3>2. ASSUME NEW t \in Table
          PROVE  Fits(u, D, t) /\ Kept(u, D, t) /\ ~(t < u.at)
      <4>1. Kept(u, D, t)
        BY <2>2, <2>6 DEF Looking, Kept, HasRows
      <4>2. Fits(s, D, t)
        <5>1. CASE t < a
          BY <2>6, <5>1 DEF Looking
        <5>2. CASE t >= a
          BY <2>4, <2>6, <5>2 DEF Looking, Fits
        <5> QED  BY <1>0, <5>1, <5>2 DEF Table
      <4>3. ~(t < u.at)
        BY <2>2 DEF Table
      <4> QED  BY <2>2, <4>1, <4>2, <4>3 DEF Fits
    <3>3. Pouring(c, u, D)
      BY <2>2, <3>2 DEF Pouring
    <3> QED  BY <2>2, <3>1, <3>3 DEF Progress
  <2> QED  BY <2>2, <2>3, <2>5, <2>6 DEF Good
<1>2. CASE todo # {}
  <2> DEFINE m == CHOOSE t \in todo : \A x \in todo : t <= x
             u == [s EXCEPT !.pc = "put", !.at = m]
  <2>1. m \in todo /\ \A x \in todo : m <= x
    <3> HIDE DEF todo
    <3>1. \E t \in todo : \A x \in todo : t <= x
      BY <1>0, <1>2, LeastNat
    <3> QED  BY <3>1
  <2>2. NextPut(s, a) = u
    BY <1>2 DEF NextPut
  <2>3. m \in Table /\ m >= a /\ m \in Nat
    BY <1>0, <2>1 DEF Table
  <2>4. \A t \in Table : t >= a /\ t < m => s.seen[t] = SchemaOf[s.content]
    <3> SUFFICES ASSUME NEW t \in Table, t >= a, t < m, s.seen[t] # SchemaOf[s.content]
                 PROVE  FALSE
      OBVIOUS
    <3>1. t \in todo
      BY <1>0 DEF Table
    <3>2. m <= t
      BY <2>1, <3>1
    <3> QED  BY <2>3, <3>2 DEF Table
  <2> HIDE DEF m
  <2>5. /\ u \in CallType /\ u.pc = "put" /\ u.mode = "none" /\ u.at = m /\ u.ds = s.ds
        /\ u.hurt = 0 /\ u.last = Tables /\ u.content = s.content /\ u.before = s.before
        /\ u.alone = s.alone /\ u.twice = s.twice /\ u.seen = s.seen
    BY <2>3, ZenonT(40) DEF CallType, Phase, Wire
  <2> HIDE DEF u, todo
  <2>6. Shape(u, D)
    BY <2>5 DEF Shape, Wire
  <2>7. ASSUME c \in Deliver, s.alone, ~s.twice PROVE Progress(c, u, D)
    <3>1. There(u, D)
      BY <2>5, <2>7 DEF There
    <3>2. ASSUME NEW t \in Table
          PROVE  /\ Kept(u, D, t)
                 /\ t < u.at => Fits(u, D, t)
                 /\ t > u.at => D[u.ds].table[t].schema = u.seen[t]
      <4>1. Kept(u, D, t)
        BY <2>5, <2>7 DEF Looking, Kept, HasRows
      <4>2. ASSUME t < m PROVE Fits(s, D, t)
        <5>1. CASE t < a
          BY <2>7, <5>1 DEF Looking
        <5>2. CASE t >= a
          BY <2>4, <2>7, <4>2, <5>2 DEF Looking, Fits
        <5> QED  BY <1>0, <5>1, <5>2 DEF Table
      <4>3. ASSUME t > m PROVE D[s.ds].table[t].schema = s.seen[t]
        <5>1. t >= a
          BY <1>0, <2>3, <4>3 DEF Table
        <5> QED  BY <2>7, <5>1 DEF Looking
      <4> QED  BY <2>5, <4>1, <4>2, <4>3 DEF Fits
    <3> QED  BY <2>5, <3>1, <3>2 DEF Progress, Putting
  <2> QED  BY <2>2, <2>5, <2>6, <2>7 DEF Good
<1> QED  BY <1>1, <1>2

(* The rows of the table a call is at are in place.                        *)
LEMMA TableDoneGood ==
    ASSUME NEW c, NEW s, NEW D, Shape(s, D), s.pc = "post",
           c \in Deliver /\ s.alone /\ ~s.twice =>
               /\ There(s, D)
               /\ s.mode # "restore" =>
                    /\ \A t \in Table : /\ Fits(s, D, t)
                                        /\ t < s.at => HasRows(s, D, t, Full(c))
                                        /\ t > s.at /\ s.mode = "replace" => Kept(s, D, t)
                                        /\ t > s.at /\ s.mode = "fill" => HasRows(s, D, t, <<>>)
                    /\ HasRows(s, D, s.at, Full(c))
               /\ s.mode = "restore" =>
                    \/ s.problem
                    \/ /\ \A t \in Table : /\ t > s.hurt => Kept(s, D, t)
                                           /\ t < s.at => HasRows(s, D, t, Full(s.prev))
                       /\ HasRows(s, D, s.at, Full(s.prev))
    PROVE  Good(c, TableDone(s), D)
<1>1. /\ s \in CallType /\ s.at \in Nat /\ s.last \in Nat /\ s.at <= s.last /\ s.ds \in DOMAIN D
      /\ s.content \in Content /\ s.mode \in {"fill", "replace", "restore"} /\ s.at \in Table
      /\ s.mode # "restore" => s.hurt = 0 /\ s.last = Tables
      /\ s.mode = "restore" => s.hurt = s.last + 1 /\ s.prev # None
  BY DEF Shape, CallType, Table, Wire
<1>2. CASE s.at < s.last
  <2> DEFINE q == IF s.mode = "fill" THEN "post" ELSE "delete"
             u == [s EXCEPT !.at = s.at + 1, !.batch = 1, !.pc = q]
  <2>1. s.at + 1 \in Table /\ 1 \in Batch /\ s.at + 1 <= s.last
    BY <1>1, <1>2, SizeAssumption DEF CallType, Table, Batch
  <2>2. q \in {"post", "delete"} /\ (q = "post" <=> s.mode = "fill")
    OBVIOUS
  <2>3. TableDone(s) = u
    BY <1>2 DEF TableDone
  <2> HIDE DEF q
  <2>4. /\ u \in CallType /\ u.pc = q /\ u.mode = s.mode /\ u.at = s.at + 1 /\ u.batch = 1
        /\ u.ds = s.ds /\ u.hurt = s.hurt /\ u.last = s.last /\ u.content = s.content
        /\ u.before = s.before /\ u.prev = s.prev /\ u.problem = s.problem
        /\ u.alone = s.alone /\ u.twice = s.twice
    BY <1>1, <2>1, <2>2 DEF CallType, Phase, Wire
  <2> HIDE DEF u
  <2>5. Shape(u, D)
    BY <1>1, <2>1, <2>2, <2>4 DEF Shape, Wire
  <2>6. ASSUME c \in Deliver, s.alone, ~s.twice PROVE Progress(c, u, D)
    <3>1. There(u, D)
      BY <2>4, <2>6 DEF There
    <3>2. ASSUME s.mode # "restore" PROVE Pouring(c, u, D)
      <4> SUFFICES ASSUME NEW t \in Table
                   PROVE  /\ Fits(u, D, t)
                          /\ t < u.at => HasRows(u, D, t, Full(c))
                          /\ t > u.at /\ u.mode = "replace" => Kept(u, D, t)
                          /\ t > u.at /\ u.mode = "fill" => HasRows(u, D, t, <<>>)
                          /\ t = u.at /\ u.pc = "post" => HasRows(u, D, t, Filled(c, u.batch - 1))
        BY DEF Pouring
      <4>1. Fits(s, D, t) /\ (t < s.at => HasRows(s, D, t, Full(c))) /\ HasRows(s, D, s.at, Full(c))
            /\ (t > s.at /\ s.mode = "replace" => Kept(s, D, t))
            /\ (t > s.at /\ s.mode = "fill" => HasRows(s, D, t, <<>>))
        BY <2>6, <3>2
      <4>2. Filled(c, u.batch - 1) = <<>>
        BY <2>4, FilledNone
      <4>3. CASE t < s.at
        BY <1>1, <2>4, <4>1, <4>3 DEF Fits, HasRows, Table
      <4>4. CASE t = s.at
        BY <1>1, <2>4, <4>1, <4>4 DEF Fits, HasRows, Table
      <4>5. CASE t = s.at + 1
        <5>1. t > s.at /\ t = u.at /\ ~(t < u.at) /\ ~(t > u.at)
          BY <1>1, <2>4, <4>5
        <5>2. u.pc = "post" => HasRows(u, D, t, <<>>)
          BY <2>2, <2>4, <4>1, <5>1 DEF HasRows
        <5> QED  BY <2>4, <4>1, <4>2, <5>1, <5>2 DEF Fits
      <4>6. CASE t > s.at + 1
        <5>1. t > s.at /\ t # u.at /\ ~(t < u.at)
          BY <1>1, <2>4, <4>6 DEF Table
        <5> QED  BY <2>4, <4>1, <5>1 DEF Fits, HasRows, Kept
      <4> QED  BY <1>1, <4>3, <4>4, <4>5, <4>6 DEF Table
    <3>3. ASSUME s.mode = "restore", ~s.problem PROVE Restoring(u, D)
      <4> SUFFICES ASSUME NEW t \in Table
                   PROVE  /\ t > u.hurt => Kept(u, D, t)
                          /\ t < u.at => HasRows(u, D, t, Full(u.prev))
        BY <2>2, <2>4, <3>3 DEF Restoring
      <4>1. (t > s.hurt => Kept(s, D, t)) /\ (t < s.at => HasRows(s, D, t, Full(s.prev)))
            /\ HasRows(s, D, s.at, Full(s.prev))
        BY <2>6, <3>3
      <4>2. t < u.at => t < s.at \/ t = s.at
        BY <1>1, <2>4 DEF Table
      <4> QED  BY <2>4, <4>1, <4>2 DEF Kept, HasRows
    <3> QED  BY <2>2, <2>4, <3>1, <3>2, <3>3 DEF Progress
  <2> QED  BY <2>3, <2>4, <2>5, <2>6 DEF Good
<1>3. CASE ~(s.at < s.last) /\ s.mode \in {"fill", "replace"}
  <2> DEFINE q == IF s.mode = "fill" THEN "relist" ELSE "succeeded"
             u == [s EXCEPT !.pc = q]
  <2>1. q \in {"relist", "succeeded"} /\ (q = "relist" <=> s.mode = "fill")
    OBVIOUS
  <2>2. TableDone(s) = u
    BY <1>3 DEF TableDone
  <2> HIDE DEF q
  <2>3. /\ u \in CallType /\ u.pc = q /\ u.mode = s.mode /\ u.ds = s.ds /\ u.hurt = 0
        /\ u.content = s.content /\ u.alone = s.alone /\ u.twice = s.twice
    BY <1>1, <1>3, <2>1 DEF CallType, Phase, Wire, Ended
  <2> HIDE DEF u
  <2>4. Shape(u, D)
    BY <1>1, <1>3, <2>1, <2>3 DEF Shape, Wire
  <2>5. ASSUME c \in Deliver, s.alone, ~s.twice PROVE Progress(c, u, D)
    <3>1. There(u, D)
      BY <2>3, <2>5 DEF There
    <3>2. s.at = Tables
      BY <1>1, <1>3 DEF CallType, Table
    <3>3. \A t \in Table : Fits(s, D, t) /\ HasRows(s, D, t, Full(c))
      BY <1>1, <1>3, <2>5, <3>2 DEF Table
    <3>4. AllIn(c, u, D)
      BY <2>3, <3>1, <3>3 DEF AllIn, There, Fits, HasRows
    <3> QED  BY <2>1, <2>3, <3>1, <3>4 DEF Progress
  <2> QED  BY <2>2, <2>3, <2>4, <2>5 DEF Good
<1>4. CASE ~(s.at < s.last) /\ s.mode = "restore"
  <2> DEFINE u == [s EXCEPT !.pc = "failed", !.loud = s.problem]
  <2>1. TableDone(s) = u
    BY <1>4 DEF TableDone
  <2>2. /\ u \in CallType /\ u.pc = "failed" /\ u.mode = "restore" /\ u.ds = s.ds
        /\ u.hurt = s.hurt /\ u.loud = s.problem /\ u.before = s.before /\ u.prev = s.prev
        /\ u.alone = s.alone /\ u.twice = s.twice
    BY <1>1, <1>4 DEF CallType, Phase, Ended
  <2> HIDE DEF u
  <2>3. Shape(u, D)
    BY <2>2 DEF Shape, Wire
  <2>4. ASSUME c \in Deliver, s.alone, ~s.twice, ~s.problem PROVE Left(c, u, D)
    <3> SUFFICES ASSUME \A t \in Table : s.before[s.ds].table[t].rows = Full(s.prev),
                        NEW t \in Table \ {s.hurt}
                 PROVE  Kept(s, D, t)
      BY <1>1, <1>4, <2>2 DEF Left, Kept, HasRows
    <3>1. CASE t > s.hurt
      BY <1>4, <2>4, <3>1
    <3>2. CASE t < s.hurt
      <4>1. t < s.at \/ t = s.at
        BY <1>1, <1>4, <3>2 DEF Table
      <4>2. HasRows(s, D, t, Full(s.prev))
        BY <1>4, <2>4, <4>1
      <4> QED  BY <4>2 DEF Kept, HasRows
    <3> QED  BY <1>1, <1>4, <3>1, <3>2 DEF Table
  <2> QED  BY <2>1, <2>2, <2>3, <2>4 DEF Good, Progress
<1> QED  BY <1>1, <1>2, <1>3, <1>4

LEMMA ListAnswered ==
    ASSUME NEW c, NEW s, Good(c, s, datasets), s.pc = "list", NEW ds \in Nat,
           (ds \in Existing) = (Existing # {})
    PROVE  Good(c, Proceed(s, ds), datasets)
<1>1. /\ Shape(s, datasets) /\ s \in CallType /\ s.content \in Content /\ s.mode = "none"
      /\ s.hurt = 0 /\ s.last = Tables /\ s.at = 1 /\ s.batch = 1
  BY DEF Good, Shape, Wire
<1>2. CASE Existing = {}
  <2> DEFINE u == [s EXCEPT !.pc = "create"]
  <2>1. Proceed(s, ds) = u
    BY <1>2 DEF Proceed, Located
  <2>2. /\ u \in CallType /\ u.pc = "create" /\ u.content = s.content /\ u.mode = "none"
        /\ u.hurt = 0 /\ u.last = Tables /\ u.at = 1 /\ u.batch = 1
    BY <1>1, SMTT(30) DEF CallType, Phase, Wire
  <2> HIDE DEF u
  <2> QED  BY <1>1, <2>1, <2>2 DEF Good, Shape, Progress, Wire
<1>3. CASE Existing # {}
  <2> DEFINE u == [s EXCEPT !.pc = "tables", !.ds = ds]
  <2>1. Proceed(s, ds) = u
    BY <1>3 DEF Proceed, Located
  <2>2. /\ u \in CallType /\ u.pc = "tables" /\ u.content = s.content /\ u.mode = "none"
        /\ u.hurt = 0 /\ u.last = Tables /\ u.ds = ds /\ u.before = s.before
        /\ u.alone = s.alone /\ u.twice = s.twice
    BY <1>1, ZenonT(40) DEF CallType, Phase, Wire
  <2> HIDE DEF u
  <2>3. There(u, datasets)
    BY <1>3, <2>2 DEF Existing, There
  <2>4. c \in Deliver /\ s.alone /\ ~s.twice => s.before = datasets
    BY DEF Good, Progress
  <2>5. Shape(u, datasets)
    BY <1>1, <2>2, <2>3 DEF Shape, Wire, There
  <2> QED  BY <2>1, <2>2, <2>3, <2>4, <2>5 DEF Good, Progress
<1> QED  BY <1>2, <1>3

LEMMA CreateAnswered ==
    ASSUME datasets \in Seq(DatasetType), NEW c, NEW s, Good(c, s, datasets), s.pc = "create",
           NEW ds
    PROVE  Good(c, Proceed(s, ds), Eff(c, s, datasets))
<1> DEFINE i == Len(datasets) + 1
           E == Eff(c, s, datasets)
           u == [s EXCEPT !.pc = "post", !.mode = "fill", !.ds = i]
<1>1. /\ Shape(s, datasets) /\ s \in CallType /\ s.content \in Content /\ s.mode = "none"
      /\ s.hurt = 0 /\ s.last = Tables /\ s.at = 1 /\ s.batch = 1
  BY DEF Good, Shape, Wire
<1>2. /\ i \in DOMAIN E /\ E[i] # Absent /\ i \in Nat
      /\ \A t \in Table : E[i].table[t] = [schema |-> SchemaOf[s.content], rows |-> <<>>]
  BY <1>1, EffCreate
<1>3. Proceed(s, ds) = u
  BY DEF Proceed, Created
<1> HIDE DEF i, E
<1>4. /\ u \in CallType /\ u.pc = "post" /\ u.content = s.content /\ u.mode = "fill"
      /\ u.hurt = 0 /\ u.last = Tables /\ u.at = 1 /\ u.batch = 1 /\ u.ds = i
  BY <1>1, <1>2, ZenonT(40) DEF CallType, Phase, Wire, Mode
<1> HIDE DEF u
<1>5. 1 <= Tables
  BY SizeAssumption
<1>6. Shape(u, E)
  BY <1>1, <1>2, <1>4, <1>5 DEF Shape, Wire
<1>7. There(u, E)
  BY <1>2, <1>4 DEF There
<1>8. Pouring(c, u, E)
  <2> SUFFICES ASSUME NEW t \in Table
               PROVE  Fits(u, E, t) /\ ~(t < u.at) /\ HasRows(u, E, t, <<>>)
                      /\ Filled(c, u.batch - 1) = <<>>
    BY <1>4 DEF Pouring
  <2>1. ~(t < u.at)
    BY <1>4 DEF Table
  <2>2. Fits(u, E, t) /\ HasRows(u, E, t, <<>>)
    BY <1>2, <1>4 DEF Fits, HasRows
  <2>3. Filled(c, u.batch - 1) = <<>>
    BY <1>4, FilledNone
  <2> QED  BY <2>1, <2>2, <2>3
<1>9. Good(c, u, E)
  BY <1>4, <1>6, <1>7, <1>8 DEF Good, Progress
<1> QED  BY <1>3, <1>9 DEF E

LEMMA TablesAnswered ==
    ASSUME datasets \in Seq(DatasetType), NEW c, NEW s, Good(c, s, datasets), s.pc = "tables",
           There(s, datasets), NEW ds
    PROVE  Good(c, Proceed(s, ds), datasets)
<1> DEFINE f == [t \in Table |-> datasets[s.ds].table[t].schema]
           u == [s EXCEPT !.seen = f]
<1>1. /\ Shape(s, datasets) /\ s \in CallType /\ s.content \in Content /\ s.mode = "none"
      /\ s.hurt = 0 /\ s.last = Tables /\ s.ds \in DOMAIN datasets
  BY DEF Good, Shape, Wire
<1>2. f \in [Table -> Schema]
  BY ThereTyped DEF TableState
<1>3. \A t \in Table : f[t] = datasets[s.ds].table[t].schema
  OBVIOUS
<1>4. Proceed(s, ds) = NextPut(u, 1)
  BY DEF Proceed, Listed
<1> HIDE DEF f
<1>5. /\ u \in CallType /\ u.content = s.content /\ u.mode = "none" /\ u.hurt = 0
      /\ u.last = Tables /\ u.ds = s.ds /\ u.seen = f /\ u.before = s.before
      /\ u.alone = s.alone /\ u.twice = s.twice
  BY <1>1, <1>2 DEF CallType
<1> HIDE DEF u
<1>6. c \in Deliver /\ s.alone /\ ~s.twice => s.before = datasets
  BY DEF Good, Progress
<1>7. s.before = datasets => There(u, datasets) /\ Looking(u, datasets, 1)
  BY <1>3, <1>5 DEF There, Looking, Kept, HasRows, Table
<1>8. 1 \in 1 .. Tables + 1
  BY SizeAssumption
<1> QED  BY <1>1, <1>2, <1>4, <1>5, <1>6, <1>7, <1>8, NextPutGood

LEMMA PutAnswered ==
    ASSUME NEW D \in Seq(DatasetType), NEW c, NEW s, Good(c, s, D), s.pc = "put",
           There(s, D), NEW ds
    PROVE  Good(c, Proceed(s, ds), Eff(c, s, D))
<1> DEFINE E == Eff(c, s, D)
<1>1. /\ Shape(s, D) /\ s \in CallType /\ s.content \in Content /\ s.mode = "none"
      /\ s.hurt = 0 /\ s.last = Tables /\ s.ds \in DOMAIN D /\ s.seen \in [Table -> Schema]
  BY DEF Good, Shape, Wire
<1>2. OneTable(D, E, s.ds, s.at, SchemaOf[s.content], D[s.ds].table[s.at].rows)
  BY <1>1, EffPut
<1>3. Proceed(s, ds) = NextPut(s, s.at + 1)
  BY DEF Proceed
<1>4. s.at \in Table /\ s.at \in Nat /\ s.at + 1 \in 1 .. Tables + 1
  BY <1>1, SizeAssumption DEF CallType, Table
<1> HIDE DEF E
<1>5. There(s, E) /\ s.ds \in DOMAIN E
  BY <1>1, <1>2 DEF There, OneTable
<1>6. Putting(s, D) => Looking(s, E, s.at + 1)
  <2> SUFFICES ASSUME Putting(s, D), NEW t \in Table
               PROVE  /\ Kept(s, E, t)
                      /\ t < s.at + 1 => Fits(s, E, t)
                      /\ t >= s.at + 1 => E[s.ds].table[t].schema = s.seen[t]
    BY DEF Looking
  <2>1. CASE t = s.at
    <3>1. Kept(s, E, t) /\ Fits(s, E, t)
      BY <1>2, <1>4, <2>1 DEF OneTable, Putting, Kept, HasRows, Fits
    <3> QED  BY <1>4, <2>1, <3>1
  <2>2. CASE t # s.at
    <3>1. Kept(s, E, t) /\ (t < s.at => Fits(s, E, t))
          /\ (t > s.at => E[s.ds].table[t].schema = s.seen[t])
      BY <1>2, <2>2 DEF OneTable, Putting, Kept, HasRows, Fits
    <3> QED  BY <1>4, <2>2, <3>1 DEF Table
  <2> QED  BY <2>1, <2>2
<1>7. c \in Deliver /\ s.alone /\ ~s.twice => Putting(s, D)
  BY DEF Good, Progress
<1>8. Good(c, NextPut(s, s.at + 1), E)
  BY <1>1, <1>4, <1>5, <1>6, <1>7, NextPutGood
<1> QED  BY <1>3, <1>8 DEF E

LEMMA DeleteAnswered ==
    ASSUME NEW D \in Seq(DatasetType), NEW c \in Deliver, NEW s, Good(c, s, D), s.pc = "delete",
           There(s, D), NEW ds
    PROVE  Good(c, Proceed(s, ds), Eff(c, s, D))
<1> DEFINE E == Eff(c, s, D)
           u == [s EXCEPT !.pc = "post", !.batch = 1]
<1>1. Shape(s, D) /\ s \in CallType /\ s.at \in Table
  BY DEF Good, Shape, CallType
<1>2. OneTable(D, E, s.ds, s.at, D[s.ds].table[s.at].schema, <<>>)
  BY <1>1, EffDelete
<1>3. Good(c, s, E)
  BY EffectAgain DEF CanRun, Wire
<1>4. Proceed(s, ds) = u
  BY DEF Proceed
<1>5. 1 \in Batch
  BY SizeAssumption DEF Batch
<1>6. /\ u \in CallType /\ u.pc = "post" /\ u.batch = 1 /\ u.content = s.content
      /\ u.mode = s.mode /\ u.hurt = s.hurt /\ u.last = s.last /\ u.at = s.at /\ u.ds = s.ds
      /\ u.before = s.before /\ u.prev = s.prev /\ u.problem = s.problem
      /\ u.alone = s.alone /\ u.twice = s.twice
  BY <1>1, <1>5 DEF CallType, Phase, Wire
<1> HIDE DEF E, u
<1>7. Shape(u, E)
  BY <1>3, <1>6 DEF Good, Shape, Wire
<1>8. ASSUME s.alone, ~s.twice PROVE Progress(c, u, E)
  <2>1. Progress(c, s, E)
    BY <1>3, <1>8 DEF Good
  <2>2. There(u, E)
    BY <1>6, <2>1 DEF Progress, There
  <2>3. \A d : HasRows(u, E, u.at, Filled(d, u.batch - 1))
    BY <1>2, <1>6, FilledNone DEF HasRows, OneTable
  <2>4. s.mode # "restore" => Pouring(c, u, E)
    <3> SUFFICES ASSUME s.mode # "restore", NEW t \in Table
                 PROVE  /\ Fits(u, E, t)
                        /\ t < u.at => HasRows(u, E, t, Full(c))
                        /\ t > u.at /\ u.mode = "replace" => Kept(u, E, t)
                        /\ t > u.at /\ u.mode = "fill" => HasRows(u, E, t, <<>>)
      BY <2>3 DEF Pouring
    <3>1. Pouring(c, s, E)
      BY <2>1 DEF Progress
    <3> QED  BY <1>6, <3>1 DEF Pouring, Fits, HasRows, Kept
  <2>5. s.mode = "restore" => u.problem \/ Restoring(u, E)
    <3> SUFFICES ASSUME s.mode = "restore", ~s.problem, NEW t \in Table
                 PROVE  /\ t > u.hurt => Kept(u, E, t)
                        /\ t < u.at => HasRows(u, E, t, Full(u.prev))
      BY <1>6, <2>3 DEF Restoring
    <3>1. Restoring(s, E)
      BY <2>1 DEF Progress
    <3> QED  BY <1>6, <3>1 DEF Restoring, HasRows, Kept
  <2> QED  BY <1>6, <2>2, <2>4, <2>5 DEF Progress
<1>9. Good(c, u, E)
  BY <1>6, <1>7, <1>8 DEF Good
<1> QED  BY <1>4, <1>9 DEF E

(* The post's row comes behind the ones posted before it.                  *)
LEMMA PostAnswered ==
    ASSUME NEW D \in Seq(DatasetType), NEW c \in Deliver, NEW s, Good(c, s, D), s.pc = "post",
           There(s, D), NEW ds
    PROVE  Good(c, Proceed(s, ds), Eff(c, s, D))
<1> DEFINE E == Eff(c, s, D)
           r == Append(D[s.ds].table[s.at].rows, <<PostedFor(c, s), s.batch>>)
<1>1. /\ Shape(s, D) /\ s \in CallType /\ s.at \in Table /\ s.batch \in Nat \ {0}
      /\ s.batch \in Batch /\ s.batch <= Batches /\ s.at \in Nat /\ s.hurt \in Nat
      /\ s.mode \in {"fill", "replace", "restore"}
  BY DEF Good, Shape, CallType, Batch, Table
<1>2. OneTable(D, E, s.ds, s.at, D[s.ds].table[s.at].schema, r)
  BY <1>1, EffPost
<1> HIDE DEF r, E
<1>3. There(s, E) /\ DOMAIN E = DOMAIN D
  BY <1>2 DEF OneTable, There
<1>4. Shape(s, E)
  BY <1>1, <1>3 DEF Shape
<1>5. ASSUME s.alone, ~s.twice
      PROVE  /\ s.mode # "restore" =>
                 /\ \A t \in Table : /\ Fits(s, E, t)
                                     /\ t < s.at => HasRows(s, E, t, Full(c))
                                     /\ t > s.at /\ s.mode = "replace" => Kept(s, E, t)
                                     /\ t > s.at /\ s.mode = "fill" => HasRows(s, E, t, <<>>)
                 /\ HasRows(s, E, s.at, Filled(c, s.batch))
             /\ s.mode = "restore" =>
                 \/ s.problem
                 \/ /\ \A t \in Table : /\ t > s.hurt => Kept(s, E, t)
                                        /\ t < s.at => HasRows(s, E, t, Full(s.prev))
                    /\ HasRows(s, E, s.at, Filled(s.prev, s.batch))
  <2>1. Progress(c, s, D)
    BY <1>5 DEF Good
  <2>2. ASSUME NEW d, d = PostedFor(c, s), HasRows(s, D, s.at, Filled(d, s.batch - 1))
        PROVE  HasRows(s, E, s.at, Filled(d, s.batch))
    <3>1. r = Append(Filled(d, s.batch - 1), <<d, s.batch>>)
      BY <2>2 DEF HasRows, r
    <3>2. r = Filled(d, s.batch)
      BY <1>1, <3>1, FilledMore
    <3> QED  BY <1>2, <3>2 DEF HasRows, OneTable
  <2>3. ASSUME s.mode # "restore"
        PROVE  /\ \A t \in Table : /\ Fits(s, E, t)
                                   /\ t < s.at => HasRows(s, E, t, Full(c))
                                   /\ t > s.at /\ s.mode = "replace" => Kept(s, E, t)
                                   /\ t > s.at /\ s.mode = "fill" => HasRows(s, E, t, <<>>)
               /\ HasRows(s, E, s.at, Filled(c, s.batch))
    <3>1. Pouring(c, s, D)
      BY <2>1, <2>3 DEF Progress
    <3>2. HasRows(s, E, s.at, Filled(c, s.batch))
      <4>1. c = PostedFor(c, s)
        BY <2>3 DEF PostedFor
      <4>2. HasRows(s, D, s.at, Filled(c, s.batch - 1))
        BY <1>1, <3>1 DEF Pouring
      <4> QED  BY <2>2, <4>1, <4>2
    <3>3. ASSUME NEW t \in Table
          PROVE  /\ Fits(s, E, t)
                 /\ t < s.at => HasRows(s, E, t, Full(c))
                 /\ t > s.at /\ s.mode = "replace" => Kept(s, E, t)
                 /\ t > s.at /\ s.mode = "fill" => HasRows(s, E, t, <<>>)
      <4>1. CASE t = s.at
        <5>1. Fits(s, E, t)
          BY <1>2, <3>1, <4>1 DEF OneTable, Pouring, Fits
        <5> QED  BY <1>1, <4>1, <5>1
      <4>2. CASE t # s.at
        <5>1. E[s.ds].table[t] = D[s.ds].table[t]
          BY <1>2, <4>2 DEF OneTable
        <5>2. Fits(s, E, t)
          BY <3>1, <5>1 DEF Pouring, Fits
        <5>3. \A x : HasRows(s, D, t, x) => HasRows(s, E, t, x)
          BY <5>1 DEF HasRows
        <5> QED  BY <3>1, <5>2, <5>3 DEF Pouring, Kept
      <4> QED  BY <4>1, <4>2
    <3> QED  BY <3>2, <3>3
  <2>4. ASSUME s.mode = "restore", ~s.problem
        PROVE  /\ \A t \in Table : /\ t > s.hurt => Kept(s, E, t)
                                   /\ t < s.at => HasRows(s, E, t, Full(s.prev))
               /\ HasRows(s, E, s.at, Filled(s.prev, s.batch))
    <3>1. Restoring(s, D) /\ s.at < s.hurt
      <4>1. Restoring(s, D)
        BY <2>1, <2>4 DEF Progress
      <4>2. s.at <= s.last /\ s.hurt = s.last + 1 /\ s.last \in Nat
        BY <1>1, <2>4 DEF Shape, CallType, Table
      <4> QED  BY <1>1, <4>1, <4>2
    <3>2. HasRows(s, E, s.at, Filled(s.prev, s.batch))
      <4>1. s.prev = PostedFor(c, s)
        BY <2>4 DEF PostedFor
      <4>2. HasRows(s, D, s.at, Filled(s.prev, s.batch - 1))
        BY <1>1, <3>1 DEF Restoring
      <4> QED  BY <2>2, <4>1, <4>2
    <3>3. ASSUME NEW t \in Table
          PROVE  /\ t > s.hurt => Kept(s, E, t)
                 /\ t < s.at => HasRows(s, E, t, Full(s.prev))
      <4>1. CASE t = s.at
        BY <1>1, <3>1, <4>1
      <4>2. CASE t # s.at
        BY <1>2, <3>1, <4>2 DEF OneTable, Restoring, HasRows, Kept
      <4> QED  BY <4>1, <4>2
    <3> QED  BY <3>2, <3>3
  <2> QED  BY <2>3, <2>4
<1>6. CASE s.batch < Batches
  <2> DEFINE u == [s EXCEPT !.batch = s.batch + 1]
  <2>1. Proceed(s, ds) = u
    BY <1>6 DEF Proceed
  <2>2. s.batch + 1 \in Batch
    BY <1>1, <1>6, SizeAssumption DEF Batch
  <2>3. /\ u \in CallType /\ u.pc = "post" /\ u.batch = s.batch + 1 /\ u.content = s.content
        /\ u.mode = s.mode /\ u.hurt = s.hurt /\ u.last = s.last /\ u.at = s.at /\ u.ds = s.ds
        /\ u.before = s.before /\ u.prev = s.prev /\ u.problem = s.problem
        /\ u.alone = s.alone /\ u.twice = s.twice
    BY <1>1, <2>2 DEF CallType
  <2>4. u.batch - 1 = s.batch
    BY <1>1, <2>3
  <2> HIDE DEF u
  <2>5. Shape(u, E)
    BY <1>4, <2>3 DEF Shape, Wire
  <2>6. ASSUME s.alone, ~s.twice PROVE Progress(c, u, E)
    <3>1. There(u, E)
      BY <1>3, <2>3 DEF There
    <3>2. s.mode # "restore" => Pouring(c, u, E)
      BY <1>5, <2>3, <2>4, <2>6 DEF Pouring, Fits, HasRows, Kept
    <3>3. s.mode = "restore" => u.problem \/ Restoring(u, E)
      BY <1>5, <2>3, <2>4, <2>6 DEF Restoring, HasRows, Kept
    <3> QED  BY <2>3, <3>1, <3>2, <3>3 DEF Progress
  <2>7. Good(c, u, E)
    BY <2>3, <2>5, <2>6 DEF Good
  <2> QED  BY <2>1, <2>7 DEF E
<1>7. CASE ~(s.batch < Batches)
  <2>1. s.batch = Batches
    BY <1>1, <1>7, SizeAssumption
  <2>2. Proceed(s, ds) = TableDone(s)
    BY <1>7 DEF Proceed
  <2>3. Filled(c, s.batch) = Full(c) /\ Filled(s.prev, s.batch) = Full(s.prev)
    BY <2>1, FilledAll
  <2>4. Good(c, TableDone(s), E)
    BY <1>3, <1>4, <1>5, <2>3, TableDoneGood
  <2> QED  BY <2>2, <2>4 DEF E
<1> QED  BY <1>6, <1>7

LEMMA LastAnswered ==
    ASSUME NEW D \in Seq(DatasetType), NEW c, NEW s, Good(c, s, D), s.pc \in {"relist", "drop"},
           NEW ds
    PROVE  Good(c, Proceed(s, ds), Eff(c, s, D))
<1>1. Shape(s, D) /\ s \in CallType /\ s.mode = "fill" /\ s.hurt = 0 /\ s.ds \in DOMAIN D
  BY DEF Good, Shape
<1>2. CASE s.pc = "relist"
  <2> DEFINE u == [s EXCEPT !.pc = "succeeded"]
  <2>1. Proceed(s, ds) = u /\ Eff(c, s, D) = D
    BY <1>2, EffElse DEF Proceed
  <2>2. /\ u \in CallType /\ u.pc = "succeeded" /\ u.content = s.content /\ u.hurt = 0
        /\ u.ds = s.ds /\ u.alone = s.alone /\ u.twice = s.twice
    BY <1>1 DEF CallType, Phase, Ended
  <2> HIDE DEF u
  <2>3. c \in Deliver /\ s.alone /\ ~s.twice => AllIn(c, u, D)
    BY <1>2, <2>2 DEF Good, Progress, AllIn, There, Fits, HasRows
  <2> QED  BY <2>1, <2>2, <2>3 DEF Good, Shape, Progress, Wire
<1>3. CASE s.pc = "drop"
  <2> DEFINE u == [s EXCEPT !.pc = "failed"]
  <2>1. Proceed(s, ds) = u /\ Eff(c, s, D)[s.ds] = Absent
    BY <1>1, <1>3, EffDrop DEF Proceed
  <2>2. u \in CallType /\ u.pc = "failed" /\ u.hurt = 0 /\ u.ds = s.ds
    BY <1>1 DEF CallType, Phase, Ended
  <2> HIDE DEF u
  <2> QED  BY <2>1, <2>2 DEF Good, Shape, Progress, Left, Wire
<1> QED  BY <1>2, <1>3

-----------------------------------------------------------------------------
(* A step of an adapter                                                    *)

(* Another call's request leaves a call alone, or disturbs it visibly.     *)
LEMMA OthersGood ==
    ASSUME WorkspaceInv, NEW c \in Call, NEW u, NEW D2, DOMAIN datasets \subseteq DOMAIN D2,
           NEW d \in Call, d # c
    PROVE  /\ Good(d, Touch(D2, c, u)[d], D2)
           /\ Touch(D2, c, u)[d].rev = call[d].rev /\ Touch(D2, c, u)[d].prev = call[d].prev
           /\ Touch(D2, c, u)[d].content = call[d].content
           /\ Touch(D2, c, u)[d].pc = call[d].pc
<1>1. Good(d, call[d], datasets) /\ Shape(call[d], datasets) /\ call[d] \in CallType
  BY DEF WorkspaceInv, Good, Shape
<1>2. CASE D2 # datasets /\ call[d].pc \in Wire \cup Ended
  <2> DEFINE v == [call[d] EXCEPT !.alone = FALSE, !.before = <<>>]
  <2>1. Touch(D2, c, u)[d] = v
    BY <1>2 DEF Touch
  <2>2. <<>> \in Seq(DatasetType)
    OBVIOUS
  <2>3. /\ v \in CallType /\ ~v.alone /\ v.pc = call[d].pc /\ v.content = call[d].content
        /\ v.prev = call[d].prev /\ v.ds = call[d].ds /\ v.mode = call[d].mode
        /\ v.at = call[d].at /\ v.last = call[d].last /\ v.batch = call[d].batch
        /\ v.seen = call[d].seen /\ v.hurt = call[d].hurt /\ v.rev = call[d].rev
    BY <1>1, <2>2 DEF CallType
  <2> HIDE DEF v
  <2>4. Good(d, v, D2)
    BY <1>1, <2>3, SpoiltGood
  <2> QED  BY <2>1, <2>3, <2>4
<1>3. CASE D2 = datasets \/ call[d].pc \notin Wire \cup Ended
  <2>1. Touch(D2, c, u)[d] = call[d]
    BY <1>3 DEF Touch
  <2>2. Good(d, call[d], D2)
    <3>1. CASE D2 = datasets
      BY <1>1, <3>1
    <3>2. CASE call[d].pc \notin Wire \cup Ended
      BY <1>1, <3>2 DEF Good, Shape, Progress, Wire, Ended
    <3> QED  BY <1>3, <3>1, <3>2
  <2> QED  BY <2>1, <2>2
<1> QED  BY <1>2, <1>3

(* What the core's records see of an adapter's step.                       *)
Unseen(c) ==
    /\ call[c].pc \in Wire /\ call'[c].pc \in Wire \cup Ended
    /\ call'[c].rev = call[c].rev /\ call'[c].content = call[c].content
    /\ \A d \in Call \ {c} : /\ call'[d].rev = call[d].rev /\ call'[d].prev = call[d].prev
                             /\ call'[d].content = call[d].content /\ call'[d].pc = call[d].pc
    /\ UNCHANGED <<artifacts, delivered, attested, answer, past>>

LEMMA TouchStep ==
    ASSUME WorkspaceInv, NEW c \in Call, NEW u, NEW D2 \in Seq(DatasetType),
           DOMAIN datasets \subseteq DOMAIN D2, datasets' = D2, call' = Touch(D2, c, u),
           Good(c, u, D2), u.pc \in Wire \cup Ended,
           u.rev = call[c].rev, u.content = call[c].content, call[c].pc \in Wire,
           UNCHANGED <<artifacts, delivered, attested, answer, past>>
    PROVE  WorkspaceInv' /\ Unseen(c)
<1>1. u.pc \in Wire \cup Ended /\ u \in CallType
  BY DEF Good, Shape
<1>2. call'[c] = Settled(u)
  BY DEF Touch, Settled
<1>3. Good(c, call'[c], datasets')
  BY <1>2, SettledGood
<1>4. call'[c].pc = u.pc /\ call'[c].rev = u.rev /\ call'[c].content = u.content
  BY <1>1, <1>2 DEF Settled, CallType
<1>5. \A d \in Call : Good(d, call'[d], datasets')
  BY <1>3, OthersGood
<1>6. call' \in [Call -> CallType]
  <2>1. call' = [d \in Call |-> call'[d]]
    BY DEF Touch
  <2>2. \A d \in Call : call'[d] \in CallType
    BY <1>5 DEF Good, Shape
  <2> QED  BY <2>1, <2>2
<1>7. Unseen(c)
  BY <1>1, <1>4, OthersGood DEF Unseen
<1>8. WorkspaceInv'
  BY <1>5, <1>6 DEF WorkspaceInv
<1> QED  BY <1>7, <1>8

(* The request is executed or not: either way the call keeps its progress, *)
(* once a repeated create or post is on its record.                        *)
LEMMA HalfDone ==
    ASSUME WorkspaceInv, NEW c \in Deliver, c \in Call, call[c].pc \in Wire, NEW done \in BOOLEAN,
           done => Possible(c), NEW D2, D2 = IF done THEN Effect(c) ELSE datasets,
           NEW u, u = [call[c] EXCEPT !.twice = call[c].twice \/ Repeats(c, done)]
    PROVE  /\ D2 \in Seq(DatasetType) /\ DOMAIN datasets \subseteq DOMAIN D2
           /\ Good(c, u, D2) /\ u \in CallType /\ u.pc = call[c].pc
           /\ u.rev = call[c].rev /\ u.content = call[c].content
<1> DEFINE s == call[c]
<1>1. /\ Good(c, s, datasets) /\ Shape(s, datasets) /\ s \in CallType
      /\ datasets \in Seq(DatasetType)
  BY DEF WorkspaceInv, Good, Shape
<1>2. (s.twice \/ Repeats(c, done)) \in BOOLEAN
  BY <1>1 DEF CallType, Repeats
<1>3. /\ u \in CallType /\ u.pc = s.pc /\ u.content = s.content /\ u.rev = s.rev
      /\ u.prev = s.prev /\ u.ds = s.ds /\ u.mode = s.mode /\ u.at = s.at /\ u.last = s.last
      /\ u.batch = s.batch /\ u.seen = s.seen /\ u.hurt = s.hurt
  BY <1>1, <1>2 DEF CallType
<1>4. CASE ~done
  <2>1. D2 = datasets
    BY <1>4
  <2>2. u = s
    <3>1. (s.twice \/ Repeats(c, done)) = s.twice
      BY <1>1, <1>4 DEF Repeats, CallType
    <3> QED  BY <1>1, <3>1 DEF CallType
  <2> QED  BY <1>1, <1>3, <2>1, <2>2
<1>5. CASE done
  <2>1. D2 = Eff(c, s, datasets) /\ CanRun(s, datasets)
    BY <1>5, EffectIsEff, PossibleIsCanRun
  <2>2. D2 \in Seq(DatasetType) /\ DOMAIN datasets \subseteq DOMAIN D2
    BY <1>1, <2>1, EffTyped
  <2>3. CASE s.pc \in {"create", "post"}
    <3>1. u.twice
      BY <1>1, <1>5, <2>3 DEF Repeats, CallType
    <3> QED  BY <1>1, <1>3, <2>2, <3>1, SpoiltGood
  <2>4. CASE s.pc \notin {"create", "post"}
    <3>1. u = s
      <4>1. (s.twice \/ Repeats(c, done)) = s.twice
        BY <1>1, <2>4 DEF Repeats, CallType
      <4> QED  BY <1>1, <4>1 DEF CallType
    <3>2. Good(c, s, D2)
      BY <1>1, <2>1, <2>4, EffectAgain
    <3> QED  BY <1>3, <2>2, <3>1, <3>2
  <2> QED  BY <2>3, <2>4
<1> QED  BY <1>4, <1>5

LEMMA AnsweredKeeps ==
    ASSUME WorkspaceInv, NEW c \in Deliver, c \in Call, NEW ds \in Nat, Answered(c, ds)
    PROVE  WorkspaceInv' /\ Unseen(c)
<1> DEFINE s == call[c]
           p == Proceed(s, ds)
           u == [p EXCEPT !.tries = 0]
           E == Eff(c, s, datasets)
<1>1. /\ Good(c, s, datasets) /\ Shape(s, datasets) /\ s \in CallType
      /\ datasets \in Seq(DatasetType) /\ s.pc \in Wire
  BY DEF WorkspaceInv, Good, Shape, Answered
<1>2. CanRun(s, datasets) /\ Effect(c) = E
  BY EffectIsEff, PossibleIsCanRun DEF Answered
<1>3. E \in Seq(DatasetType) /\ DOMAIN datasets \subseteq DOMAIN E
  BY <1>1, <1>2, EffTyped
<1>4. Good(c, p, E)
  <2>1. CASE s.pc = "list"
    <3>1. (ds \in Existing) = (Existing # {})
      BY <2>1 DEF Answered
    <3>2. E = datasets
      BY <2>1, EffElse
    <3> QED  BY <1>1, <2>1, <3>1, <3>2, ListAnswered
  <2>2. CASE s.pc = "create"
    BY <1>1, <2>2, CreateAnswered
  <2>3. CASE s.pc = "tables"
    <3>1. There(s, datasets) /\ E = datasets
      BY <1>2, <2>3, EffElse DEF CanRun
    <3> QED  BY <1>1, <2>3, <3>1, TablesAnswered
  <2>4. CASE s.pc = "put"
    BY <1>1, <1>2, <2>4, PutAnswered DEF CanRun
  <2>5. CASE s.pc = "delete"
    BY <1>1, <1>2, <2>5, DeleteAnswered DEF CanRun
  <2>6. CASE s.pc = "post"
    BY <1>1, <1>2, <2>6, PostAnswered DEF CanRun
  <2>7. CASE s.pc \in {"relist", "drop"}
    BY <1>1, <2>7, LastAnswered
  <2> QED  BY <1>1, <2>1, <2>2, <2>3, <2>4, <2>5, <2>6, <2>7 DEF Wire
<1>5. Ident(s, p)
  BY <1>1, ProceedIdent DEF Shape
<1>6. p \in CallType /\ 0 \in 0 .. MaxRetries
  BY <1>4, SizeAssumption DEF Good, Shape
<1>7. /\ datasets' = E /\ call' = Touch(E, c, u)
      /\ UNCHANGED <<artifacts, delivered, attested, answer, past>>
  BY <1>2 DEF Answered
<1> HIDE DEF p, E
<1>8. Good(c, u, E)
  BY <1>4, <1>6, TriesGood
<1>9. u.pc \in Wire \cup Ended /\ u.rev = s.rev /\ u.content = s.content
  BY <1>5, <1>6 DEF Ident, CallType
<1> HIDE DEF u
<1> QED  BY <1>1, <1>3, <1>7, <1>8, <1>9, TouchStep

LEMMA RetriedKeeps ==
    ASSUME WorkspaceInv, NEW c \in Deliver, c \in Call, NEW done \in BOOLEAN, Retried(c, done)
    PROVE  WorkspaceInv' /\ Unseen(c)
<1> DEFINE s == call[c]
           v == [s EXCEPT !.twice = s.twice \/ Repeats(c, done)]
           u == [v EXCEPT !.tries = s.tries + 1]
           E == IF done THEN Effect(c) ELSE datasets
<1>1. s \in CallType /\ s.pc \in Wire /\ s.tries < MaxRetries /\ (done => Possible(c))
  BY DEF WorkspaceInv, Good, Shape, Retried
<1>2. /\ E \in Seq(DatasetType) /\ DOMAIN datasets \subseteq DOMAIN E
      /\ Good(c, v, E) /\ v \in CallType /\ v.pc = s.pc /\ v.rev = s.rev
      /\ v.content = s.content
  BY <1>1, HalfDone
<1>3. s.tries + 1 \in 0 .. MaxRetries
  BY <1>1, SizeAssumption DEF CallType
<1>4. [s EXCEPT !.tries = s.tries + 1, !.twice = s.twice \/ Repeats(c, done)] = u
  BY <1>1 DEF CallType
<1>5. /\ datasets' = E /\ call' = Touch(E, c, u)
      /\ UNCHANGED <<artifacts, delivered, attested, answer, past>>
  BY <1>4 DEF Retried
<1> HIDE DEF v, E
<1>6. Good(c, u, E)
  BY <1>2, <1>3, TriesGood
<1>7. u.pc \in Wire \cup Ended /\ u.rev = s.rev /\ u.content = s.content
  BY <1>1, <1>2 DEF CallType
<1> HIDE DEF u
<1> QED  BY <1>1, <1>2, <1>5, <1>6, <1>7, TouchStep

LEMMA RefusedKeeps ==
    ASSUME WorkspaceInv, NEW c \in Deliver, c \in Call, NEW done \in BOOLEAN, Refused(c, done)
    PROVE  WorkspaceInv' /\ Unseen(c)
<1> DEFINE s == call[c]
           v == [s EXCEPT !.twice = s.twice \/ Repeats(c, done)]
           w == [v EXCEPT !.tries = 0]
           u == Recover(w)
           E == IF done THEN Effect(c) ELSE datasets
<1>1. s \in CallType /\ s.pc \in Wire /\ (done => Possible(c))
  BY DEF WorkspaceInv, Good, Shape, Refused
<1>2. /\ E \in Seq(DatasetType) /\ DOMAIN datasets \subseteq DOMAIN E
      /\ Good(c, v, E) /\ v \in CallType /\ v.pc = s.pc /\ v.rev = s.rev
      /\ v.content = s.content
  BY <1>1, HalfDone
<1>3. 0 \in 0 .. MaxRetries
  BY SizeAssumption
<1>4. [s EXCEPT !.tries = 0, !.twice = s.twice \/ Repeats(c, done)] = w
  BY <1>1 DEF CallType
<1>5. /\ datasets' = E /\ call' = Touch(E, c, u)
      /\ UNCHANGED <<artifacts, delivered, attested, answer, past>>
  BY <1>4 DEF Refused
<1> HIDE DEF v, E
<1>6. Good(c, w, E)
  BY <1>2, <1>3, TriesGood
<1>7. w \in CallType /\ w.pc \in Wire /\ w.rev = s.rev /\ w.content = s.content
  BY <1>1, <1>2, <1>3 DEF CallType
<1> HIDE DEF w
<1>8. Good(c, u, E)
  BY <1>6, <1>7, RecoverGood
<1>9. Ident(w, u)
  BY <1>6, <1>7, RecoverIdent DEF Good, Shape
<1> HIDE DEF u
<1>10. u.pc \in Wire \cup Ended /\ u.rev = s.rev /\ u.content = s.content
  BY <1>7, <1>9 DEF Ident
<1> QED  BY <1>1, <1>2, <1>5, <1>8, <1>10, TouchStep

LEMMA BrokenKeeps ==
    ASSUME WorkspaceInv, NEW c \in Deliver, c \in Call, NEW done \in BOOLEAN, Broken(c, done)
    PROVE  WorkspaceInv' /\ Unseen(c)
<1> DEFINE s == call[c]
           u == [s EXCEPT !.pc = "failed", !.broken = TRUE]
           E == IF done THEN Effect(c) ELSE datasets
<1>1. Shape(s, datasets) /\ s \in CallType /\ s.pc \in Wire /\ (done => Possible(c))
  BY DEF WorkspaceInv, Good, Shape, Broken
<1>2. E \in Seq(DatasetType) /\ DOMAIN datasets \subseteq DOMAIN E
  BY <1>1, HalfDone
<1>3. /\ datasets' = E /\ call' = Touch(E, c, u)
      /\ UNCHANGED <<artifacts, delivered, attested, answer, past>>
  BY DEF Broken
<1>4. Good(c, u, E)
  BY <1>1, BrokenGood
<1>5. u.pc \in Wire \cup Ended /\ u.rev = s.rev /\ u.content = s.content
  BY <1>1 DEF CallType, Ended
<1> HIDE DEF u, E
<1> QED  BY <1>1, <1>2, <1>3, <1>4, <1>5, TouchStep

LEMMA AdapterKeeps ==
    ASSUME WorkspaceInv, NEW c \in Deliver, c \in Call, Adapter(c)
    PROVE  WorkspaceInv' /\ Unseen(c)
<1>1. DOMAIN datasets \cup {0} \subseteq Nat
  BY DEF WorkspaceInv
<1> QED  BY <1>1, AnsweredKeeps, RetriedKeeps, RefusedKeeps, BrokenKeeps DEF Adapter

-----------------------------------------------------------------------------
(* A step of the core                                                      *)

(* One call's record changes, the workspace does not.                      *)
LEMMA CoreWorkspace ==
    ASSUME WorkspaceInv, NEW c \in Call, NEW u, Good(c, u, datasets),
           call' = [call EXCEPT ![c] = u], datasets' = datasets
    PROVE  WorkspaceInv'
<1>1. call' \in [Call -> CallType] /\ call'[c] = u /\ \A d \in Call \ {c} : call'[d] = call[d]
  BY DEF WorkspaceInv, Good, Shape
<1> QED  BY <1>1 DEF WorkspaceInv

(* A record is never lost.                                                 *)
RecordedNext(rev, d) ==
    rev \in past' /\ d \in Deliver /\ call'[d].rev = rev /\ answer'[d] = "ok"

RecordsStay == \A rev, d : Recorded(rev, d) => RecordedNext(rev, d)

SameCall(d) ==
    /\ call'[d].pc = call[d].pc /\ call'[d].rev = call[d].rev
    /\ call'[d].content = call[d].content /\ call'[d].prev = call[d].prev
    /\ answer'[d] = answer[d]

Grows == artifacts' = artifacts \/ \E x \in Content : artifacts' = Append(artifacts, x)

LEMMA RecordsStayIf ==
    ASSUME NEW c, \A d \in Call \ {c} : SameCall(d),
           c \in Deliver /\ answer[c] = "ok" => call'[c].rev = call[c].rev /\ answer'[c] = "ok",
           past \subseteq past'
    PROVE  RecordsStay
BY DEF RecordsStay, Recorded, RecordedNext, SameCall, Call

LEMMA AskedOther ==
    ASSUME artifacts \in Seq(Content), NEW d \in Call, Asked(d), call[d] \in CallType,
           SameCall(d), RecordsStay, Grows
    PROVE  Asked(d)'
<1>1. Inserting(call[d])'
  <2> SUFFICES ASSUME call[d].pc = "insert"
               PROVE  /\ call[d].rev - 1 <= Len(artifacts')
                      /\ \A r \in DOMAIN artifacts' : r < call[d].rev => artifacts'[r] # call[d].content
    BY DEF Inserting, SameCall
  <2>1. /\ call[d].rev - 1 <= Len(artifacts) /\ call[d].rev \in Nat
        /\ \A r \in DOMAIN artifacts : r < call[d].rev => artifacts[r] # call[d].content
    BY DEF Asked, Inserting, CallType
  <2>2. CASE artifacts' = artifacts
    BY <2>1, <2>2
  <2>3. ASSUME NEW x \in Content, artifacts' = Append(artifacts, x)
        PROVE  /\ call[d].rev - 1 <= Len(artifacts')
               /\ \A r \in DOMAIN artifacts' : r < call[d].rev => artifacts'[r] # call[d].content
    <3>1. /\ Len(artifacts') = Len(artifacts) + 1 /\ Len(artifacts) \in Nat
          /\ DOMAIN artifacts' = 1 .. Len(artifacts) + 1 /\ DOMAIN artifacts = 1 .. Len(artifacts)
          /\ \A r \in DOMAIN artifacts : artifacts'[r] = artifacts[r]
      BY <2>3
    <3>2. \A r \in DOMAIN artifacts' : r < call[d].rev => r \in DOMAIN artifacts
      BY <2>1, <3>1
    <3> QED  BY <2>1, <3>1, <3>2
  <2> QED  BY <2>2, <2>3 DEF Grows
<1>2. d \in Attest /\ call[d].pc = "succeeded" => RecordedNext(call[d].rev, call[d].prev)
  BY DEF Asked, RecordsStay
<1> QED  BY <1>1, <1>2 DEF Asked, SameCall, Recorded, RecordedNext

(* A step that changes no record.                                          *)
LEMMA RecordsKept ==
    ASSUME RecordsInv, RecordsStay, UNCHANGED <<artifacts, delivered, attested>>,
           \A d \in Call : Asked(d)'
    PROVE  RecordsInv'
<1>1. (delivered = NoDelivery \/ Recorded(delivered.rev, delivered.by))'
  <2>1. delivered = NoDelivery \/ RecordedNext(delivered.rev, delivered.by)
    BY DEF RecordsInv, RecordsStay
  <2> QED  BY <2>1 DEF Recorded, RecordedNext
<1>2. \A a \in attested : RecordedNext(a[1], a[2])
  BY DEF RecordsInv, RecordsStay
<1>3. (\A a \in attested : Recorded(a[1], a[2]))'
  BY <1>2 DEF Recorded, RecordedNext
<1>4. RevisionsUnique'
  BY DEF RecordsInv, RevisionsUnique
<1> QED  BY <1>1, <1>3, <1>4 DEF RecordsInv

LEMMA AdapterRecords ==
    ASSUME DeliveryInv, NEW c \in Call, Adapter(c)
    PROVE  DeliveryInv'
<1>1. call[c].pc \in Wire
  BY DEF Adapter, Answered, Retried, Refused, Broken
<1>2. c \in Deliver
  BY <1>1 DEF DeliveryInv, RecordsInv, Asked, Call
<1>3. WorkspaceInv' /\ Unseen(c)
  BY <1>2, AdapterKeeps DEF DeliveryInv
<1>4. \A d \in Call \ {c} : SameCall(d)
  BY <1>3 DEF Unseen, SameCall
<1>5. RecordsStay
  BY <1>3, <1>4, RecordsStayIf DEF Unseen
<1>6. ASSUME NEW d \in Call PROVE Asked(d)'
  <2>1. CASE d = c
    <3>1. /\ call'[c].pc \in Wire \cup Ended /\ call'[c].rev = call[c].rev
          /\ call'[c].content = call[c].content /\ c \notin Attest
      BY <1>2, <1>3, CallAssumption DEF Unseen
    <3>2. call[c].rev > 0 /\ call[c].content \in Content
      BY <1>1 DEF DeliveryInv, RecordsInv, Asked, Wire
    <3> QED  BY <2>1, <3>1, <3>2 DEF Asked, Inserting, Wire, Ended
  <2>2. CASE d # c
    <3>1. Asked(d) /\ call[d] \in CallType /\ artifacts \in Seq(Content) /\ Grows
      BY <1>3 DEF DeliveryInv, RecordsInv, WorkspaceInv, Good, Shape, RecordTypes, Unseen, Grows
    <3> QED  BY <1>4, <1>5, <2>2, <3>1, AskedOther
  <2> QED  BY <2>1, <2>2
<1>7. RecordsInv'
  BY <1>3, <1>5, <1>6, RecordsKept DEF DeliveryInv, Unseen
<1>8. RecordTypes'
  BY <1>3 DEF DeliveryInv, RecordTypes, Unseen
<1> QED  BY <1>3, <1>7, <1>8 DEF DeliveryInv

Answer == Refusals \cup {"none", "ok", "error", "failed", "inconsistent", "timeout",
                         "revalidate_required"}

(* A step of the core within call c: its record becomes u, its answer a.   *)
LEMMA CoreStep ==
    ASSUME DeliveryInv, NEW c \in Call, NEW u, NEW a \in Answer, Good(c, u, datasets),
           call' = [call EXCEPT ![c] = u], answer' = [answer EXCEPT ![c] = a],
           UNCHANGED <<artifacts, delivered, attested, datasets, past>>,
           answer[c] = "ok" => a = "ok" /\ u.rev = call[c].rev,
           u.pc \in {"idle", "insert", "ready"} => a = "none",
           u.pc # "idle" => u.rev > 0 /\ u.content \in Content,
           Inserting(u),
           c \in Attest => u.pc \notin Wire,
           c \in Attest /\ u.pc = "succeeded" => Recorded(u.rev, u.prev)
    PROVE  DeliveryInv'
<1>1. WorkspaceInv'
  BY CoreWorkspace DEF DeliveryInv
<1>2. /\ call'[c] = u /\ answer'[c] = a
      /\ \A d \in Call \ {c} : call'[d] = call[d] /\ answer'[d] = answer[d]
      /\ answer' \in [Call -> Answer]
  BY DEF DeliveryInv, WorkspaceInv, RecordTypes, Answer
<1>3. \A d \in Call \ {c} : SameCall(d)
  BY <1>2 DEF SameCall
<1>4. RecordsStay
  BY <1>2, <1>3, RecordsStayIf
<1>5. ASSUME NEW d \in Call PROVE Asked(d)'
  <2>1. CASE d = c
    <3>1. c \in Attest /\ u.pc = "succeeded" => RecordedNext(u.rev, u.prev)
      BY <1>4 DEF RecordsStay
    <3>2. Inserting(call[c])'
      BY <1>2 DEF Inserting
    <3> QED  BY <1>2, <2>1, <3>1, <3>2 DEF Asked, Recorded, RecordedNext
  <2>2. CASE d # c
    <3>1. Asked(d) /\ call[d] \in CallType /\ artifacts \in Seq(Content) /\ Grows
      BY DEF DeliveryInv, RecordsInv, WorkspaceInv, Good, Shape, RecordTypes, Grows
    <3> QED  BY <1>3, <1>4, <2>2, <3>1, AskedOther
  <2> QED  BY <2>1, <2>2
<1>6. RecordsInv'
  BY <1>4, <1>5, RecordsKept DEF DeliveryInv
<1>7. RecordTypes'
  BY <1>2 DEF DeliveryInv, RecordTypes, Answer
<1> QED  BY <1>1, <1>6, <1>7 DEF DeliveryInv

(* What DeliveryInv says of one call.                                      *)
LEMMA OneCall ==
    ASSUME DeliveryInv, NEW c \in Call
    PROVE  /\ Good(c, call[c], datasets) /\ Shape(call[c], datasets) /\ call[c] \in CallType
           /\ Asked(c) /\ answer[c] \in Answer /\ answer \in [Call -> Answer]
           /\ call \in [Call -> CallType] /\ artifacts \in Seq(Content)
BY DEF DeliveryInv, WorkspaceInv, RecordsInv, RecordTypes, Good, Shape, Answer

LEMMA ReadRevisionsKeeps ==
    ASSUME DeliveryInv, NEW c \in Call, NEW x \in Content, ReadRevisions(c, x)
    PROVE  DeliveryInv'
<1> DEFINE s == call[c]
           known == {r \in DOMAIN artifacts : artifacts[r] = x}
           q == IF known = {} THEN "insert" ELSE "ready"
           n == IF known = {} THEN Len(artifacts) + 1 ELSE CHOOSE r \in known : TRUE
           u == [s EXCEPT !.pc = q, !.content = x, !.rev = n]
<1>1. /\ Shape(s, datasets) /\ s \in CallType /\ s.pc = "idle" /\ answer[c] = "none"
      /\ answer[c] \in Answer /\ answer \in [Call -> Answer] /\ artifacts \in Seq(Content)
  BY OneCall DEF ReadRevisions, Asked
<1>2. /\ q \in {"insert", "ready"} /\ n \in Nat /\ n > 0
      /\ q = "insert" => n = Len(artifacts) + 1 /\ \A r \in DOMAIN artifacts : artifacts[r] # x
  <2>1. CASE known = {}
    BY <1>1, <2>1
  <2>2. CASE known # {}
    <3>1. n \in known
      BY <2>2
    <3> QED  BY <1>1, <2>2, <3>1
  <2> QED  BY <2>1, <2>2
<1>3. call' = [call EXCEPT ![c] = u] /\ UNCHANGED <<artifacts, delivered, attested, datasets, past>>
  BY DEF ReadRevisions
<1>4. answer' = [answer EXCEPT ![c] = "none"]
  BY <1>1 DEF ReadRevisions
<1> HIDE DEF q, n
<1>5. /\ u \in CallType /\ u.pc = q /\ u.rev = n /\ u.content = x /\ u.mode = s.mode
      /\ u.hurt = s.hurt /\ u.last = s.last /\ u.at = s.at /\ u.batch = s.batch
  BY <1>1, <1>2 DEF CallType, Phase
<1> HIDE DEF u
<1>6. Good(c, u, datasets)
  BY <1>1, <1>2, <1>5 DEF Good, Shape, Progress, Wire
<1>7. Inserting(u)
  BY <1>1, <1>2, <1>5 DEF Inserting
<1>8. "none" \in Answer
  BY DEF Answer
<1> QED  BY <1>1, <1>2, <1>3, <1>4, <1>5, <1>6, <1>7, <1>8, CoreStep DEF Wire

(* A call that ends before its first request leaves the model alone.       *)
LEMMA EarlyEnd ==
    ASSUME NEW c, NEW s, NEW D, Good(c, s, D), s.pc \in {"insert", "ready"}
    PROVE  LET u == [s EXCEPT !.pc = "failed"] IN
           /\ Good(c, u, D) /\ u.pc = "failed" /\ u.rev = s.rev /\ u.content = s.content
<1> DEFINE u == [s EXCEPT !.pc = "failed"]
<1>1. /\ u \in CallType /\ u.pc = "failed" /\ u.rev = s.rev /\ u.content = s.content
      /\ u.mode = "none" /\ u.hurt = 0
  BY DEF Good, Shape, CallType, Phase, Ended
<1> HIDE DEF u
<1>2. Good(c, u, D)
  BY <1>1 DEF Good, Shape, Progress, Left, Wire
<1> QED  BY <1>1, <1>2 DEF u

LEMMA EarlyEndKeeps ==
    ASSUME DeliveryInv, NEW c \in Call, call[c].pc \in {"insert", "ready"}, NEW a \in Answer,
           Goto(c, "failed"), Tell(c, a),
           UNCHANGED <<artifacts, delivered, attested, datasets, past>>
    PROVE  DeliveryInv'
<1> DEFINE u == [call[c] EXCEPT !.pc = "failed"]
<1>1. Good(c, call[c], datasets) /\ Asked(c) /\ answer[c] = "none"
  BY OneCall DEF Asked
<1>2. /\ Good(c, u, datasets) /\ u.pc = "failed" /\ u.rev = call[c].rev
      /\ u.content = call[c].content
  BY <1>1, EarlyEnd
<1>3. call' = [call EXCEPT ![c] = u] /\ answer' = [answer EXCEPT ![c] = a]
  BY DEF Goto, Tell
<1> HIDE DEF u
<1>4. u.rev > 0 /\ u.content \in Content /\ Inserting(u)
  BY <1>1, <1>2 DEF Asked, Inserting
<1> QED  BY <1>1, <1>2, <1>3, <1>4, CoreStep DEF Wire

(* The primary key turns down the second of two calls for one number; the  *)
(* first one's content is not among the revisions.                         *)
LEMMA InsertRevisionKeeps ==
    ASSUME DeliveryInv, NEW c \in Call, InsertRevision(c)
    PROVE  DeliveryInv'
<1> DEFINE s == call[c]
<1>1. /\ Good(c, s, datasets) /\ Shape(s, datasets) /\ s \in CallType /\ s.pc = "insert"
      /\ Asked(c) /\ artifacts \in Seq(Content) /\ answer \in [Call -> Answer]
  BY OneCall DEF InsertRevision
<1>2. CASE s.rev \in DOMAIN artifacts
  <2>1. "error" \in Answer
    BY DEF Answer
  <2>2. Goto(c, "failed") /\ Tell(c, "error")
        /\ UNCHANGED <<artifacts, delivered, attested, datasets, past>>
    BY <1>2 DEF InsertRevision
  <2> QED  BY <1>1, <2>1, <2>2, EarlyEndKeeps
<1>3. CASE s.rev \notin DOMAIN artifacts
  <2> DEFINE u == [s EXCEPT !.pc = "ready"]
  <2>1. /\ artifacts' = Append(artifacts, s.content) /\ call' = [call EXCEPT ![c] = u]
        /\ UNCHANGED <<delivered, attested, datasets, answer, past>>
    BY <1>3 DEF InsertRevision, Goto
  <2>2. /\ s.content \in Content /\ s.rev > 0 /\ s.rev \in Nat /\ answer[c] = "none"
        /\ s.rev - 1 <= Len(artifacts)
        /\ \A r \in DOMAIN artifacts : r < s.rev => artifacts[r] # s.content
    BY <1>1 DEF Asked, Inserting, CallType
  <2>3. s.rev = Len(artifacts) + 1 /\ \A r \in DOMAIN artifacts : artifacts[r] # s.content
    <3>1. DOMAIN artifacts = 1 .. Len(artifacts) /\ Len(artifacts) \in Nat
      BY <1>1
    <3>2. s.rev = Len(artifacts) + 1
      BY <1>3, <2>2, <3>1
    <3> QED  BY <2>2, <3>1, <3>2
  <2>4. RevisionsUnique'
    <3>1. /\ DOMAIN artifacts' = 1 .. Len(artifacts) + 1 /\ DOMAIN artifacts = 1 .. Len(artifacts)
          /\ artifacts'[Len(artifacts) + 1] = s.content /\ Len(artifacts) \in Nat
          /\ \A r \in DOMAIN artifacts : artifacts'[r] = artifacts[r]
      BY <1>1, <2>1, <2>2
    <3>2. RevisionsUnique
      BY DEF DeliveryInv, RecordsInv
    <3>3. ASSUME NEW r \in DOMAIN artifacts', NEW p \in DOMAIN artifacts',
                 artifacts'[r] = artifacts'[p]
          PROVE  r = p
      <4>1. CASE r \in DOMAIN artifacts /\ p \in DOMAIN artifacts
        BY <3>1, <3>2, <3>3, <4>1 DEF RevisionsUnique
      <4>2. CASE r \notin DOMAIN artifacts /\ p \notin DOMAIN artifacts
        BY <3>1, <4>2
      <4>3. CASE r \in DOMAIN artifacts /\ p \notin DOMAIN artifacts
        <5>1. p = Len(artifacts) + 1
          BY <3>1, <4>3
        <5> QED  BY <2>3, <3>1, <3>3, <4>3, <5>1
      <4>4. CASE r \notin DOMAIN artifacts /\ p \in DOMAIN artifacts
        <5>1. r = Len(artifacts) + 1
          BY <3>1, <4>4
        <5> QED  BY <2>3, <3>1, <3>3, <4>4, <5>1
      <4> QED  BY <4>1, <4>2, <4>3, <4>4
    <3> QED  BY <3>3 DEF RevisionsUnique
  <2>5. /\ u \in CallType /\ u.pc = "ready" /\ u.rev = s.rev /\ u.content = s.content
        /\ u.mode = s.mode /\ u.hurt = s.hurt /\ u.last = s.last /\ u.at = s.at
        /\ u.batch = s.batch
    BY <1>1 DEF CallType, Phase
  <2> HIDE DEF u
  <2>6. Good(c, u, datasets)
    BY <1>1, <2>5 DEF Good, Shape, Progress, Wire
  <2>7. WorkspaceInv'
    BY <2>1, <2>6, CoreWorkspace DEF DeliveryInv
  <2>8. call'[c] = u /\ \A d \in Call \ {c} : call'[d] = call[d]
    BY <2>1, OneCall
  <2>9. (\A d \in Call \ {c} : SameCall(d)) /\ Grows
    BY <2>1, <2>2, <2>8 DEF SameCall, Grows
  <2>10. RecordsStay
    BY <2>1, <2>5, <2>8, <2>9, RecordsStayIf
  <2>11. ASSUME NEW d \in Call PROVE Asked(d)'
    <3>1. CASE d = c
      BY <2>1, <2>2, <2>5, <2>8, <3>1 DEF Asked, Inserting, Wire
    <3>2. CASE d # c
      BY <2>9, <2>10, <3>2, AskedOther, OneCall
    <3> QED  BY <3>1, <3>2
  <2>12. (delivered = NoDelivery \/ Recorded(delivered.rev, delivered.by))'
    <3>1. delivered = NoDelivery \/ RecordedNext(delivered.rev, delivered.by)
      BY <2>10 DEF DeliveryInv, RecordsInv, RecordsStay
    <3> QED  BY <2>1, <3>1 DEF Recorded, RecordedNext
  <2>13. (\A a \in attested : Recorded(a[1], a[2]))'
    <3>1. \A a \in attested : RecordedNext(a[1], a[2])
      BY <2>10 DEF DeliveryInv, RecordsInv, RecordsStay
    <3> QED  BY <2>1, <3>1 DEF Recorded, RecordedNext
  <2>14. RecordTypes'
    <3>1. artifacts' \in Seq(Content)
      BY <1>1, <2>1, <2>2
    <3> QED  BY <2>1, <3>1 DEF DeliveryInv, RecordTypes
  <2> QED  BY <2>4, <2>7, <2>11, <2>12, <2>13, <2>14 DEF DeliveryInv, RecordsInv
<1> QED  BY <1>2, <1>3

LEMMA PrepareDeliveryKeeps ==
    ASSUME DeliveryInv, NEW c \in Call, PrepareDelivery(c)
    PROVE  DeliveryInv'
<1> DEFINE s == call[c]
           u == [s EXCEPT !.prev = delivered.by, !.pc = "list", !.before = datasets]
<1>1. /\ Good(c, s, datasets) /\ Shape(s, datasets) /\ s \in CallType /\ s.pc = "ready"
      /\ c \in Deliver /\ c \notin Attest /\ Asked(c) /\ answer[c] = "none"
      /\ answer \in [Call -> Answer] /\ answer[c] \in Answer
      /\ UNCHANGED <<artifacts, delivered, attested, datasets, past>>
  BY OneCall, CallAssumption DEF PrepareDelivery, Asked
<1>2. ASSUME NEW code \in Refusals, Goto(c, "failed"), Tell(c, code) PROVE DeliveryInv'
  BY <1>1, <1>2, EarlyEndKeeps DEF Answer
<1>3. ASSUME call' = [call EXCEPT ![c] = u], answer' = answer PROVE DeliveryInv'
  <2>1. delivered.by \in Deliver \cup {None} /\ datasets \in Seq(DatasetType)
    BY DEF DeliveryInv, RecordTypes, WorkspaceInv
  <2>2. /\ u \in CallType /\ u.pc = "list" /\ u.rev = s.rev /\ u.content = s.content
        /\ u.mode = s.mode /\ u.hurt = s.hurt /\ u.last = s.last /\ u.at = s.at
        /\ u.batch = s.batch /\ u.before = datasets
    BY <1>1, <2>1 DEF CallType, Phase, Wire
  <2>3. call' = [call EXCEPT ![c] = u] /\ answer' = [answer EXCEPT ![c] = answer[c]]
    BY <1>1, <1>3
  <2> HIDE DEF u
  <2>4. s.rev > 0 /\ s.content \in Content
    BY <1>1 DEF Asked
  <2>5. Good(c, u, datasets)
    BY <1>1, <2>2, <2>4 DEF Good, Shape, Progress, Wire
  <2>6. Inserting(u)
    BY <2>2 DEF Inserting
  <2> QED  BY <1>1, <2>2, <2>3, <2>4, <2>5, <2>6, CoreStep
<1>4. DeliverStart([s EXCEPT !.prev = delivered.by]) = u
  BY <1>1 DEF DeliverStart, CallType
<1>5. \/ call' = [call EXCEPT ![c] = u] /\ answer' = answer
      \/ \E code \in Refusals : Goto(c, "failed") /\ Tell(c, code)
  BY <1>4 DEF PrepareDelivery
<1> QED  BY <1>2, <1>3, <1>5

LEMMA PrepareAttestationKeeps ==
    ASSUME DeliveryInv, NEW c \in Call, PrepareAttestation(c)
    PROVE  DeliveryInv'
<1> DEFINE s == call[c]
           u == [s EXCEPT !.prev = delivered.by, !.pc = "succeeded"]
<1>1. /\ Good(c, s, datasets) /\ Shape(s, datasets) /\ s \in CallType /\ s.pc = "ready"
      /\ c \in Attest /\ c \notin Deliver /\ Asked(c) /\ answer[c] = "none"
      /\ answer \in [Call -> Answer] /\ answer[c] \in Answer
      /\ UNCHANGED <<artifacts, delivered, attested, datasets, past>>
  BY OneCall, CallAssumption DEF PrepareAttestation, Asked
<1>2. CASE delivered.rev = s.rev
  <2>1. delivered.by \in Deliver \cup {None}
    BY DEF DeliveryInv, RecordTypes
  <2>2. AttestStart([s EXCEPT !.prev = delivered.by]) = u
    BY <1>1 DEF AttestStart, CallType
  <2>3. call' = [call EXCEPT ![c] = u] /\ answer' = [answer EXCEPT ![c] = answer[c]]
    BY <1>1, <1>2, <2>2 DEF PrepareAttestation
  <2>4. /\ u \in CallType /\ u.pc = "succeeded" /\ u.rev = s.rev /\ u.content = s.content
        /\ u.mode = s.mode /\ u.hurt = s.hurt /\ u.prev = delivered.by
    BY <1>1, <2>1 DEF CallType, Phase, Ended
  <2> HIDE DEF u
  <2>5. s.rev > 0 /\ s.content \in Content /\ s.rev \in Nat
    BY <1>1 DEF Asked, CallType
  <2>6. Good(c, u, datasets)
    BY <1>1, <2>4 DEF Good, Shape, Wire
  <2>7. Inserting(u)
    BY <2>4 DEF Inserting
  <2>8. Recorded(u.rev, u.prev)
    <3>1. delivered # NoDelivery
      BY <1>2, <2>5 DEF NoDelivery
    <3>2. Recorded(delivered.rev, delivered.by)
      BY <3>1 DEF DeliveryInv, RecordsInv
    <3> QED  BY <1>2, <2>4, <3>2
  <2> QED  BY <1>1, <2>3, <2>4, <2>5, <2>6, <2>7, <2>8, CoreStep DEF Wire
<1>3. CASE delivered.rev # s.rev
  <2>1. "revalidate_required" \in Answer
    BY DEF Answer
  <2>2. Goto(c, "failed") /\ Tell(c, "revalidate_required")
    BY <1>3 DEF PrepareAttestation
  <2> QED  BY <1>1, <2>1, <2>2, EarlyEndKeeps
<1> QED  BY <1>2, <1>3

(* The caller is told something and nothing else happens.                  *)
LEMMA ToldKeeps ==
    ASSUME DeliveryInv, NEW c \in Call, ReportFailure(c) \/ AwaitTimeout(c)
    PROVE  DeliveryInv'
<1>1. /\ Good(c, call[c], datasets) /\ call[c] \in CallType /\ Asked(c) /\ call \in [Call -> CallType]
      /\ answer[c] = "none" /\ call[c].pc \in Wire \cup Ended
  BY OneCall DEF ReportFailure, AwaitTimeout, Ended
<1>2. PICK a \in Answer : answer' = [answer EXCEPT ![c] = a]
  BY DEF ReportFailure, AwaitTimeout, Tell, Answer
<1>3. /\ call' = [call EXCEPT ![c] = call[c]]
      /\ UNCHANGED <<artifacts, delivered, attested, datasets, past>>
  BY <1>1 DEF ReportFailure, AwaitTimeout
<1> QED  BY <1>1, <1>2, <1>3, CoreStep DEF Asked, Wire, Ended

LEMMA RecordKeeps ==
    ASSUME DeliveryInv, NEW c \in Call, Record(c)
    PROVE  DeliveryInv'
<1> DEFINE s == call[c]
<1>1. /\ s \in CallType /\ s.pc = "succeeded" /\ Asked(c) /\ answer[c] = "none"
      /\ answer \in [Call -> Answer] /\ artifacts' = artifacts /\ datasets' = datasets
      /\ call' = call /\ answer' = [answer EXCEPT ![c] = "ok"]
  BY OneCall DEF Record, Tell
<1>2. /\ answer'[c] = "ok" /\ answer' \in [Call -> Answer]
      /\ \A d \in Call \ {c} : SameCall(d)
  BY <1>1 DEF SameCall, Answer
<1>3. past \subseteq past'
  BY DEF Record
<1>4. RecordsStay /\ Grows
  BY <1>1, <1>2, <1>3, RecordsStayIf DEF Grows
<1>5. ASSUME NEW d \in Call PROVE Asked(d)'
  <2>1. CASE d = c
    <3>1. c \in Attest => RecordedNext(s.rev, s.prev)
      BY <1>1, <1>4 DEF Asked, RecordsStay
    <3> QED  BY <1>1, <1>2, <2>1, <3>1 DEF Asked, Inserting, Wire, Recorded, RecordedNext
  <2>2. CASE d # c
    BY <1>2, <1>4, <2>2, AskedOther, OneCall
  <2> QED  BY <2>1, <2>2
<1>6. WorkspaceInv' /\ RevisionsUnique'
  BY <1>1 DEF DeliveryInv, WorkspaceInv, RecordsInv, RevisionsUnique
<1>7. s.rev \in Nat /\ s.prev \in Deliver \cup {None}
  BY <1>1 DEF CallType
<1>8. CASE c \in Deliver
  <2>1. /\ delivered' = [rev |-> s.rev, by |-> c] /\ past' = past \cup {s.rev}
        /\ attested' = attested
    BY <1>8 DEF Record
  <2>2. (delivered = NoDelivery \/ Recorded(delivered.rev, delivered.by))'
    BY <1>1, <1>2, <1>8, <2>1 DEF Recorded
  <2>3. (\A a \in attested : Recorded(a[1], a[2]))'
    <3>1. \A a \in attested : RecordedNext(a[1], a[2])
      BY <1>4 DEF DeliveryInv, RecordsInv, RecordsStay
    <3> QED  BY <2>1, <3>1 DEF Recorded, RecordedNext
  <2>4. RecordTypes'
    BY <1>1, <1>2, <1>7, <1>8, <2>1 DEF DeliveryInv, RecordTypes, Answer
  <2> QED  BY <1>5, <1>6, <2>2, <2>3, <2>4 DEF DeliveryInv, RecordsInv
<1>9. CASE c \notin Deliver
  <2>1. /\ attested' = {a \in attested : a[1] # s.rev} \cup {<<s.rev, s.prev>>}
        /\ delivered' = delivered /\ past' = past
    BY <1>9 DEF Record
  <2>2. (delivered = NoDelivery \/ Recorded(delivered.rev, delivered.by))'
    <3>1. delivered = NoDelivery \/ RecordedNext(delivered.rev, delivered.by)
      BY <1>4 DEF DeliveryInv, RecordsInv, RecordsStay
    <3> QED  BY <2>1, <3>1 DEF Recorded, RecordedNext
  <2>3. \A a \in attested' : RecordedNext(a[1], a[2])
    <3>1. RecordedNext(s.rev, s.prev)
      BY <1>1, <1>4, <1>9 DEF Asked, RecordsStay, Call
    <3>2. \A a \in attested : RecordedNext(a[1], a[2])
      BY <1>4 DEF DeliveryInv, RecordsInv, RecordsStay
    <3> QED  BY <2>1, <3>1, <3>2
  <2>4. (\A a \in attested : Recorded(a[1], a[2]))'
    BY <2>3 DEF Recorded, RecordedNext
  <2>5. RecordTypes'
    BY <1>1, <1>2, <1>7, <2>1 DEF DeliveryInv, RecordTypes, Answer
  <2> QED  BY <1>5, <1>6, <2>2, <2>4, <2>5 DEF DeliveryInv, RecordsInv
<1> QED  BY <1>8, <1>9

LEMMA InitDelivery == Init => DeliveryInv
<1> SUFFICES ASSUME Init PROVE DeliveryInv
  OBVIOUS
<1>1. RecordTypes
  BY DEF Init, RecordTypes, NoDelivery
<1>2. ASSUME NEW c \in Call PROVE Good(c, call[c], datasets) /\ Asked(c)
  <2> DEFINE s == call[c]
  <2>1. /\ s.pc = "idle" /\ s.mode = "none" /\ s.hurt = 0 /\ s.last = Tables /\ s.at = 1
        /\ s.batch = 1
    BY DEF Init
  <2>2. s \in CallType
    <3>1. /\ 1 \in Table /\ Tables \in Table /\ 1 \in Batch /\ 0 \in 0 .. MaxRetries
          /\ 0 \in 0 .. Tables /\ <<>> \in Seq(DatasetType)
      BY SizeAssumption DEF Table, Batch
    <3> QED  BY <3>1 DEF Init, CallType, Phase, Mode
  <2>3. answer[c] = "none"
    BY DEF Init
  <2> HIDE DEF s
  <2>4. Shape(s, datasets)
    BY <2>1, <2>2 DEF Shape, Wire
  <2>5. Good(c, s, datasets)
    BY <2>1, <2>4 DEF Good, Progress
  <2>6. Asked(c)
    BY <2>1, <2>3 DEF Asked, Inserting, Wire, s
  <2> QED  BY <2>5, <2>6 DEF s
<1>3. WorkspaceInv
  <2>1. datasets \in Seq(DatasetType)
    BY DEF Init
  <2>2. call \in [Call -> CallType]
    <3>1. call = [c \in Call |-> call[c]]
      BY DEF Init
    <3>2. \A c \in Call : call[c] \in CallType
      BY <1>2 DEF Good, Shape
    <3> QED  BY <3>1, <3>2
  <2> QED  BY <1>2, <2>1, <2>2 DEF WorkspaceInv
<1>4. RecordsInv
  BY <1>2 DEF Init, RecordsInv, RevisionsUnique
<1> QED  BY <1>1, <1>3, <1>4 DEF DeliveryInv

LEMMA NextDelivery == DeliveryInv /\ [Next]_vars => DeliveryInv'
<1> SUFFICES ASSUME DeliveryInv, [Next]_vars PROVE DeliveryInv'
  OBVIOUS
<1>1. ASSUME NEW c \in Call, Core(c) PROVE DeliveryInv'
  BY <1>1, ReadRevisionsKeeps, InsertRevisionKeeps, PrepareDeliveryKeeps,
     PrepareAttestationKeeps, RecordKeeps, ToldKeeps DEF Core
<1>2. ASSUME NEW c \in Call, Adapter(c) PROVE DeliveryInv'
  BY <1>2, AdapterRecords
<1>3. CASE UNCHANGED vars
  <2>1. RecordTypes'
    BY <1>3 DEF vars, DeliveryInv, RecordTypes
  <2>2. WorkspaceInv'
    BY <1>3 DEF vars, DeliveryInv, WorkspaceInv
  <2>3. RecordsInv'
    BY <1>3 DEF vars, DeliveryInv, RecordsInv, RevisionsUnique, Recorded, Asked, Inserting
  <2> QED  BY <2>1, <2>2, <2>3 DEF DeliveryInv
<1> QED  BY <1>1, <1>2, <1>3 DEF Next

LEMMA DeliverySafe == Spec => []DeliveryInv
BY InitDelivery, NextDelivery, PTL DEF Spec

-----------------------------------------------------------------------------
(* The results                                                             *)

(* Every variable keeps its type, the tables of every dataset included     *)
(* (publish.ts and publisher.py).                                          *)
THEOREM DeliveryTypeCorrect == Spec => []DeliveryTypeOK
<1>1. DeliveryInv => DeliveryTypeOK
  <2> SUFFICES ASSUME DeliveryInv PROVE DeliveryTypeOK
    OBVIOUS
  <2>1. \A i \in DOMAIN datasets : datasets[i] \in DatasetType
    BY DEF DeliveryInv, WorkspaceInv
  <2>2. \A i \in DOMAIN datasets : datasets[i] # Absent => datasets[i].table \in [Table -> TableState]
    BY <2>1, PresentTyped
  <2>3. ASSUME NEW c \in Call
        PROVE  /\ call[c].pc \in Phase /\ call[c].mode \in Mode
               /\ call[c].content \in Content \cup {None}
               /\ call[c].at \in Table /\ call[c].batch \in Batch
               /\ call[c].tries \in 0 .. MaxRetries
    BY OneCall DEF CallType
  <2> QED  BY <2>2, <2>3 DEF DeliveryTypeOK, DeliveryInv, RecordTypes
<1> QED  BY <1>1, DeliverySafe, PTL

(* Two calls that race for a revision do not give one content two: the     *)
(* primary key turns the second insert down (publish.ts).                  *)
THEOREM OneRevisionEach == Spec => []RevisionsUnique
<1>1. DeliveryInv => RevisionsUnique
  BY DEF DeliveryInv, RecordsInv
<1> QED  BY <1>1, DeliverySafe, PTL

(* What an attestation names was delivered and recorded, whatever is       *)
(* recorded while the attest job is awaited (publish.ts).                  *)
THEOREM AttestationsHold == Spec => []AttestedWasDelivered
<1>1. DeliveryInv => AttestedWasDelivered
  BY DEF DeliveryInv, RecordsInv, Recorded, AttestedWasDelivered
<1> QED  BY <1>1, DeliverySafe, PTL

(* A table with a call's columns and rows, written as one record.          *)
LEMMA AllInComplete ==
    ASSUME DeliveryInv, NEW c \in Call, AllIn(c, call[c], datasets)
    PROVE  Complete(c)
<1>1. datasets[call[c].ds].table \in [Table -> TableState]
  BY ThereTyped DEF DeliveryInv, WorkspaceInv, AllIn
<1> QED  BY <1>1 DEF AllIn, Fits, HasRows, Complete, TableState

(* A delivery that succeeds alone leaves every table with its columns and  *)
(* exactly its rows, whatever was there before (_restore, _replace_rows).  *)
THEOREM DeliveriesConverge == Spec => []RedeliveryConverges
<1>1. DeliveryInv => RedeliveryConverges
  <2> SUFFICES ASSUME DeliveryInv, NEW c \in Deliver, call[c].pc = "succeeded", Undisturbed(c)
               PROVE  Complete(c)
    BY DEF RedeliveryConverges
  <2>1. c \in Call
    BY DEF Call
  <2>2. Progress(c, call[c], datasets)
    BY <2>1, OneCall DEF Good, Undisturbed
  <2> QED  BY <2>1, <2>2, AllInComplete DEF Progress
<1> QED  BY <1>1, DeliverySafe, PTL

(* A first delivery that fails quietly leaves the model absent or complete *)
(* (_create).                                                              *)
THEOREM FirstModelWhole == Spec => []NoPartialFirstModel
<1>1. DeliveryInv => NoPartialFirstModel
  <2> SUFFICES ASSUME DeliveryInv, NEW c \in Deliver, call[c].pc = "failed",
                      call[c].mode = "fill", ~call[c].loud, ~call[c].broken, Undisturbed(c),
                      datasets[call[c].ds] # Absent
               PROVE  Complete(c)
    BY DEF NoPartialFirstModel
  <2>1. c \in Call
    BY DEF Call
  <2>2. Left(c, call[c], datasets)
    BY <2>1, OneCall DEF Good, Undisturbed, Progress
  <2> QED  BY <2>1, <2>2, AllInComplete DEF Left
<1> QED  BY <1>1, DeliverySafe, PTL

(* A row replacement that fails quietly has lost the rows of one table at  *)
(* most (_restore).                                                        *)
THEOREM LossIsConfined == Spec => []LossConfined
<1>1. DeliveryInv => LossConfined
  <2> SUFFICES ASSUME DeliveryInv, NEW c \in Deliver, call[c].pc = "failed",
                      call[c].hurt > 0, ~call[c].loud, ~call[c].broken, Undisturbed(c),
                      \A t \in Table : call[c].prev # None =>
                          call[c].before[call[c].ds].table[t].rows = Full(call[c].prev),
                      NEW t \in Table \ {call[c].hurt}
               PROVE  datasets[call[c].ds].table[t].rows
                        = call[c].before[call[c].ds].table[t].rows
    BY DEF LossConfined
  <2>1. c \in Call
    BY DEF Call
  <2>2. Left(c, call[c], datasets)
    BY <2>1, OneCall DEF Good, Undisturbed, Progress
  <2> QED  BY <2>2 DEF Left, Kept, HasRows
<1> QED  BY <1>1, DeliverySafe, PTL
=============================================================================
