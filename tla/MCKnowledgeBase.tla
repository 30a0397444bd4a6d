-------------------------- MODULE MCKnowledgeBase --------------------------
(* An instance of KnowledgeBase for TLC: a table, a view over it or over a *)
(* relation that is not captured, a view over that view, and a metric of a *)
(* second system.                                                          *)
EXTENDS KnowledgeBase

Col(type, nullable, ordinal) ==
    [type |-> type, nullable |-> nullable, default |-> "none", ordinal |-> ordinal]
Key1 == [fk |-> <<"s", "t">>]
Table(columns, keys, checks, description) ==
    [kind |-> "table", columns |-> columns, keys |-> keys,
     stats |-> [checks |-> checks], description |-> description]
View(columns, definition) ==
    [kind |-> "view", columns |-> columns, keys |-> <<>>,
     stats |-> [definition |-> definition], description |-> "d"]
Select(ref, outputs, text, parses) ==
    [parses |-> parses, reads |-> {ref}, feeds |-> {ref}, outputs |-> outputs,
     exhibits |-> {"filter"}, text |-> text]

A == Col("int", TRUE, 1)
B == Col("int", TRUE, 2)
T == <<"s", "t">>
V == <<"s", "v">>
E == <<"x", "e">>
FromT(text, parses) == View([a |-> A], Select(T, [a |-> {<<T, "a">>}], text, parses))
FromB == View([a |-> A], Select(T, [a |-> {<<T, "b">>}], "1", TRUE))
FromE == View([a |-> A], Select(E, [a |-> {<<E, "z">>}], "1", TRUE))
Count == View([n |-> A], Select(V, [n |-> {}], "1", TRUE))
Metric(formula) ==
    [kind |-> "api_metric", columns |-> <<>>, keys |-> <<>>,
     stats |-> [formula |-> formula], description |-> "d"]

t0 == Table([a |-> A, b |-> B], Key1, "c", "d")
FT == <<"pg", "s", "t">>
FV == <<"pg", "s", "v">>
FW == <<"pg", "s", "w">>
FM == <<"ga", "g", "m">>
MCReport == <<"bi", "report", "r">>

MCBacking == {FW}

MCSystem == {"pg", "ga"}
MCClass == [pg |-> "sql", ga |-> "api"]
MCShape ==
    [f \in {FT, FV, FW, FM} |->
        CASE f = FT -> {t0, Table([a |-> A], <<>>, "c", "e"),
                        Table([a |-> A, b |-> [B EXCEPT !.default = "0"]], Key1, "c", "d")}
          [] f = FV -> {FromT("1", TRUE), FromT("2", TRUE), FromT("3", FALSE), FromB, FromE}
          [] f = FW -> {Count}
          [] f = FM -> {Metric("1")}]
MCFirst ==
    [f \in {FT, FV, FW, FM} |->
        CASE f = FT -> t0 [] f = FV -> FromT("1", TRUE) [] f = FW -> Count [] f = FM -> Metric("1")]

Entry(f, external) == [object |-> f, external |-> external]
MCDoc == {"entity", "w", "metrics", "report"}
MCPaper ==
    [entity  |-> [system |-> "none", beside |-> <<"none", <<"none">>>>, status |-> "verified",
                  declared |-> {Entry(FV, FALSE), Entry(FT, TRUE)}],
     w       |-> [system |-> "pg", beside |-> ObjectPath(FW), status |-> "verified", declared |-> {}],
     metrics |-> [system |-> "ga", beside |-> GroupPath("ga", "api_metric"), status |-> "verified",
                  declared |-> {Entry(FT, FALSE)}],
     report  |-> [system |-> "none", beside |-> <<"none", <<"none">>>>, status |-> "verified",
                  declared |-> {Entry(MCReport, FALSE)}]]

\* Captures of different systems touch nothing in common: one at a time is enough.
OneCapture == Cardinality({s \in System : reading[s] # None}) <= 1
=============================================================================
