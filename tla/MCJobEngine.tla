---------------------------- MODULE MCJobEngine ----------------------------
(* One job of every type for every connector that serves it; the queries   *)
(* come with no cap, a small one and one beyond the ceiling.               *)
EXTENDS JobEngine

Job(type, conn, ask, stmt) == [type |-> type, conn |-> conn, ask |-> ask, stmt |-> stmt]

MCJobKinds ==
    {Job("snapshot", c, 0, "none") : c \in {"postgres", "ddl", "ga4", "gsc"}}
    \cup {Job("test_connection", c, 0, "none") : c \in {"postgres", "ddl", "ga4", "gsc", "powerbi"}}
    \cup {Job("publish", "powerbi", 0, "none")}
    \cup {Job("execute", "postgres", n, s) : n \in {0, 1, 9}, s \in {"select", "write", "sneaky"}}
    \cup {Job("execute", c, n, "none") : n \in {0, 1, 9}, c \in {"ga4", "gsc"}}

QueryKinds == {Job("execute", c, 9, "none") : c \in {"ga4", "gsc"}}
=============================================================================
