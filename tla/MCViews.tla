------------------------------ MODULE MCViews -------------------------------
(* Two of everything a page can be of.  The tree of the logs page is a     *)
(* workspace with a service whose storage has a folder, an environment and *)
(* a service on their own.                                                 *)
EXTENDS MainViews, TLC

CONSTANTS a, b, b2, p, q, c1, n1, n2

MCKind   == [w |-> "workspace", s |-> "service", d |-> "serviceDir", e |-> "env"]
MCNodes  == DOMAIN MCKind
MCParent == [w |-> Root, s |-> "w", d |-> "s", e |-> Root]
Row(at, kind, scope, group, name) ==
  [at |-> at, kind |-> kind, scope |-> scope, group |-> group, name |-> name]
MCRows   == {Row(Root, "service", "svc:db", "standalone", "db"),
             Row("d", "object", "bucket", "obj", "d/a.log")}
MCLimits == [grid |-> 1, tabs |-> 2, merged |-> 2]

MCImported == [kind |-> "workspace", name |-> a]
MCEntities == {MCImported, [kind |-> "service", name |-> b]}

(* b2 is a service of another workspace that has the name of b. *)
MCNameOf == (a :> a) @@ (b :> b) @@ (b2 :> b)

MCWorkloads == (n1 :> {[kind |-> "deployment", name |-> a], [kind |-> "statefulset", name |-> a]})
            @@ (n2 :> {[kind |-> "deployment", name |-> b]})
=============================================================================
