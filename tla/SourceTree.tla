----------------------------- MODULE SourceTree -----------------------------
(***************************************************************************)
(* The tree of log sources of the logs page (web/src, LogsPage.tsx): three *)
(* loads fill its top, and the nodes below fetch what they hold when they  *)
(* are opened.  A node that is opened twice before it is answered asks     *)
(* twice.                                                                  *)
(***************************************************************************)
EXTENDS Integers, FiniteSets

CONSTANTS
  Nodes,          \* of the tree; each
  Kind,           \* is a "workspace", "group", "service", "serviceDir", "env", "resource" or "dir"
  Parent,         \* and is in another node, or in Root
  Root,
  MaxAsked        \* bound on the requests under way

VARIABLES
  tops,           \* the three loads: "asked", "some", "empty" or "failed"
  expanded,       \* nodes that are open
  loading,        \* nodes with a spinner
  children,       \* of the nodes that fetch: "none" yet, "some" or "empty"
  asked           \* requests under way for each node

treeVars == <<tops, expanded, loading, children, asked>>

Loads   == {"workspaces", "standalone", "resources"}
LoadOf(n) == CASE Kind[n] \in {"workspace", "group", "service", "serviceDir"} -> "workspaces"
               [] Kind[n] = "env"                                            -> "standalone"
               [] OTHER                                                      -> "resources"

(* What is in a node came with the load that brought the node. *)
ASSUME TreeAssumption ==
  /\ Root \notin Nodes
  /\ \A n \in Nodes : Parent[n] \in Nodes => LoadOf(Parent[n]) = LoadOf(n)

Eager   == {n \in Nodes : Kind[n] \in {"workspace", "group"}}    \* their children came with them
Lazy    == Nodes \ Eager

TreeInit ==
  /\ tops = [l \in Loads |-> "asked"]
  /\ expanded = {} /\ loading = {}
  /\ children = [n \in Lazy |-> "none"] /\ asked = [n \in Lazy |-> 0]

(* The nodes a node is in: those in every set that has its parent and, with  *)
(* a node, that node's parent.                                               *)
Above ==
  LET Closed == {ns \in SUBSET Nodes : \A m \in ns : Parent[m] \in ns \cup {Root}}
  IN  [n \in Nodes |->
         {m \in Nodes : Parent[n] # Root /\ \A ns \in Closed : Parent[n] \in ns => m \in ns}]
Below(ns) == {m \in Nodes : Above[m] \cap ns # {}}

(* A node is rendered when every node above it is open and holds something. *)
Full     == Eager \cup {n \in Lazy : children[n] = "some"}
Shown(n) == tops[LoadOf(n)] = "some" /\ Above[n] \subseteq expanded \cap Full

(* loadTree opens the first workspace; its failure leaves an empty tree. *)
Load(l, got) ==
  /\ tops[l] = "asked" /\ got \in {"some", "empty", "failed"}
  /\ tops' = [tops EXCEPT ![l] = got]
  /\ expanded' = expanded \cup {n \in Nodes : l = "workspaces" /\ got = "some" /\ Kind[n] = "workspace"}
  /\ UNCHANGED <<loading, children, asked>>

(* An environment remembers that it holds nothing, the others ask again. *)
Known == Full \cup {n \in Lazy : Kind[n] = "env" /\ children[n] # "none"}

Toggle(n) ==
  /\ Shown(n)
  /\ \/ /\ n \in expanded /\ expanded' = expanded \ {n}
        /\ UNCHANGED <<loading, children, asked>>
     \/ /\ n \in Known \ expanded /\ expanded' = expanded \cup {n}
        /\ UNCHANGED <<loading, children, asked>>
     \/ /\ n \notin expanded \cup Known
        /\ \A a \in {m \in Lazy : asked[m] > 0} \ {n} : asked[a] + asked[n] < MaxAsked
        /\ asked[n] < MaxAsked
        /\ expanded' = expanded \cup {n} /\ loading' = loading \cup {n}
        /\ asked' = [asked EXCEPT ![n] = @ + 1]
        /\ UNCHANGED children
  /\ UNCHANGED tops

(* What an answer leaves open: the nodes it brings are new, and a service  *)
(* is opened again, whatever the user did since.                           *)
LeftOpenAlways(n, kept) == (expanded \cup {n}) \ Below({n})    \* mutant: every node is opened
LeftOpen(n, kept) ==
  LET open == expanded \cup (IF Kind[n] = "service" THEN {n} ELSE {})
  IN  IF kept THEN open ELSE open \ Below({n})

(* A failure leaves what the node holds, but empties a service or an       *)
(* environment; a node that is gone takes no answer.                       *)
Spun(n) == loading                       \* mutant: a failure leaves the spinner
Settled(n) == loading \ {n}
Answer(n, got) ==
  /\ asked[n] > 0 /\ asked' = [asked EXCEPT ![n] = @ - 1]
  /\ LET gone == \E m \in Above[n] \cap Lazy : children[m] # "some"
         kept == got = "failed" /\ Kind[n] \notin {"service", "env"}
     IN  IF gone THEN UNCHANGED <<expanded, loading, children>>
         ELSE /\ expanded' = LeftOpen(n, kept)
              /\ loading'  = Settled(n) \ (IF kept THEN {} ELSE Below({n}))
              /\ children' = IF kept THEN children
                             ELSE [m \in Lazy |-> IF m = n THEN IF got = "some" THEN got ELSE "empty"
                                                  ELSE IF m \in Below({n}) THEN "none" ELSE children[m]]
  /\ UNCHANGED tops

TreeNext ==
  \/ \E l \in Loads, got \in {"some", "empty", "failed"} : Load(l, got)
  \/ \E n \in Nodes : Toggle(n)
  \/ \E n \in Lazy, got \in {"some", "empty", "failed"} : Answer(n, got)

-----------------------------------------------------------------------------
(* A spinner turns only while a request for its node is under way, however *)
(* often it was opened, closed and asked for (LogsPage.tsx:314-567).       *)
SpinnerMeansAsked == \A n \in loading : asked[n] > 0

ClosedKept ==
  (\E n \in Lazy : asked'[n] < asked[n]) =>
    {n \in expanded' : Kind[n] # "service"} \subseteq expanded

(* An answer opens nothing the user has closed since, but for a service's  *)
(* storage (LogsPage.tsx:478).                                             *)
ClosedStaysClosed == [][ClosedKept]_treeVars

(* A failed fetch never looks like "no data" (DESIGN.md:169): the text "No *)
(* sources yet" (LogsPage.tsx:675-677) is not shown for a failed load.     *)
NoSourcesText == tops["workspaces"] # "asked" /\ \A l \in Loads : tops[l] # "some"
FailureIsNotNoData == NoSourcesText => \A l \in Loads : tops[l] # "failed"
=============================================================================
