-------------------------- MODULE ResourceImporter --------------------------
(***************************************************************************)
(* The dialog that connects a target to a cluster (web/src,                *)
(* ResourceImporter.tsx): a cluster, one of its namespaces and workloads   *)
(* of it are chosen, each list being asked for when it is needed.  Closing *)
(* the dialog does not stop a Connect that is under way.                   *)
(***************************************************************************)
EXTENDS Integers, Sequences, FiniteSets, SequencesExt

CONSTANTS
  Clusters,
  Workloads,      \* [namespace -> its workloads, [kind, name]]
  Nowhere,        \* no target, cluster or namespace
  MaxQuestions    \* bound: lists and connections that are asked for at once

VARIABLES
  importing,      \* resourceConnectTarget: the target the dialog is open for
  cluster, namespace,
  namespaces,     \* the cluster's namespaces are listed
  workloads,      \* the namespace whose workloads are listed
  chosen,
  awaiting,        \* what the dialog says it is waiting for
  questions       \* under way, [for, cluster, namespace, chosen, names]

importerVars == <<importing, cluster, namespace, namespaces, workloads, chosen, awaiting, questions>>
choices      == <<importing, cluster, namespace, namespaces, workloads, chosen>>
Namespaces   == DOMAIN Workloads

(* What filter leaves of a sequence: those that are not gone, in order.    *)
(* The k-th of them is the one that has k of them up to it.                *)
LeaveOut(seq, gone) ==
  LET kept   == {i \in DOMAIN seq : seq[i] \notin gone}
      Nth(k) == CHOOSE i \in kept : Cardinality({j \in kept : j <= i}) = k
  IN  [k \in 1..Cardinality(kept) |-> seq[Nth(k)]]

Question(for, c, ns, known) ==
  [for |-> for, cluster |-> c, namespace |-> ns, chosen |-> chosen, names |-> known, at |-> importing]
Connections == LeaveOut(questions, {q \in ToSet(questions) : q.for # "connecting"})

ImporterClosed ==
  /\ importing = Nowhere /\ cluster = Nowhere /\ namespace = Nowhere /\ namespaces = FALSE
  /\ workloads = Nowhere /\ chosen = {} /\ awaiting = "" /\ questions = <<>>

(* It opens with nothing chosen; a connection of before is still made.     *)
ShowImporter(target, asks) ==
  /\ importing' = target /\ cluster' = Nowhere /\ namespace' = Nowhere /\ namespaces' = FALSE
  /\ workloads' = Nowhere /\ chosen' = {} /\ awaiting' = "" /\ questions' = asks

ask(for, c, ns, known) ==
  /\ Len(questions) < MaxQuestions
  /\ questions' = Append(questions, Question(for, c, ns, known)) /\ awaiting' = for

handleResourceChange(c) ==
  /\ importing # Nowhere /\ c # cluster
  /\ cluster' = c /\ namespace' = Nowhere /\ namespaces' = FALSE /\ workloads' = Nowhere
  /\ chosen' = {} /\ ask("namespaces", c, Nowhere, {}) /\ UNCHANGED importing
handleNamespaceChange(ns) ==
  /\ importing # Nowhere /\ cluster # Nowhere /\ awaiting # "namespaces"
  /\ namespaces /\ ns # namespace
  /\ namespace' = ns /\ workloads' = Nowhere /\ chosen' = {}
  /\ ask("workloads", cluster, ns, {}) /\ UNCHANGED <<importing, cluster, namespaces>>

(* The list is there when its answer is, whichever namespace that was for. *)
Listed == IF namespace = Nowhere \/ workloads = Nowhere \/ awaiting = "workloads" THEN {}
          ELSE Workloads[workloads]
toggleWorkload(w) ==
  /\ w \in Listed
  /\ chosen' = IF w \in chosen THEN chosen \ {w} ELSE chosen \cup {w}
  /\ UNCHANGED <<importing, cluster, namespace, namespaces, workloads, awaiting, questions>>
SelectAll ==
  /\ Listed # {}
  /\ chosen' = IF Cardinality(chosen) = Cardinality(Listed) THEN {} ELSE Listed
  /\ UNCHANGED <<importing, cluster, namespace, namespaces, workloads, awaiting, questions>>

handleConnect(known) ==
  /\ chosen # {} /\ awaiting # "connecting"
  /\ ask("connecting", cluster, namespace, known) /\ UNCHANGED choices

(* An answer clears the spinner, whatever it stands for by then.           *)
Answered(i) == questions' = RemoveAt(questions, i) /\ awaiting' = ""
AnswerList(i, ok) ==
  /\ questions[i].for # "connecting" /\ Answered(i)
  /\ IF questions[i].for = "namespaces"
     THEN namespaces' = (namespaces \/ ok) /\ UNCHANGED workloads
     ELSE workloads' = (IF ok THEN questions[i].namespace ELSE workloads) /\ UNCHANGED namespaces
  /\ UNCHANGED <<importing, cluster, namespace, chosen>>
AnswerConnectFails(i) == questions[i].for = "connecting" /\ Answered(i) /\ UNCHANGED choices

(* What the builder is given: the workloads no service is named after.     *)
NewServices(q) == {w \in q.chosen : w.name \notin q.names}

ImporterStep(known) ==
  \/ \E c \in Clusters : handleResourceChange(c)
  \/ \E ns \in Namespaces : handleNamespaceChange(ns)
  \/ \E w \in Listed : toggleWorkload(w)
  \/ SelectAll
  \/ handleConnect(known)
  \/ \E i \in 1..Len(questions), ok \in BOOLEAN : AnswerList(i, ok)
  \/ \E i \in 1..Len(questions) : AnswerConnectFails(i)
=============================================================================
