--------------------------- MODULE MCWorkflowDSL ---------------------------
(***************************************************************************)
(* Definitions for TLC: graphs of well-formed steps with up to two         *)
(* dependencies each (of three steps all of them, self-dependencies and    *)
(* repetitions included; of four steps those with distinct dependencies on *)
(* others), and all documents of up to two steps that may lack names or    *)
(* types, share a name, or depend on a step that does not exist.           *)
(***************************************************************************)
EXTENDS WorkflowDSL

\* The sequences over S of at most n elements.
UpTo(S, n) == UNION {[1 .. k -> S] : k \in 0 .. n}
Distinct(seqs) == {q \in seqs : \A i, j \in DOMAIN q : q[i] = q[j] => i = j}

Graph(edges) ==
  [titled |-> TRUE,
   steps |-> [i \in DOMAIN edges |->
                [name |-> i, typed |-> TRUE, depends_on |-> edges[i], max_attempts |-> 1]]]

ThreeSteps == {Graph(edges) : edges \in [1 .. 3 -> UpTo(1 .. 3, 2)]}

FourSteps ==
  LET Others(i) == Distinct(UpTo((1 .. 4) \ {i}, 2))
  IN  {Graph(<<a, b, c, d>>) : a \in Others(1), b \in Others(2), c \in Others(3), d \in Others(4)}

Documents ==
  [titled : BOOLEAN,
   steps : UpTo([name : {0, 1, 2}, typed : BOOLEAN, depends_on : UpTo(1 .. 3, 1), max_attempts : {-1, 0, 2}], 2)]

Submitted == ThreeSteps \cup FourSteps \cup Documents
=============================================================================
