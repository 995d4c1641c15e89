------------------------------ MODULE MCUpkeep ------------------------------
(***************************************************************************)
(* A rename: the intake box's old prefix X and its new one B, and the      *)
(* decisions D, the shape of the one rename there was.  Findings: two of   *)
(* them, the box's project and another.  An import: a tree of every kind   *)
(* of source, and six that differ from it in what the importer refuses or  *)
(* falls back on.                                                          *)
(***************************************************************************)
EXTENDS Upkeep

CONSTANTS X, B, D, h, n, pic, P, Q, f1, f2

MCRec == Text

MCRoleOf == (X :> "finding") @@ (B :> "finding") @@ (D :> "decision")

\* The two homes of jots, and the findings, are told apart by nothing but what
\* happens.
Symmetry == Permutations({X, B}) \cup Permutations({f1, f2})

----------------------------------------------------------------------------

Means(word, state) == [word |-> word, state |-> state]

\* None; one with a word that does not parse, and one declared twice.
MCLists ==
  {<<>>,
   <<Means("superseded", "dropped"), Means("unreviewed", "closed"), Means("unreviewed", "open"),
     Means("fixed", "done"), Means("fixed", "open")>>}

\* Nothing; a word alone; a word and a State; a State alone; a field given
\* twice; a field spelled otherwise.
MCFlags ==
  {<<>>,
   <<Exactly("Status", "fixed")>>,
   <<Exactly("Status", "fixed"), Exactly("State", "done")>>,
   <<Exactly("State", "open")>>,
   <<Exactly("Status", "fixed"), Exactly("Status", "unreviewed")>>,
   <<[Exactly("Status", "fixed") EXCEPT !.exact = FALSE]>>}

----------------------------------------------------------------------------

M(number) == Token("M", number)

\* M2 is cited in phases alone; M3 is dated nowhere; D1 is defined twice and has
\* a row, D2 a row alone.
Tree ==
  [findings  |-> (1 :> [at |-> 0, section |-> "open", text |-> {M(3), Token("D", 1)}])
                   @@ (2 :> [at |-> 2, section |-> "closed", text |-> {}]),
   entries   |-> <<[at |-> 1, text |-> {M(1)},
                    defs |-> <<[number |-> 1, form |-> 2, text |-> {M(3)}],
                               [number |-> 1, form |-> 1, text |-> {}]>>]>>,
   rows      |-> (1 :> [at |-> 0, text |-> {}]) @@ (2 :> [at |-> 0, text |-> {Token("F", 1)}]),
   questions |-> <<[at |-> 0, answered |-> 0, text |-> {M(1)}], [at |-> 1, answered |-> 1, text |-> {}]>>,
   adrs      |-> 1 :> [at |-> 1, text |-> {M(3)}],
   files     |-> (1 :> [at |-> 1, text |-> {}]) @@ (3 :> [at |-> 0, text |-> {M(1)}]),
   phase1    |-> 4 :> [at |-> 1, text |-> {}],
   phases    |-> (1 :> [rows |-> <<>>, text |-> {M(2)}]) @@ (2 :> [rows |-> <<3, 1>>, text |-> {M(2), M(1)}]),
   done      |-> {1, 3},
   lists     |-> [p \in {"LNK"} |-> <<Means("unreviewed", "open"), Means("fixed", "done")>>]]

\* As it is; M2 cited by a finding, and so stubbed; no list, and a section that
\* is no word; a table with a milestone nobody has; such a section and a list;
\* a milestone with a file and a row; a decision numbered like an entry.
MCTrees ==
  {Tree,
   [Tree EXCEPT !.findings[2].text = {M(2)}],
   [Tree EXCEPT !.lists["LNK"] = <<>>, !.files[3].at = 1, !.findings[1].section = "later"],
   [Tree EXCEPT !.phases[2].rows = <<3, 2>>],
   [Tree EXCEPT !.findings[2].section = "later"],
   [Tree EXCEPT !.phase1 = 3 :> [at |-> 1, text |-> {}]],
   [Tree EXCEPT !.rows = 5 :> [at |-> 0, text |-> {}]]}
=============================================================================
