----------------------------- MODULE StatusWords -----------------------------
(***************************************************************************)
(* What a finding's State and Status mean (internal/status/status.go): the *)
(* one place a Status word is read.  Pure: nothing here has state.         *)
(*                                                                         *)
(* A record's data is its State and Status fields in order, the others     *)
(* left out, each with its value trimmed and whether its key is spelled    *)
(* exactly so.  A project's list is its Status word fields in order, each  *)
(* as what stands before the "::".                                         *)
(***************************************************************************)
EXTENDS Naturals, Sequences

Empty == ""

States == {"open", "done", "dropped"}

Unreviewed == "unreviewed"
Superseded == "superseded"

Keys == {"Status", "State"}

Exactly(key, value) == [key |-> key, exact |-> TRUE, value |-> value]

Least(S) == CHOOSE i \in S : \A j \in S : i <= j

----------------------------------------------------------------------------
(* The words a project declares.                                            *)

\* ParseWord: anything else declares nothing.
Parses(entry) == entry.word # Empty /\ entry.state \in States

Declaring(list, word) == {i \in DOMAIN list : Parses(list[i]) /\ list[i].word = word}

\* Of: word -> the State it maps to; a word declared twice is what it was first.
WordsOf(list) ==
  [word \in {list[i].word : i \in {j \in DOMAIN list : Parses(list[j])}} |->
     list[Least(Declaring(list, word))].state]

\* Index: prefix -> words.
IndexOf(lists) == [p \in DOMAIN lists |-> WordsOf(lists[p])]

SomeDeclared(index) == \E p \in DOMAIN index : DOMAIN index[p] # {}

----------------------------------------------------------------------------
(* The fields of a finding.                                                 *)

At(data, key) == {i \in DOMAIN data : data[i].key = key /\ data[i].exact}

\* Record.Get, as StateOf and WordOf ask it.
Get(data, key) == IF At(data, key) = {} THEN Empty ELSE data[Least(At(data, key))].value

StateOf(data) == Get(data, "State")
WordOf(data) == Get(data, "Status")

Put(data, key, value) ==
  IF At(data, key) = {}
    THEN Append(data, Exactly(key, value))
    ELSE [data EXCEPT ![Least(At(data, key))] = Exactly(key, value)]

Set(data, state, word) == Put(Put(data, "Status", word), "State", state)

\* Fill: a word alone brings the State it means.
Fill(words, data) ==
  IF StateOf(data) = Empty /\ WordOf(data) \in DOMAIN words
    THEN Put(data, "State", words[WordOf(data)])
    ELSE data

----------------------------------------------------------------------------
(* Finding: what may be written, and what the gate passes.                  *)

\* keys: each spelled exactly, and given once.
KeysSound(data) ==
  /\ \A i \in DOMAIN data : data[i].exact
  /\ \A i, j \in DOMAIN data : data[i].key = data[j].key => i = j

\* A project that declares no word is asked only what can be known without one.
WordSound(words, data) ==
  IF DOMAIN words = {}
    THEN StateOf(data) \in States \cup {Empty}
    ELSE WordOf(data) \in DOMAIN words /\ StateOf(data) = words[WordOf(data)]

\* Nothing is checked in a store where no project declares a word.
Accepts(index, p, data) ==
  SomeDeclared(index) => KeysSound(data) /\ WordSound(index[p], data)

----------------------------------------------------------------------------
(* refuseFinding (cmd/mustur/main.go): what add and amend make of a finding *)
(* before they ask Finding of it.  `passed` are the fields on the command   *)
(* line, `data` the record as it will stand.                                *)

Given(passed, key) == \E i \in DOMAIN passed : passed[i].key = key

\* A word passed without a State brings its own, whatever the record had.
Tidied(words, passed, data) ==
  Fill(words,
       IF Given(passed, "Status") /\ ~Given(passed, "State") /\ WordOf(data) \in DOMAIN words
         THEN Set(data, words[WordOf(data)], WordOf(data))
         ELSE data)
=============================================================================
