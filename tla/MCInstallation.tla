---------------------------- MODULE MCInstallation ----------------------------
(* Two releases, of which the second ships one profile more and one less,   *)
(* three values a user may give the key, of which two name files of one     *)
(* text and the third a blank file, two edits, a write that fails and a     *)
(* command that dies.                                                       *)
EXTENDS Installation, TLC
CONSTANTS explore, memory, research, u1, u2, u3, prose, blank
MCProfile == {explore, memory, research}
MCShips == <<{explore, memory}, {explore, research}>>
MCUserFile == {u1, u2, u3}
MCTextOf == [v \in MCUserFile \cup {None} |-> IF v \in {u1, u2} THEN prose ELSE blank]

\* The two values of one text are alike.
SameText == Permutations({u1, u2})
=============================================================================
