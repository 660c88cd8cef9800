---------------------------- MODULE MCCommentGuard ----------------------------
(* Two guards at a time, a log of at most two entries that its bytes are    *)
(* enough for, a clean project and two with findings; four decisions fill *)
(* the log twice.                                                           *)
EXTENDS CommentGuard
CONSTANTS g1, g2
MCGuard == {g1, g2}
Plain == [empty |-> FALSE, marker |-> Absent, credential |-> FALSE, similar |-> FALSE]
MCTree ==
  LET file(line) == [skipped |-> FALSE, lines |-> {Plain, line}] IN
  { {file(Plain)},
    {file(Plain), file([Plain EXCEPT !.marker = "TODO", !.credential = TRUE])},
    {file(Plain), file([Plain EXCEPT !.credential = TRUE])} }
MCEntrySize == [pass |-> 1, warning |-> 2, blocking |-> 2, parse_failure |-> 1]
=============================================================================
