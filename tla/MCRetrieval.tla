----------------------------- MODULE MCRetrieval -----------------------------
\* Retrieval for TLC: every short text for the loop that cuts, texts of one to three
\* pieces for the processes.
EXTENDS Retrieval, TLC

TextsOver(lengths, kinds) ==
  UNION {{[length |-> n, kind |-> k] : k \in [0..(n - 1) -> kinds]} : n \in lengths}

\* breaks at 3 and 7, blanks around a boundary
Page == [length |-> 9, kind |-> [p \in 0..8 |->
           CASE p = 3 -> "stop" [] p = 7 -> "newline" [] p = 4 -> "space" [] OTHER -> "char"]]

\* two pieces
Note == [length |-> 6, kind |-> [p \in 0..5 |-> IF p \in {1, 3} THEN "space" ELSE "char"]]

\* one piece
Line == [length |-> 4, kind |-> [p \in 0..3 |-> IF p = 1 THEN "space" ELSE "char"]]

MCTexts == TextsOver(0..6, Kinds) \cup TextsOver({8, 9}, {"char", "newline"}) \cup {Page}

\* nothing but the loop
OnlyCut == [processes |-> {}, sized |-> FALSE, rebuild |-> FALSE, based |-> TRUE, faults |-> 0,
            searching |-> FALSE]
\* processes that start together and know the document
Starts == {[processes |-> Processes, sized |-> s, rebuild |-> r, based |-> TRUE, faults |-> 2,
            searching |-> FALSE] : s, r \in BOOLEAN}
\* its knowledge base is created while another process starts
Creations == {[s EXCEPT !.based = FALSE, !.faults = 1] : s \in Starts}

\* a search: with one process and its restarts; with another one that rebuilds, or that
\* does not know the knowledge base
Searches == {[OnlyCut EXCEPT !.processes = {CHOOSE p \in Processes : TRUE},
                       !.rebuild = TRUE, !.faults = 2, !.searching = TRUE]}
Neighbours == {[OnlyCut EXCEPT !.processes = Processes, !.sized = TRUE, !.rebuild = b, !.based = b,
                               !.searching = TRUE] : b \in BOOLEAN}

With(e, t) == e @@ [text |-> t]

MCScenarios == {With(OnlyCut, t) : t \in MCTexts} \cup {With(e, Page) : e \in Starts}
                 \cup {With(e, Note) : e \in Creations \cup Searches}
                 \cup {With(e, IF e.based THEN Line ELSE Note) : e \in Neighbours}
=============================================================================
