---------------------------- MODULE MCTextSearch ----------------------------
EXTENDS TextSearch

(* "abc" twice, its prefix, a longer word, other words beside it, capitals,  *)
(* a one-letter word and one without room in a key.                          *)
MCContents == { <<1, 2, 3, 0, 4, 5, 0, 1, 2, 3>>,
                <<0, 1, 2, 3, 4, 0, 4, 6>>,
                <<4, 5, 0, 101, 102, 103, 0, 0, 7, 8>>,
                <<1, 2, 3, 4, 5, 6, 0, 7, 8, 0, 1, 2, 3>> }
MCQueries == { <<1, 2, 3>>, <<1, 2, 3, 0, 104, 5>>, <<7, 8, 0, 4, 5, 0, 1, 2, 3, 0, 9>>, <<1, 2, 3, 4>>, <<7>> }
(* The second filter asks for 3 results, cut to an int, the last one for -3. *)
MCFilters == { NoFilter,
               [since |-> 2, until |-> -1, limit |-> 11, keys |-> 1..3],
               [since |-> -1, until |-> 5, limit |-> 1, keys |-> {1, 3}],
               [since |-> -1, until |-> -1, limit |-> 5, keys |-> 1..3] }
MCNames == { <<1, 2>>, <<101, 2, 3, 4>>, <<2>>, <<1, 2, 3, 5>> }
=============================================================================
