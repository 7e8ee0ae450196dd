--------------------------- MODULE MCImageSearch ---------------------------
(* An instance of ImageSearch for TLC. *)
EXTENDS ImageSearch, TLC

CONSTANTS w1, w2, c1

TwoWorkers == {w1, w2}
OneCaller == {c1}
ThreePosts == 1..3

\* The source changes between two requests for a page (two posts or one of
\* them), repeats posts, in one page too, and its cursors may run in a circle
\* (1, 3, 1).
ChangingSource ==
    [c \in ThreePosts \cup {NoCursor} |->
        CASE c = NoCursor -> {<<3, 2>>, <<3>>}
          [] c = 3 -> {<<2, 1>>, <<3, 2>>}
          [] c = 2 -> {<<1, 1>>, <<>>}
          [] c = 1 -> {<<>>, <<2, 3>>}]
=============================================================================
