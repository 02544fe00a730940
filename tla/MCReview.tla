------------------------------- MODULE MCReview -------------------------------
(* Small instances of the season file and the review wake.                  *)
EXTENDS Review

\* A reply with a refused item, a repeat and one item over the cap.
MCReplies == {<<1, 0, 1, 2, 3>>}

\* The review as a writer of the season file only.
MCSilent == {<<>>}

===============================================================================
