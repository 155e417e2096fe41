------------------------- MODULE MCEvidenceLifecycle -------------------------
(* Posts 4 and 5 of one account match; 6 is the item of a feed document, 8 a   *)
(* repository with metrics.                                                    *)
EXTENDS EvidenceLifecycle, TLC

CONSTANTS bluesky, rss, github, account, publisher, owner

MCItemsOf == (bluesky :> {4, 5}) @@ (rss :> {6}) @@ (github :> {8})
MCSourceOf == [i \in Item |-> IF i <= 5 THEN account ELSE IF i = 6 THEN publisher ELSE owner]
=============================================================================
