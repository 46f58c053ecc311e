------------------------- MODULE MCBufferedScrobbler -------------------------
(* An instance of BufferedScrobbler: a user with a buffered and a new     *)
(* play, and one whose service asks to retry for ever.                    *)
EXTENDS BufferedScrobbler, TLC

CONSTANTS alice, bob, p1, p2, p3, l1, l2

Owners == p1 :> alice @@ p2 :> alice @@ p3 :> bob
Times == p1 :> 1 @@ p2 :> 2 @@ p3 :> 1
=============================================================================
