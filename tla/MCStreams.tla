------------------------------ MODULE MCStreams ------------------------------
(***************************************************************************)
(* Three trades of a known instrument, one of an instrument that comes and *)
(* goes, and bars of one and of two seconds; a live session follows the    *)
(* first instrument's bars of one second.  The persistence worker shares   *)
(* the stream with the others and nothing else, so it runs alone.          *)
(***************************************************************************)
EXTENDS BarFeed, TLC

CONSTANTS A, B, a0, a1, a2, b0, live

MCTrades == {a0, a1, a2, b0}
MCSymbol == a0 :> A @@ a1 :> A @@ a2 :> A @@ b0 :> B
MCSecond == a0 :> 0 @@ a1 :> 1 @@ a2 :> 2 @@ b0 :> 0
MCResolutions == <<"fine", "coarse">>
MCWidth == [fine |-> 1, coarse |-> 2]
MCFollows == live :> {A}
MCAt == live :> "fine"

Live == {"builder", "runner"}
MCFeed == {"worker"} :> {a0, a1, b0} @@ {"builder"} :> MCTrades @@ Live :> {a0, a1, a2}
MCDeployments == DOMAIN MCFeed

\* Only the live side.
LiveDeployments == {Live}
LiveFeed == Live :> {a0, a1, a2}

=============================================================================
