---------------------------- MODULE MCKlinePipeline ----------------------------
(* Values of the constants for the runs of KlinePipeline. *)
EXTENDS KlinePipeline

MCFourBars == {1, 3, 5, 7}
MCBars == {1, 3, 5}
MCTwoBars == {0, 2}
MCRejectedBars == {3}
MCNone == {}
MCModes == {"write", "dry"}
MCWrite == {"write"}
MCStarts == {0}
MCLateStarts == {0, 4}
MCEnds == {}
MCMiddleEnd == {5}
MCRanges == {<<0, 3>>}
MCAll == {"hist", "rt", "rec", "rsy"}
MCHistRec == {"hist", "rec"}
MCHistRt == {"hist", "rt", "rec"}
=============================================================================
