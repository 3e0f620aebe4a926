--------------------------- MODULE MCRunpodRelease ---------------------------
(* Values for checking RunpodRelease with TLC: a load-balancing and a queue  *)
(* model, or one of them.                                                    *)
EXTENDS RunpodRelease

CONSTANTS lb, queue, e1, e2, op, cron, img1, img2, disk1, disk2, wire1, wire2

BothModels == {lb, queue}
OnlyLb     == {lb}
OnlyQueue  == {queue}
NoModels   == {}
TwoIds     == {e1, e2}
OneOp      == {op}
TwoOps     == {op, cron}
TwoImages  == {img1, img2}
OneDisk    == {disk1}
TwoDisks   == {disk1, disk2}
OneWiring  == {wire1}
TwoWirings == {wire1, wire2}
NoVolumes  == {FALSE}
AnyVolumes == BOOLEAN
=============================================================================
