------------------------ MODULE MCRotationSchedule ------------------------
EXTENDS RotationSchedule, TLC

CONSTANTS h1, r1, r2, day, bad, b20, b40, gone, none

Daily == [plan |-> (0 :> b40 @@ 1 :> b20), repeat |-> TRUE]

\* one pass, the second slot on a band without events or plan
Single == [plan |-> (0 :> b20 @@ 1 :> gone), repeat |-> FALSE]

MCConfigs == {Daily, Single}
MCPresetConfig == day :> Daily @@ bad :> none
===========================================================================
