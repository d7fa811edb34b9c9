---------------------------- MODULE MCDecoders ----------------------------
(***************************************************************************)
(* The decoder modules and what the screen polls, side by side.  They      *)
(* share no variable, so one part moves in a behaviour and the others keep *)
(* their initial state: the state spaces add up and nothing is lost.       *)
(***************************************************************************)
EXTENDS ScanPark, PacketDecoders, KissFraming, IqWindows,
        SpectrumMarkers, PolledFeed

VARIABLE part

radioVars == <<parkVars, pktVars, kissVars, iqVars>>
screenVars == <<markerVars, polledVars>>
decodersVars == <<radioVars, screenVars, part>>

MCBeaconBands == <<"20m", "17m">>
Env(overlap, users, faults) == [overlap |-> overlap, users |-> users, faults |-> faults]
MCParkEnvs ==
    {Env(FALSE, {"beacon", "ft"}, {}), Env(FALSE, {"ft", "cw"}, {}),
     Env(FALSE, {"cw"}, {"raise", "settle"}), Env(FALSE, {"ft"}, {"raise", "settle"}),
     Env(FALSE, {"beacon"}, {"raise"})}
Feeding(overlap, uses, faults) == [overlap |-> overlap, uses |-> uses, faults |-> faults]
MCPktEnvs ==
    {Feeding(FALSE, {"is"}, {"net", "slow"}), Feeding(FALSE, {"is"}, {"net"}),
     Feeding(FALSE, {"kiss"}, {"net", "spawn"}), Feeding(FALSE, {"lora"}, {"net"}),
     Feeding(FALSE, {"ssb"}, {}),
     Feeding(TRUE, {"kiss"}, {"net"}), Feeding(TRUE, {"is"}, {"net", "slow"}),
     Feeding(TRUE, {"lora"}, {"net"})}
MCBands == {{4}, {4, 9}}

MCInit ==
    /\ part \in {"park", "packet", "kiss", "slots", "session", "markers", "polls"}
    /\ ParkInit /\ PktInit /\ KissInit /\ IqInit /\ MarkersInit /\ PolledInit
    /\ part # "park" => parkEnv = CHOOSE e \in MCParkEnvs : TRUE
    /\ part # "packet" => feedEnv = CHOOSE e \in MCPktEnvs : TRUE
    /\ part # "session" => cwAudio.overlap = 0

RadioNext ==
    \/ part = "park" /\ ParkNext /\ UNCHANGED <<pktVars, kissVars, iqVars>>
    \/ part = "packet" /\ PktNext /\ UNCHANGED <<parkVars, kissVars, iqVars>>
    \/ part = "kiss" /\ KissFeed /\ UNCHANGED <<parkVars, pktVars, iqVars>>
    \/ part = "slots" /\ (IqTick \/ SlotNext) /\ UNCHANGED <<parkVars, pktVars, kissVars>>
    \/ part = "session" /\ (CwBuffers \/ CwDecodes)
       /\ UNCHANGED <<parkVars, pktVars, kissVars>>

ScreenNext ==
    \/ part = "markers" /\ MarkersNext /\ UNCHANGED polledVars
    \/ part = "polls" /\ PolledNext /\ UNCHANGED markerVars

MCNext ==
    /\ UNCHANGED part
    /\ \/ RadioNext /\ UNCHANGED screenVars
       \/ ScreenNext /\ UNCHANGED radioVars

MCSpec == MCInit /\ [][MCNext]_decodersVars /\ ParkFair /\ PktFair

\* The part that moves keeps its shape, its bounds included.
DecodersTypeOK ==
    /\ part = "park" => ParkTypeOK
    /\ part = "packet" => PktTypeOK
    /\ part = "kiss" => KissTypeOK
    /\ part \in {"slots", "session"} => IqTypeOK
    /\ part = "markers" => MarkersTypeOK
    /\ part = "polls" => PolledTypeOK

\* Nothing that a stop has to end outlives the reference it would end it by: no
\* loop of a user of the radio, no loop of a packet decoder, no process of the
\* KISS pipeline; with requests that come one by one, also when a stop has given
\* up waiting or a process has died.
NothingStray == NoStrayUser /\ NoStrayFeed /\ PipelineFreed
===========================================================================
