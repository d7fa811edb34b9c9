---------------------------- MODULE MCServices ----------------------------
(***************************************************************************)
(* What becomes of the samples, and the services around it, side by side:  *)
(* the voice events, their transcription and the FT windows, the event     *)
(* store, the satellite module, the registry of the mirrors, the windows   *)
(* of the presets, and the broadcasts to the browsers.  They share no      *)
(* variable; one part moves in a behaviour, the others keep their initial  *)
(* state.                                                                  *)
(***************************************************************************)
EXTENDS VoiceEvents, VoiceTranscripts, FtWindows, EventStore,
        SatelliteModule, MirrorAdmin, PresetWindows, EventFeed, RegistryFeed

VARIABLE part

heardVars == <<voiceVars, asrVars, winVars>>
keepVars == <<storeVars, satVars, adminVars>>
shareVars == <<presetVars, feedVars, registryVars>>
servicesVars == <<heardVars, keepVars, shareVars, part>>

MCCentres == <<40, 44>>
MCGap == [ws |-> 1, asr |-> 1, raw |-> 1, digital |-> 0]
Retention(days, max, keep, export) ==
    [days |-> days, max |-> max, keep |-> keep, export |-> export]
MCRetentions == {Retention(1, 3, 2, TRUE), Retention(0, 3, 3, TRUE), Retention(1, 0, 1, FALSE)}
\* a window that touches the next, and two across midnight
MCWindows == {[start |-> 1, end |-> 2], [start |-> 3, end |-> 1], [start |-> 3, end |-> 2]}
MCPeriod == [FT8 |-> 2, FT4 |-> 1, WSPR |-> 3]
MCModeLists == {<<"FT4">>, <<"WSPR">>, <<"FT8", "WSPR">>}

MCInit ==
    /\ part \in {"voice", "speech", "windows", "store", "satellites", "mirrors",
                 "presets", "events", "registry"}
    /\ VoiceInit /\ AsrInit /\ WinInit /\ StoreInit /\ SatInit /\ AdminInit
    /\ PresetInit /\ FeedInit /\ RegistryInit
    /\ winScan = CHOOSE s \in [run : {TRUE}, band : WinBands, mode : {"FT8"}] : TRUE
    /\ part # "speech" => asrOn
    /\ part # "windows" => Len(winLoop.modes) = 2
    /\ part # "store" => limits = CHOOSE l \in MCRetentions : TRUE
    /\ part # "mirrors" => vault

HeardNext ==
    \/ part = "voice" /\ VoiceNext /\ UNCHANGED <<asrVars, winVars>>
    \/ part = "speech" /\ AsrNext /\ UNCHANGED <<voiceVars, winVars>>
    \/ part = "windows" /\ WinNext /\ UNCHANGED <<voiceVars, asrVars>>

KeepNext ==
    \/ part = "store" /\ StoreNext /\ UNCHANGED <<satVars, adminVars>>
    \/ part = "satellites" /\ SatNext /\ UNCHANGED <<storeVars, adminVars>>
    \/ part = "mirrors" /\ AdminNext /\ UNCHANGED <<storeVars, satVars>>

ShareNext ==
    \/ part = "presets" /\ PresetNext /\ UNCHANGED <<feedVars, registryVars>>
    \/ part = "events" /\ FeedNext /\ UNCHANGED <<presetVars, registryVars>>
    \/ part = "registry" /\ RegistryNext /\ UNCHANGED <<presetVars, feedVars>>

MCNext ==
    /\ UNCHANGED part
    /\ \/ HeardNext /\ UNCHANGED <<keepVars, shareVars>>
       \/ KeepNext /\ UNCHANGED <<heardVars, shareVars>>
       \/ ShareNext /\ UNCHANGED <<heardVars, keepVars>>

MCSpec == MCInit /\ [][MCNext]_servicesVars

\* The part that moves keeps its shape, its bounds included.
ServicesTypeOK ==
    /\ part = "voice" => VoiceTypeOK
    /\ part = "speech" => AsrTypeOK
    /\ part = "windows" => WinTypeOK
    /\ part = "store" => StoreTypeOK
    /\ part = "satellites" => SatTypeOK
    /\ part = "mirrors" => AdminTypeOK
    /\ part = "presets" => PresetTypeOK
    /\ part = "events" => FeedTypeOK
    /\ part = "registry" => RegistryTypeOK

\* What is stored was heard: a voice event by the frames of its hold, spaced as
\* the settings say, with a text of audio given to the model once, and the
\* decodes of FT by one whole window each, of a mode still wanted.
HeardBeforeStored == VoiceSound /\ AudioOnce /\ FtWindowsExact
===========================================================================
