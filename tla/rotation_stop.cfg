SPECIFICATION Spec
CONSTANTS
    h1 = h1
    r1 = r1
    r2 = r2
    day = day
    bad = bad
    b20 = b20
    b40 = b40
    gone = gone
    none = none
    Handlers = {h1}
    Scheduler = scheduler
    Rotations = {r1, r2}
    Presets = {day, bad}
    Bands = {b20, b40, gone}
    KnownBands = {b20, b40}
    PreviewBand = b20
    Slots = 2
    Configs <- MCConfigs
    PresetConfig <- MCPresetConfig
    Nothing = none
PROPERTIES
    StopStops
