SPECIFICATION Spec
CONSTANTS
    cat = cat
    rt = rt
    usr = usr
    NoFile = NoFile
    Slots = {cat, rt, usr}
    AlwaysOn = {cat}
    UserSlots = {usr}
    Drafted = {rt, usr}
    Docs <- MCDocs
    Builtin = {"direct", "block", "dns"}
    MaxWrites = 2
    MaxToggles = 2
    MaxFaults = 2
INVARIANTS
    RunsWhatIsSaved
    SighupKeepsTun
    LastSaveWins
CHECK_DEADLOCK FALSE
