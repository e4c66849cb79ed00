\* The documents and embeds tasks of a server that stays up; nothing fails.
SPECIFICATION FairSpec
CONSTANTS
    docs = docs  docsCatchup = docsCatchup
    embeds = embeds  embedsCatchup = embedsCatchup
    research = research  researchCatchup = researchCatchup
    doc1 = doc1  doc2 = doc2
    None = None
    DocsDrainer = {docs}
    EmbedDrainer = {embeds}
    ResearchDrainer = {}
    Background = {docs, embeds}
    Steady = {docs, embeds}
    Doc = {doc1, doc2}
    MaxLog = 3
    WindowSize = 2
    Window <- MCWindow
    Passes = 1
    Batches = 1
    FlakyPositions = {}
    Flaky <- MCFlaky
CHECK_DEADLOCK FALSE
PROPERTIES
    EmbedsReachHead
