\* The background task and a catch-up of the documents projection race on its
\* checkpoint while the embeds task follows the same log.
SPECIFICATION Spec
CONSTANTS
    docs = docs  docsCatchup = docsCatchup
    embeds = embeds  embedsCatchup = embedsCatchup
    research = research  researchCatchup = researchCatchup
    doc1 = doc1  doc2 = doc2
    None = None
    DocsDrainer = {docs, docsCatchup}
    EmbedDrainer = {embeds}
    ResearchDrainer = {}
    Background = {docs, embeds}
    Steady = {docsCatchup}
    Doc = {doc1}
    MaxLog = 3
    WindowSize = 2
    Window <- MCWindow
    Passes = 1
    Batches = 2
    FlakyPositions = {1, 2, 3}
    Flaky <- MCFlaky
CHECK_DEADLOCK FALSE
INVARIANTS
    TypeOK
    NothingPassedOver
    SettledInOrder
PROPERTIES
    QuietMeansCaughtUp
    Implements
