\* A documents task whose process stays up, beside a catch-up that may crash or
\* raise; and two research catch-ups that are called again and again, one of
\* which may crash or raise.  The first document may always fail, and with it its
\* chunks: two events, where a window holds three.  The first two events may fail
\* for research, every time: a window full of them.
SPECIFICATION FollowSpec
CONSTANTS
    docs = docs  docsCatchup = docsCatchup
    research = research  researchCatchup = researchCatchup
    doc1 = doc1
    None = None
    DocsDrainer = {docs, docsCatchup}
    EmbedDrainer = {}
    ResearchDrainer = {research, researchCatchup}
    Background = {docs}
    Steady = {docs, research}
    Doc = {doc1}
    MaxLog = 4
    MaxResearchLog = 3
    Window <- MCWindow
    Passes = 1
    Batches = 1
    Flaky <- MCFlaky
CHECK_DEADLOCK FALSE
PROPERTY LogIsFollowed
