CONSTANTS
    Docs = {d1, d2}
    Records = {r1}
    Existing = {d1}
    Edits = {e1, e2, e3}
    Vals <- MCVals
    Procs = {p1, p2}
    None = None
    MaxVersion = 4
    DocTries = 2
    ContactTries = 2
SPECIFICATION DSpec
INVARIANTS
    ExistingDocsKeepEdits
PROPERTIES
    DocsAreAtomic
    ClobberNeedsFirstWrite
