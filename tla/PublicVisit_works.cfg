\* One tab, the brand publishes and withdraws, PDFs of every shape.
CONSTANTS
    Products <- MCProducts
    Snapshots <- MCSnapshots
    MaxLoads = 2
CHECK_DEADLOCK FALSE
SPECIFICATION Spec
INVARIANTS
    OneReportPerSession
    NothingOverlaps
    TitleStaysWithSection
    PdfMatchesPage
