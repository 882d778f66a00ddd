SPECIFICATION Spec
CONSTANTS
    c1 = c1
    c2 = c2
    c3 = c3
    image = image
    config = config
    Commands = {c1, c2, c3}
    Files = {image, config}
    FileOf <- TwoFiles
    NoJob = NoJob
    Absent = Absent
    Fragment = Fragment
INVARIANTS
    TypeOK
    ReportMatchesDisk
PROPERTIES
    StartedIsReported
    ImplementsTransferContract
    JobEnds
