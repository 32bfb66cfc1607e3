SPECIFICATION Spec
CONSTANTS
    Labels <- LabelsOf
    Begins <- BeginsOf
    Hosts <- HostsOf
    Sums <- SumsOf
    Texts <- TextsOf
    Files <- FilesOf
    Millisecond = 2
    MaxLines = 4
INVARIANTS TypeOK MeasuresItsWindow NoValueFromBadFile PassIsEarned RunMeansItsValues
CHECK_DEADLOCK FALSE
