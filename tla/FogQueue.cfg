CONSTANTS
    QueueLength = 2
    TotalLength = 10
    Sizes = {2, 3}
    CountSize = 32
    MaxSent = 5
SPECIFICATION Spec
INVARIANTS FogTypeOK QuotaAccount NewestKept NothingLeaks
PROPERTY AcceptedLeaves
CHECK_DEADLOCK FALSE
