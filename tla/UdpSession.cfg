SPECIFICATION FairSpec
CONSTANTS
    Base = 3
    MaxData = 3
    MaxUp = 2
    MaxDown = 2
    Long = 3
    Short = 1
    MaxFd = 4
INVARIANTS
    TypeOK
    UploadInOrder
    DownloadOnce
    TimesOutQuiet
    ClosesOwn
    NothingLeaks
    ChecksumsVerify
PROPERTY SessionEnds
CHECK_DEADLOCK FALSE
