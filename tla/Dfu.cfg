SPECIFICATION FairSpec
CONSTANTS
    EP0_SIZE = 3
    SPM_PAGESIZE = 4
    BOOT_ADDR = 8
    FLASH_SIZE = 10
    BLOCKS = 3
    DnloadLengths = {0, 2, 3, 4}
    UploadLengths = {3, 4}
    Limit <- Bounds
INVARIANTS BootLoaderUntouched FlashHoldsImage RefusedIsReported UploadFaithful
PROPERTIES AppIsWhole AppStarts
\* All events have happened.
CHECK_DEADLOCK FALSE
