SPECIFICATION Spec
CONSTANTS
    Inodes = {i1, i2, i3, i4, i5}
    Texts = {t1, t2}
    Foreign = Foreign
    Partial = Partial
    None = None
    Launches <- Both
INVARIANTS TypeOK NothingLost SavedOrScheduled NoLitter
PROPERTIES MappedIsUntouched BackupIsPrevious ConcurrentChangeIsRejected
SYMMETRY Symmetry
CHECK_DEADLOCK FALSE
