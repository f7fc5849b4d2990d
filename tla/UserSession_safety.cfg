\* Three requests of any kind from two devices, all of which may overlap.
CONSTANTS
    N = 3
    Devices = {d1, d2}
CHECK_DEADLOCK FALSE
SPECIFICATION Spec
INVARIANTS NamesADocument SuccessIsReal OneLog
