SPECIFICATION DeskSpec
\* Requests are bounded, so the desk comes to rest.
CHECK_DEADLOCK FALSE
SYMMETRY ThreadSymmetry
CONSTANTS
    Threads = {t1, t2}
    None = None

    
    
PROPERTY RequestsKeepFiles
