SPECIFICATION Spec
CHECK_DEADLOCK FALSE
CONSTANTS
    MAX_GPS_WAIT_RETRIES = 2
    MAX_GPS_READ_RETRIES = 1
    Encoded <- MCEncoded
    Written2D <- MCWritten2D
    Written3D <- MCWritten3D
    Optional <- MCOptional
    MaxSince = 6
    MaxFix = 2
INVARIANT SentFromOneFix
