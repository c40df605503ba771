\* The commands of keymaster and their responses, with the sizes of the source.
SPECIFICATION FairSpec
CONSTANTS
    KEYMASTER_MAX_BUFFER_LENGTH = 4096
    MARGIN = 64
    HEADER = 4
    ERROR_SIZE = 4
    ResponseSize <- MCResponseSize
INVARIANTS
    TypeOK
    DeviceLifecycle
    StopEndsResponse
    SentMeansEnded
PROPERTIES
    ResponseEnds
