CONSTANTS
    Comms = {"usb", "shell"}
    Streams <- MCStreams
    Consoles = {"usb"}
    Texts = {"c1"}
    Definers = {"c1"}
    QueueSize = 2
    RingSize = 3
    MaxLines <- MCMaxLines
    MaxQueries <- MCMaxQueries
    MaxSent = 5
    GcSize = 3
CHECK_DEADLOCK FALSE
SPECIFICATION Spec
INVARIANTS PatientClientSafe LinesInOrder
PROPERTIES QueriesGenuine StreamsReleased
