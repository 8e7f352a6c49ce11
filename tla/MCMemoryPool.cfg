CONSTANTS
    Size = 14
    Requests <- MCRequests
SPECIFICATION Spec
INVARIANTS NoOverlap RoomIsFound
