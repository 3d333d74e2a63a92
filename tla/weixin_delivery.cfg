SPECIFICATION FairSpec
CONSTANTS
    owner = owner
    member = member
    Users = {owner, member}
    FirstOwner = owner
    MaxInbox = 2
    MaxTroubles = 3
    Texts <- MCTexts
INVARIANT
    DeliveredOnce
PROPERTIES
    OnlyForTheEntitled
    EveryMessageEnds
CHECK_DEADLOCK FALSE
