\* A lead of a type whose full crew is below the leader's minimum, with an empty hold.
SPECIFICATION CrewSpec
CONSTANTS
    Fleet = {lone, lead}
    Leads = {lead}
    Mine = {lone, lead}
    MIN_SAILORS <- MCMinSailors
    FULL_CREW <- MCFullCrewSmall
    LEADER_MIN = 2
    Room = 3
    MaxAvailable = 2
INVARIANTS RescuedCanSail
