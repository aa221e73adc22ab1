\* The leader's minimum is above the sailing minimum and within the full crew of a type.
SPECIFICATION FairCrewSpec
CONSTANTS
    Fleet = {lone, lead}
    Leads = {lead}
    Mine = {lone, lead}
    MIN_SAILORS <- MCMinSailors
    FULL_CREW <- MCFullCrew
    LEADER_MIN = 2
    Room = 3
    MaxAvailable = 2
PROPERTIES NoSilentStall
