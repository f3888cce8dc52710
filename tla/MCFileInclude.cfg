SPECIFICATION Spec
CONSTANTS
    MaxIncludeSources = 6
    MaxIncludeLength = 8
    MaxChanges = 1
    CharacterOrder <- MCCharacterOrder
    NameCharacters <- MCNameCharacters
    InvalidServerCharacters <- MCInvalidServerCharacters
    FileSuffix <- MCFileSuffix
    LowerCase <- MCLowerCase
    Scenarios <- MCScenarios
    Changes <- MCChanges
INVARIANTS
  ListIsWhatIsMeant
  OpenedIsPermitted
CHECK_DEADLOCK FALSE
