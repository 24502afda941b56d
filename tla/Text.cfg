SPECIFICATION Spec

CONSTANTS
  QueryChars = {44619, 44620, 12593, 65, 97, 49, 32, 33}
  MaxTitle = 3
  MatchChars = {97, 98, 40, 41}
  MaxLength = 4
  NoiseWords <- MCNoiseWords
  KeywordLength = 2
  MaxCandidates = 2
INVARIANTS
  FoundByTitle
  FoundByChosung
  FoundByInitials
  ChosungIsSharper
  JaroSymmetric
  OneIfEqual
  SameSongWins
