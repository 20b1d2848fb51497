SPECIFICATION FairSpec
CONSTANTS
  Values <- MCValues
  N = 4
  MouseN = 6
  Chunk = 2
  Scenes <- MCScenes
  None = None
INVARIANT EventsAsMade
INVARIANT BoundByConsent
 
PROPERTY EverythingArrives
