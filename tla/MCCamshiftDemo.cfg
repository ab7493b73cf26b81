SPECIFICATION CamshiftSpec
CONSTANTS
  Width = 3
  Height = 2
INVARIANTS HistogramFollowsTracker ThrowsOnlyIfDisturbedOrCornered
PROPERTIES SelectionIsTaken
