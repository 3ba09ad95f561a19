SPECIFICATION FramesFairSpec
CONSTANTS
    MaxFrames = 3
    Closes = FALSE
PROPERTIES
    LatestShown
