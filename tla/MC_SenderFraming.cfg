CONSTANTS
    Clients <- MCClients
    FileSize <- MCFileSize
    MaxFileSize = 1600
SPECIFICATION Spec
INVARIANT TypeOK
INVARIANT FramesTileFile
INVARIANT OnlyFirstFrameTruncates
