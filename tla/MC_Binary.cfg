\* The program ends when everything is read.
SPECIFICATION Spec
CONSTANTS
    Structs <- MC_Structs
    Streams <- MC_Streams
    Served = {"Known", "Newer", "Small"}
    Name <- MC_Name
    Numbers <- MC_Numbers
    Texts <- MC_Texts
    Blobs <- MC_Blobs
    MaxSize = 2
INVARIANTS TypeOK FramesAreMessages ReadsTheWholeFrame
CHECK_DEADLOCK FALSE
