\* The heap and VirtualAlloc on three pages; programs of up to three images, a
\* page each; three handles of two descriptors; a file that two opens share, with
\* words of two bits; five Direct3D calls.
SPECIFICATION MSpec
CONSTANTS
    PageCount = 3
    PageSize = 64
    Threads = {t1, t2}
    ArenaBytes = 48
    UsizeMod = 256
    HeapSizes = {9, 32, 250}
    VmSizes = {0, 40, 100}
    PageFlags = {"EXECUTE_READWRITE"}
    Tags = {1}
    MaxBlocks = 2
    MaxRegions = 2
    MaxImage = 60
    PtrMod = 192
    Worlds <- LoaderWorlds
    Builtins <- LoaderBuiltins
    BuiltinNames = {"kernel32"}
    Shift = 16
    Base = 4
    MaxObjects = 3
    MaxSlots = 3
    HostFds = {3, 4}
    Foreign <- MadeUpHandles
    Paths = {n1}
    StartContents <- FileContents
    Byte = {2}
    WordMod = 4
    MaxLen = 9
    MaxOpen = 2
    MaxCalls = 3
    Blobs <- ShaderBlobs
    Malformed <- BadBlobs
    Uncompiled <- HardBlobs
    HashMod = 256
    Formats = {28, 87, 99}
    Colours <- ClearColours
    MaxD3dCalls = 5
SYMMETRY Symmetry
INVARIANTS
    EveryPageHeldOnce
    HeapBlocksDisjoint
    BlocksKeepTheirBytes
    ImportsReachTheirFunction
    ImagesAreWhole
    AttachCallsWhatFilesDeclare
    OpenHandleFindsItsObject
    DescriptorsStayWithTheirFile
    PointersFollowTheGuest
    ShaderHasItsCode
    TexturesAreTheGuests
PROPERTIES LoadingConverges FilesChangeByWriting
CHECK_DEADLOCK FALSE
