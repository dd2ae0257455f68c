SPECIFICATION ProcessSpec
CONSTANTS
    Methods = {"icloud"}
    m1 = m1
    m2 = m2
    m3 = m3
    Items = {"l", "m", "u"}
    Names = {"a.heic", "a.mov"}
    NameOf <- CloudNames
    Unpaired = {"u"}
    Lives = {"l"}
    VideoName <- LiveNames
    Old = {"m"}
    Deletable = {"l"}
    PageSize = 2
    MaxSuffix = 4
    Folders = {"inbox"}
    Messages = {m1, m2, m3}
    MaxValidity = 2
    MaxUid = 3
    MaxChange = 3
    Photos <- MCPhotos
    Item <- MCItem
    Hole <- MCHole
    Section <- MCSection
    Area <- MCArea
SYMMETRY MCSymmetry
INVARIANTS
    NewItemsFound
