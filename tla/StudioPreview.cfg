SPECIFICATION MCSpec
CONSTANTS
    P = P
    S = S
    t1 = t1
    t2 = t2
    Cube = Cube
    Untitled = Untitled
    Empty = Empty
    None = None
    Projects <- MCProjects
    Meshes <- MCMeshes
    PlatesOf <- MCPlatesOf
    PlainDocs <- MCPlain
    Tasks <- MCTasks
    GenMod = 2
    MaxEdits = 2
    MaxRequests = 3
PROPERTIES
    PreviewKeepsSlice
