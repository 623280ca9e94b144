SPECIFICATION Spec
CONSTANTS
    a = a
    b = b
    f1 = f1
    f2 = f2
    v1 = v1
    v2 = v2
    Ids = {a, b}
    Frames = {f1, f2}
    Vals = {v1, v2}
    NoEntity = NoEntity
    World = World
    Parent <- Placed
    Absent = Absent
    Deleted = Deleted
    Lost = Lost
    Offers <- MixedOffers
INVARIANTS
    NoGhost
