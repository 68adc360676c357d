CONSTANTS
    adm = adm
    ben = ben
    Earlier = Earlier
    NoRow = NoRow
    NoCall = NoCall
    CertNos = {c1}
    Saves = {r1, r2}
    Deletes = {d1, d2}
    Users <- MCUsers
    Admins <- MCAdmins
    Viewers <- MCViewers
    Deleters <- MCDeleters
SPECIFICATION Spec
SYMMETRY Symmetry
INVARIANTS
    TypeOK
    IInv
    ConflictIsReal
PROPERTIES
    NoLostEdit
    FinalLock
    Atomic
