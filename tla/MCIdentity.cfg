SPECIFICATION PartSpec
CONSTANTS
    s1 = s1  s2 = s2  f1 = f1  f2 = f2  nokf = nokf  noid = noid
    annKf = annKf  annExt = annExt  bobKf = bobKf  ann = ann  bob = bob  phA = phA  phB = phB
    nameA = nameA  u1 = u1  u2 = u2  x1 = x1  emp = emp  r1 = r1  r2 = r2
    Main = s1
    Branches = {s2}
    Kfs = {f1, f2}
    NoKf = nokf
    Msgs <- SomeCallbacks
    NoId = noid
    MaxFaults = 3
    Idents = {annKf, annExt, bobKf}
    People = {ann, bob}
    Phones = {phA, phB}
    Names = {nameA}
    Ids = {u1, u2, x1, emp}
    PersonOf <- Person
    OpenOf <- OpenIds
    ExtOf <- ExtIds
    PhoneOwner <- Owner
    Rows = {r1, r2}
    Blank = Blank
    NoRow = NoRow
    Spellings <- Spelled
    Typed <- Dialled
    MaxTries = 1
    MaxSends = 1
SYMMETRY Symmetry
CONSTRAINT FewAtOnce
INVARIANTS HandledOnce PeopleKnown
PROPERTIES KfIsBoundary
CHECK_DEADLOCK FALSE
