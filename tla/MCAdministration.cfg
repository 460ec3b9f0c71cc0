CONSTANTS
    Nobody = Nobody
    s1 = s1
    Uid = {1, 2}
    Secret = {s1, s2}
    Actor = {a1, a2}
    MaxBorn = 3
    MaxHeld = 1
    Nothing = Nothing
    Fact = {f1}
    Monitor = {m1}
    Dashboard = dashboard
    Door = {d1, d2}
    MaxFile = 5
    Missing = Missing
    Port = {p1, p2}
    Config = {x, y}
    Caller = {c1, c2}
SPECIFICATION MCSpec
CONSTRAINT Telling
INVARIANTS AdministratorRemains TokensSound DatabaseSound OneProcess ProfilesKept
PROPERTIES RestoredAlone
SYMMETRY Symmetry
