CONSTANTS
    None = None
    k1 = k1
    k2 = k2
    Key = {k1, k2}
    Fallback <- MCFallback
    Id = {1, 2, 3}
    Writer = {w1, w2}
    Kind = {"monitor", "mark", "test", "core_edit", "dashboard_edit"}
    Scopes = {{k1}, {k1, k2}}
    Source = {1, 2}
    Name = {n1, n2}
    Importer = {m1, m2}
SPECIFICATION MCSpec
INVARIANTS VerdictIsOwn ChecksAddUp ImportsTellTruth
SYMMETRY Symmetry
