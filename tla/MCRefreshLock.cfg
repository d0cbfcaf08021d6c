SPECIFICATION FairSpec
CONSTANTS
    Processes = {p1, p2}
    Names = {n1, n2, n3}
    Nobody = Nobody
INVARIANTS
    OneRefresher
    RefreshingIsTrue
PROPERTY
    RefreshHappens
