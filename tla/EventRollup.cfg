SPECIFICATION Spec
CONSTANTS
    Deliveries = {d1, d2, d3}
    Transactions = {t1, t2, t3}
SYMMETRY Symmetry
INVARIANTS
    TypeOK
    EventAgrees
