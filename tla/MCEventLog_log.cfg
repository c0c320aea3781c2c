\* Two writers, four events, two of them long, one append cut short.
CONSTANTS
    e1 = e1
    e2 = e2
    e3 = e3
    e4 = e4
    r1 = r1
    s1 = s1
    s2 = s2
    Writers = {w1, w2}
    Readers = {r1}
    Events = {e1, e2, e3, e4}
    Long = {e3, e4}
    SessionOf <- Sessions
    Filter <- Filters
    MaxTorn = 1
    None = None
SPECIFICATION Spec
PROPERTY StreamsAreLogs
SYMMETRY Symmetry
