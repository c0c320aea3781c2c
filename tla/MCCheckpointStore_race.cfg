\* Two writers of one version.
CONSTANTS
    Versions = {1}
    Contents = {a, b}
    Temps = {t1, t2}
    w1 = w1
    w2 = w2
    Writers = {w1, w2}
    Readers = {w1, w2}
    Saves <- Shared
    Absent = Absent
    Torn = Torn
    None = None
SPECIFICATION Spec
PROPERTY NoSilentOverwrite
