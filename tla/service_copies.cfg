\* Two Cores write whole copies of one record back.
CONSTANTS
    Cores = {c1, c2}
    Services = {s1}
    Ports = {p1}
    MaxPolls = 1
    None = None
SPECIFICATION Spec
PROPERTIES InspectIsReadOnly
\* Service identifiers run out.
CHECK_DEADLOCK FALSE
