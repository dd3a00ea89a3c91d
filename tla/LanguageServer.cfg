CONSTANTS
    Uris = {u, w}
    Texts = {"broken", "clean"}
    MaxSent = 4
    MaxQueue = 2
    AnyIds = FALSE
SPECIFICATION Spec
INVARIANTS
    AnswersTheTextAsked
    DiagnosticsSettle
PROPERTIES
    RequestsServed
CHECK_DEADLOCK FALSE
