SPECIFICATION SSpec
CONSTANTS
    Calls = {c1, c2, c3}
    Keys = {k1}
    Names = {n1}
    Packs = {q1, q2}
    None = None
    Garbled = Garbled
SYMMETRY Symmetry
CHECK_DEADLOCK FALSE
INVARIANTS AnswersAgree AnswersAreTrue AuditedBeforeReply
