\* One click of the create page, every option of the generator, lengths up to
\* the limit.
SPECIFICATION FormsSpec
CONSTANTS
    u1 = u1
    r1 = r1
    User = {u1}
    Me = u1
    Anon = Anon
    Request = {r1}
    None = None
    Tried = {"generate", "custom", "passphrase"}
    Lifetimes = {"7d"}
    MaxWaiting = 1
    Words = 256
    Lengths <- SomeLengths
CHECK_DEADLOCK FALSE
INVARIANTS GatesHold StoredAsChosen OfferedIsAccepted FieldIsCurrent TextArrivesHidden
PROPERTY SubmitAnswered
