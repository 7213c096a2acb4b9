SPECIFICATION Spec
CONSTANTS
  Keys = {"photo.jpg", "notes.txt"}
  PlainKeys = {"photo.jpg", "notes.txt"}
  NameOrder <- Names
  LineOrder <- Names
  Digits <- Binary
  Payload <- ThreeBytes
  MaxBody = 2
INVARIANTS HandledAsSigned GenuineAccepted BodyIsPayload
PROPERTY BodyEnds
