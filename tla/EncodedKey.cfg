SPECIFICATION Spec
CONSTANTS
  Keys = {"photo.jpg", "my photo.jpg"}
  PlainKeys = {"photo.jpg"}
  NameOrder <- Names
  LineOrder <- Names
  Digits <- Binary
  Payload <- OneByte
  MaxBody = 2
INVARIANT GenuineAccepted
