SPECIFICATION PSpec
CONSTANTS
  Threads = {anime}
  Anime = {anime}
  Decoders = {d1}
  Arrays = {a1}
  NoArray = NoArray
  NoDecoder = NoDecoder
  FrameCount = 4
  MaxResets = 0
  Damaged = FALSE
  Instant = {0}
  Platform = "jvm"
  Promises = {}
PROPERTIES CancelStops PlaysForever WrapsAtEnd
CHECK_DEADLOCK FALSE
