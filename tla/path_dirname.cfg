SPECIFICATION Spec
CONSTANTS
  pending = pending
  junk = junk
  out_of_bounds = out_of_bounds
  Texts <- MCTexts
  ShortTexts <- MCShortTexts
  Codepoints <- MCCodepoints
  Numbers <- MCNumbers
  Devices <- MCDevices
  Surfaces <- MCSurfaces
  Flags <- MCFlags
  Sides <- MCSides
  MipLevels <- MCMipLevels
INVARIANT
  DirnameIsDirectory
CHECK_DEADLOCK FALSE
