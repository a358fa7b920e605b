CONSTANTS
  B = 64
  L = 8
  Width = 128
  BUF = 64
  MaxLen = 130
  Builds = {"masked"}
SPECIFICATION MD5Spec
INVARIANTS BufferOK DigestIsMD5
PROPERTIES ImplementsHash
