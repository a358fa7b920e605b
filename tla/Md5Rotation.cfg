CONSTANTS
  B = 64
  L = 8
  Width = 128
  BUF = 64
  MaxLen = 3
  Builds = {"masked", "dropped"}
SPECIFICATION MD5Spec
INVARIANT DigestIsMD5
