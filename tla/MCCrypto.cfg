SPECIFICATION Spec
CONSTANTS
  NULL = NULL
  Nonces = {iv1, iv2}
  Block = 4
  DigestLen = 2
  Word = 64
  AesBlock = 2
  KeyLen = 2
  MaxPlain = 12
  MaxIn = 9
  MaxOut = 9
  TestsHold = TRUE
INVARIANTS EncryptsInOrder DecryptsBack MacOfCiphertext TagsAgree
SYMMETRY IvSymmetry
CHECK_DEADLOCK FALSE
