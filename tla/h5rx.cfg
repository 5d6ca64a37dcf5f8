SPECIFICATION FairSpec
CONSTANTS
  CrcStep <- h5_crc_update
  BitRev16 <- bit_rev16
  Lines <- MCLines
  BufLen = 4101
INVARIANTS BufferFits BufferLive IntactDelivered NoForgery
PROPERTY ReadsAll
