SPECIFICATION Spec
CONSTANTS
  file1 = file1
  hongbai = hongbai
  Names = {file1, hongbai}
  None = None
  ByteBits = 4
  InodeCnt = 4
  BlockCnt = 8
  InodeByte = 3
  Slots = {3, 4}
  Fds = {3}
  MaxOpens = 2
INVARIANTS TreeOnDisk BitmapsAgree HandlesExclusive
