SPECIFICATION FairSpec
CONSTANTS
  i1 = i1
  i2 = i2
  i3 = i3
  i4 = i4
  i5 = i5
  Inodes = {i1, i2, i3, i4, i5}
  NoInode = NoInode
  Publishers = {"bridge", "guardian"}
  Lengths = {1, 2}
  MaxFaults = 2
PROPERTIES ViolationStopsBridge ViolationPublished
