SPECIFICATION FairSpec
CONSTANTS
  Q_SIZE = 2
  Period = 1
  Times <- TwoTimes
  Formats <- MCFormats
  AddTask = AddTask
  IncTask = IncTask
  Clearers <- OneClearer
  f1 = f1
  f2 = f2
  c1 = c1
INVARIANTS OneTaskInQueue RoomStays
PROPERTIES ImplementsFifo ProducerNotStuck
