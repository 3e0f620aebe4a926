SPECIFICATION Spec
CONSTANTS
  lb = lb
  queue = queue
  e1 = e1
  e2 = e2
  op = op
  cron = cron
  img1 = img1
  img2 = img2
  disk1 = disk1
  disk2 = disk2
  wire1 = wire1
  wire2 = wire2
  None = None
  Models <- OnlyLb
  QueueModels <- NoModels
  Images <- TwoImages
  Disks <- OneDisk
  Wirings <- OneWiring
  Volumes <- NoVolumes
  EndpointIds <- TwoIds
  Procs <- OneOp
  MaxReleases = 3
  MaxFails = 1
INVARIANT ReleaseSuspendsPromotion
CHECK_DEADLOCK FALSE
