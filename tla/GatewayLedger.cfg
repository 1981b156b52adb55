SPECIFICATION FairSpec
CONSTANTS
  a1 = a1
  a2 = a2
  j1 = j1
  j2 = j2
  current = current
  rotated = rotated
  NoId = NoId
  ActionIds <- MCActionIds
  InScope <- MCInScope
  Jobs <- MCJobs
  Secrets <- MCSecrets
  GatewaySecret = current
  SignTtl = 1
  MaxLifetime = 2
  MaxClock = 1
INVARIANTS TypeOK AtMostOnce CommandsOnRecord HonestOk
PROPERTIES KeepsPromise ThreadsComeBack
