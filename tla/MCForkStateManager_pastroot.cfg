CONSTANTS
  a1 = a1
  a2 = a2
  k1 = k1
  c1 = c1
  r0 = r0
  Undef = Undef
  Null = Null
  Absent = Absent
  NoState = NoState
  Remote = Remote
  Addresses <- MCAddresses
  Keys <- MCKeys
  StorageValues = {1}
  AccountValues = {0}
  Codes <- MCCodes
  GenesisBalances <- MCGenesisBalances
  ForkBlockNumber = 1
  BlockNumbers <- MCBlockNumbers
  RemoteRoots <- MCRemoteRoots
  PastBlockRoots <- MCAnyRoots
  RemoteAccountData <- MCRemoteAccountData
  RemoteStorage <- MCRemoteStorage
  MaxRoots = 2
  MaxCheckpoints = 2

SPECIFICATION Spec
PROPERTY RegistryAppendOnly
