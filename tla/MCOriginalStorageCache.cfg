CONSTANTS
  a1 = a1
  c1 = c1
  r0 = r0
  p1 = p1
  p2 = p2
  Undef = Undef
  Null = Null
  Absent = Absent
  NoState = NoState
  Remote = Remote
  Idle = Idle
  Addresses <- MCAddresses
  Keys <- MCKeys
  QueryKeys <- MCQueryKeys
  KeyLength = 2
  AddressBytes <- MCAddressBytes
  Readers <- MCReaders
  StorageValues = {1}
  AccountValues = {0}
  Codes <- MCCodes
  GenesisBalances <- MCGenesisBalances
  ForkBlockNumber = 1
  BlockNumbers <- MCBlockNumbers
  RemoteRoots <- MCRemoteRoots
  PastBlockRoots <- MCRemoteRoots
  RemoteAccountData <- MCRemoteAccountData
  RemoteStorage <- MCRemoteStorage
  MaxRoots = 2
  MaxCheckpoints = 1

SPECIFICATION Spec2
INVARIANT CacheTypeOK
INVARIANT OriginalIsFirstObserved
