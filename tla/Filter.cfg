CONSTANTS
  a = a
  b = b
  c = c
  Addrs <- MCAddrs
  Hash <- MCHash
  Wishes <- MCWishes
  BridgeAddrs = {b}
  Vids = {5}
SPECIFICATION Spec
INVARIANTS
  GroupsAsAsked
  PromiscAsAsked
  VlansAsAsked
