\* Four files of up to six lines; room for one alias.
SPECIFICATION NetdbSpec
CONSTANTS
  Databases = {"services", "hosts", "networks", "protocols"}
  File <- MCFile
  Keys = {"a", "b", "c", "1", "2"}
  Protos = {"tcp", "udp", Any}
  Any = Any
  MaxAliases = 1
PROPERTIES
  EntryIsOneLine
  LookupFindsFirst
