SPECIFICATION Spec
CONSTANTS
  \* Two addresses, so that a certificate can cover one of them and not the other.
  Addresses = {lan, tailnet}
  Supplies = {"none", "both", "one"}
  MaxQueue = 2
INVARIANTS TypeOK HostIsAsShown
PROPERTY PressesTakeEffect
