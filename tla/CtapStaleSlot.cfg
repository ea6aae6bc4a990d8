SPECIFICATION Spec
CONSTANTS
  rp1 = rp1
  rp2 = rp2
  usb = usb
  lan = lan
  Free = Free
  None = None
  Transports = {usb, lan}
  RPs = {rp1, rp2}
  MaxCreds = 2
  MaxIds = 2
  Lists = {{}}
  FirstStores <- MCTwo
  Restores <- NoStores
PROPERTY AssertionMatchesRequest
