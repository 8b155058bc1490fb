SPECIFICATION OutboundSpec
CONSTANTS
  Hosts = {h1, h2}
  Addresses = {public, public2, private}
  Blocked = {private}
  Targets = {u1, u2, x}
  HostOf <- mcHostOf
  Approved = {u1, u2}
  MaxRedirects = 1
  Timeout = 1
  u1 = u1
  u2 = u2
  x = x
  h1 = h1
  h2 = h2
  None = None
INVARIANT EgressConfined
PROPERTY FetchEnds
