SPECIFICATION Spec
CONSTANTS
  Ports = {1, 2}
  AllowPorts = {1, 2}
  Names = {n1, n2}
  Proxies = {x1, x2, x3}
  Requests = {0, 1, 2}
  MaxTryTimes = 1
  Udp = TRUE
  NoName = NoName
  Nobody = Nobody
  Stranger = Stranger
SYMMETRY Symmetry
INVARIANTS
  PortsPartitioned
  NoPortLeak
