SPECIFICATION Spec
CONSTANTS
  Fds = {f1, f2, f3}
  NoFd = NoFd
  MaxClients = 2
SYMMETRY Symmetry
INVARIANT
  OneClient
