\* A server of three connections, two sessions of others.
SPECIFICATION Spec
CONSTANTS
  MaxConnections = 3
  Asked = {0, 1, 2, 3}
  Sessions = {s1, s2}
INVARIANTS TypeOK NoProcessLeft KilledIsTrue
PROPERTIES Released EndsByItself
