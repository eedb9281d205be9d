CONSTANTS
  Nodes = {1, 2, 3, 4, 5, 6, 7, 8}
  IndexedNodes = {1, 2, 3, 4, 5, 6}
SPECIFICATION TreeSpec
INVARIANT HeightBound
