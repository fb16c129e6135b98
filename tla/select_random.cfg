\* Every list of up to four sockets, and more winners than sockets; 0 is no number.
SPECIFICATION Spec
CONSTANTS
  Sockets = {s1, s2, s3, s4}
  WinnersCounts = {0, 1, 2, 3, 4, 5}
INVARIANTS WinnersAreDifferent DrawIsFair
CHECK_DEADLOCK FALSE
