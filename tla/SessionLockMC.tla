---------------------------- MODULE SessionLockMC ----------------------------
(* The sessions of the instance of SessionLock: three lock clients in one  *)
(* that nobody may take over; two in one where everything may happen.      *)
EXTENDS SessionLock

CONSTANTS a, b, c

MCLocks == {a, b, c}
MCSettings ==
  {[locks |-> MCLocks, relock |-> FALSE, startLocked |-> FALSE, drop |-> FALSE],
   [locks |-> {a, b}, relock |-> TRUE, startLocked |-> TRUE, drop |-> TRUE]}
==============================================================================
