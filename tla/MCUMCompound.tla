---------------------------- MODULE MCUMCompound ----------------------------
EXTENDS UMCompound

CONSTANTS f1, f2

Instance(names, n, t, s) == [calls |-> names, most |-> n, timers |-> t, schedules |-> s]

Instances == {
  Instance({"select"}, 1, 1, 0),
  Instance({"select"}, 1, 0, 1),
  Instance({"writev"}, 1, 1, 1),
  Instance({"select_single", "futex_wait"}, 1, 1, 0),
  Instance({"select_single", "futex_wait"}, 1, 0, 1),
  Instance({"prep_timeout", "await"}, 2, 0, 1)}
=============================================================================
