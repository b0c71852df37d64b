----------------------------- MODULE MCDeviceSet -----------------------------
EXTENDS DeviceSet, TLC

CONSTANTS c1, c2, l1, l2

Loopback == [deferredRemove |-> TRUE, deferredDelete |-> TRUE, thinPoolDevice |-> FALSE, maxDeviceID |-> 2]

\* An ID for each name, or one for the base and one more.
ThreeModes == {Loopback, [Loopback EXCEPT !.maxDeviceID = 1],
               [deferredRemove |-> FALSE, deferredDelete |-> FALSE, thinPoolDevice |-> TRUE, maxDeviceID |-> 2]}

\* A fault and a crash do not happen in the same behaviour, and after either one client is at work at a time.
FewFailures ==
  /\ faults + crashes <= 1 /\ Cardinality(leaked) <= 1
  /\ faults + crashes = 1 => Cardinality({c \in Clients : ~Resting(c)}) <= 1

ClientSymmetry == Permutations(Clients)

=============================================================================
