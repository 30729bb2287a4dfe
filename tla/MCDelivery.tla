----------------------------- MODULE MCDelivery -----------------------------
EXTENDS Delivery, TLC
CONSTANTS active, sweep
OneLoop == {sweep}
BothLoops == {active, sweep}
Loops == Permutations(BothLoops)
============================================================================
