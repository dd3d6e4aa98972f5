------------------------------- MODULE HeapMC -------------------------------
EXTENDS Heap
TheSizes == {16, 32}
TheLimits == {-1, 16}
=============================================================================
