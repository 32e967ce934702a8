------------------------------ MODULE MCBeacon ------------------------------
\* Three nodes heard by another: what the erase loop does with one, two and
\* three neighbours to erase at a time.  Events of the same instant run in the
\* order of addresses: node 2 ages its table after the beacon of 1 and
\* before those of 3 and 4.
EXTENDS BeaconingMac

TheNodes == {1, 2, 3, 4}
TheLinks == {<<1, 2>>, <<3, 2>>, <<4, 2>>}
=============================================================================
