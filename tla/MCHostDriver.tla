------------------------------ MODULE MCHostDriver ------------------------------
EXTENDS HostDriver
CONSTANTS p1, p2, d1, s1, s2
================================================================================
