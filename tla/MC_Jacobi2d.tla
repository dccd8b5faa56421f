---------------------------- MODULE MC_Jacobi2d ----------------------------
EXTENDS Jacobi2d
=============================================================================
