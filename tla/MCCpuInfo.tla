------------------------------ MODULE MCCpuInfo ------------------------------
\* Two threads: one initializes, one comes while it does.
EXTENDS CpuInfo
==============================================================================
