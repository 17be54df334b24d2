------------------------------ MODULE MCCfrac -------------------------------
EXTENDS Cfrac

\* Before the first prime from 5 on a rest above 60 is given up, before the
\* first from 11 on one above 30; from 40 on there is no prime.
Aborts == <<[pval |-> 5, bound |-> 60], [pval |-> 11, bound |-> 30], [pval |-> 40, bound |-> 1]>>
=============================================================================
