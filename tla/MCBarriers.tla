----------------------------- MODULE MCBarriers -----------------------------
EXTENDS Barriers

CONSTANTS t1, t2, t3

\* As many threads as a group has, two or three, for enough rounds to wrap the
\* tickets; and one thread more than a group has.
MCSetups ==
  LET kinds == {"pool", "fast", "ticket"}
  IN [kind : kinds, count : {2}, users : {{t1, t2}}, rounds : {5}]
       \cup [kind : kinds, count : {3}, users : {Threads}, rounds : {3}]
       \cup [kind : kinds, count : {2}, users : {Threads}, rounds : {2}]
=============================================================================
