---- MODULE MCOutputStream ----
EXTENDS OutputStream, TLC
CONSTANTS u1, u2
MCClients == {u1, u2}
====
