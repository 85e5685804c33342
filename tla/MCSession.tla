---- MODULE MCSession ----
EXTENDS Session, TLC
CONSTANTS s1, s2, h1, h2
MCSessions == {s1, s2}
MCHandles == {h1, h2}
====
