---- MODULE MCWorkspace ----
EXTENDS Workspace
MCDefinitions == {<<1>>, <<1, 2>>}
====
