----------------------------- MODULE MCReloadServer ----------------------------
EXTENDS ReloadServer

\* The paths and the configs are interchangeable, so that it is enough to start
\* with one path and one config of the many.
MCInit ==
  /\ ReloadServerInit
  /\ path = CHOOSE p \in Paths : TRUE
  /\ config = CHOOSE c \in Configs : TRUE

MCSpec == MCInit /\ [][ReloadServerNext]_reloadServerVars /\ ReloadServerFairness
===============================================================================
