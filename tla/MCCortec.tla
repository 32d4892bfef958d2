------------------------------ MODULE MCCortec ------------------------------
(* Small instances of Cortec: the configuration module and one or two      *)
(* more, one of which may be registered again as another object.           *)
EXTENDS Cortec

CONSTANTS cfg, db, web, web2

MCNameOf == [m \in Instances |-> IF m = web2 THEN web ELSE m]
MCNames == {cfg, db, web}
MCAppCodes == {-1}
GracefulCodes == {0}

(* An application that loads its modules, disposes them and loads them     *)
(* again.  Signals and uncaught exceptions, which call dispose() as the    *)
(* failing load and the application do, are explored with a single load.   *)
ReloadNext ==
  /\ exit = Running
  /\ \/ \E m \in fresh : Use(m)
     \/ CallLoad
     \/ \E l \in DOMAIN loads : LoadStep(l)
     \/ loads # <<>> /\ \E code \in AppCodes : AppDispose(code)
     \/ \E d \in DOMAIN disposes : DisposeStep(d)

ReloadSpec == Init /\ [][ReloadNext]_vars

=============================================================================
