------------------------ MODULE DynamicConfig_proofs ------------------------
(***************************************************************************)
(* Theorems about DynamicConfig, for any configurations and any number of  *)
(* chains and updates.                                                     *)
(***************************************************************************)
EXTENDS DynamicConfig, TLAPS

(* What is on its way to the state was in the document.                    *)
DataStored ==
  /\ doc \in Valid => doc \in stored
  /\ \A c \in Chains :
       chains[c].pc = "read" /\ chains[c].data \in Valid => chains[c].data \in stored
  /\ \A u \in Updates : updates[u].pc = "written" => updates[u].config \in stored

(* Without overlapping calls there is one chain, and dispose() knows its   *)
(* timer.                                                                  *)
LoneChain ==
  alone => \A c \in Chains : chains[c] # Idle =>
    /\ \A e \in Chains : chains[e] # Idle => e = c
    /\ chains[c] = Armed => refreshClear = c

-----------------------------------------------------------------------------
(* The four parts of the invariant, initially.                             *)
LEMMA InitTypes == Init => TypeOK
BY ConfigsAssumption DEF Init, TypeOK, Idle, ChainRecord, UpdateRecord

LEMMA InitParts ==
  Init => DataStored /\ ServesStored /\ RefreshGoesOn /\ LoneChain /\ DisposeStops
<1> SUFFICES ASSUME Init
             PROVE  DataStored /\ ServesStored /\ RefreshGoesOn /\ LoneChain /\ DisposeStops
  OBVIOUS
<1>1. DataStored BY DEF Init, DataStored, Idle
<1>2. ServesStored BY DEF Init, ServesStored
<1>3. RefreshGoesOn BY DEF Init, RefreshGoesOn
<1>4. LoneChain BY DEF Init, LoneChain
<1>5. DisposeStops BY DEF Init, DisposeStops
<1> QED BY <1>1, <1>2, <1>3, <1>4, <1>5

-----------------------------------------------------------------------------
(* Every step keeps the types.                                             *)
LEMMA StepTypes == ASSUME TypeOK, [Next]_vars PROVE TypeOK'
<1> USE ConfigsAssumption
<1>1. ASSUME NEW c \in Chains, Load(c) PROVE TypeOK'
  BY <1>1 DEF Load, Start, TypeOK, module, external, history,
       Idle, Reading, Armed, Callers, ChainRecord, UpdateRecord
<1>2. ASSUME NEW c \in Chains, Refresh(c) PROVE TypeOK'
  BY <1>2 DEF Refresh, Start, TypeOK, module, external, history,
       Idle, Reading, Armed, Callers, ChainRecord, UpdateRecord
<1>3. ASSUME NEW c \in Chains, Fire(c) PROVE TypeOK'
  BY <1>3 DEF Fire, TypeOK, module, external, history,
       Idle, Reading, Armed, Callers, ChainRecord, UpdateRecord
<1>4. ASSUME NEW c \in Chains, Read(c) PROVE TypeOK'
  BY <1>4 DEF Read, TypeOK, module, external, history,
       Idle, Reading, Armed, Callers, ChainRecord, UpdateRecord
<1>5. ASSUME NEW c \in Chains, ReadFails(c) PROVE TypeOK'
  BY <1>5 DEF ReadFails, Fail, TypeOK, module, external, history,
       Idle, Reading, Armed, Callers, ChainRecord, UpdateRecord
<1>6. ASSUME NEW c \in Chains, NotFound(c) PROVE TypeOK'
  BY <1>6 DEF NotFound, TypeOK, module, external, history,
       Idle, Reading, Armed, Callers, ChainRecord, UpdateRecord
<1>7. ASSUME NEW c \in Chains, Refreshed(c) PROVE TypeOK'
  BY <1>7 DEF Refreshed, TypeOK, module, external, history,
       Idle, Reading, Armed, Callers, ChainRecord, UpdateRecord
<1>8. ASSUME NEW c \in Chains, Unparsable(c) PROVE TypeOK'
  BY <1>8 DEF Unparsable, Fail, TypeOK, module, external, history,
       Idle, Reading, Armed, Callers, ChainRecord, UpdateRecord
<1>9. ASSUME NEW u \in Updates, Write(u) PROVE TypeOK'
  BY <1>9 DEF Write, TypeOK, module, external, history,
       Idle, Reading, Armed, Callers, ChainRecord, UpdateRecord
<1>10. ASSUME NEW u \in Updates, WriteFails(u) PROVE TypeOK'
  BY <1>10 DEF WriteFails, TypeOK, module, external, history,
       Idle, Reading, Armed, Callers, ChainRecord, UpdateRecord
<1>11. ASSUME NEW u \in Updates, Updated(u) PROVE TypeOK'
  BY <1>11 DEF Updated, TypeOK, module, external, history,
       Idle, Reading, Armed, Callers, ChainRecord, UpdateRecord
<1>12. ASSUME NEW u \in Updates, NEW config \in Configs, Update(u, config) PROVE TypeOK'
  BY <1>12 DEF Update, TypeOK, module, external, history,
       Idle, Reading, Armed, Callers, ChainRecord, UpdateRecord
<1>13. ASSUME NEW d \in Configs \cup {NoDoc}, Edit(d) PROVE TypeOK'
  BY <1>13 DEF Edit, TypeOK, module, external, history,
       Idle, Reading, Armed, Callers, ChainRecord, UpdateRecord
<1>14. CASE Dispose
  BY <1>14 DEF Dispose, TypeOK, module, external, history,
       Idle, Reading, Armed, Callers, ChainRecord, UpdateRecord
<1>15. CASE UNCHANGED vars
  BY <1>15 DEF vars, TypeOK, module, external, history,
       Idle, Reading, Armed, Callers, ChainRecord, UpdateRecord
<1> QED
  BY <1>1, <1>2, <1>3, <1>4, <1>5, <1>6, <1>7, <1>8, <1>9, <1>10, <1>11, <1>12, <1>13, <1>14,
     <1>15
     DEF Next, ChainStep, UpdateStep

(* What reaches the state comes from the document: a read takes it, a      *)
(* write puts it there first.                                              *)
LEMMA StepStored ==
  ASSUME TypeOK, DataStored, ServesStored, [Next]_vars PROVE DataStored' /\ ServesStored'
<1> USE ConfigsAssumption
<1>1. ASSUME NEW c \in Chains, Load(c) PROVE DataStored' /\ ServesStored'
  BY <1>1 DEF Load, Start, TypeOK, DataStored, ServesStored, module, external,
       history, Idle, Reading, Armed, UpdateRecord
<1>2. ASSUME NEW c \in Chains, Refresh(c) PROVE DataStored' /\ ServesStored'
  BY <1>2 DEF Refresh, Start, TypeOK, DataStored, ServesStored, module, external,
       history, Idle, Reading, Armed, UpdateRecord
<1>3. ASSUME NEW c \in Chains, Fire(c) PROVE DataStored' /\ ServesStored'
  BY <1>3 DEF Fire, TypeOK, DataStored, ServesStored, module, external,
       history, Idle, Reading, Armed, UpdateRecord
<1>4. ASSUME NEW c \in Chains, Read(c) PROVE DataStored' /\ ServesStored'
  BY <1>4 DEF Read, TypeOK, DataStored, ServesStored, module, external,
       history, Idle, Reading, Armed, UpdateRecord
<1>5. ASSUME NEW c \in Chains, ReadFails(c) PROVE DataStored' /\ ServesStored'
  BY <1>5 DEF ReadFails, Fail, TypeOK, DataStored, ServesStored, module, external,
       history, Idle, Reading, Armed, UpdateRecord
<1>6. ASSUME NEW c \in Chains, NotFound(c) PROVE DataStored' /\ ServesStored'
  BY <1>6 DEF NotFound, TypeOK, DataStored, ServesStored, module, external,
       history, Idle, Reading, Armed, UpdateRecord
<1>7. ASSUME NEW c \in Chains, Refreshed(c) PROVE DataStored' /\ ServesStored'
  BY <1>7 DEF Refreshed, TypeOK, DataStored, ServesStored, module, external,
       history, Idle, Reading, Armed, UpdateRecord
<1>8. ASSUME NEW c \in Chains, Unparsable(c) PROVE DataStored' /\ ServesStored'
  BY <1>8 DEF Unparsable, Fail, TypeOK, DataStored, ServesStored, module, external,
       history, Idle, Reading, Armed, UpdateRecord
<1>9. ASSUME NEW u \in Updates, Write(u) PROVE DataStored' /\ ServesStored'
  BY <1>9 DEF Write, TypeOK, DataStored, ServesStored, module, external,
       history, Idle, Reading, Armed, UpdateRecord
<1>10. ASSUME NEW u \in Updates, WriteFails(u) PROVE DataStored' /\ ServesStored'
  BY <1>10 DEF WriteFails, TypeOK, DataStored, ServesStored, module, external,
       history, Idle, Reading, Armed, UpdateRecord
<1>11. ASSUME NEW u \in Updates, Updated(u) PROVE DataStored' /\ ServesStored'
  BY <1>11 DEF Updated, TypeOK, DataStored, ServesStored, module, external,
       history, Idle, Reading, Armed, UpdateRecord
<1>12. ASSUME NEW u \in Updates, NEW config \in Configs, Update(u, config) PROVE DataStored' /\ ServesStored'
  BY <1>12 DEF Update, TypeOK, DataStored, ServesStored, module, external,
       history, Idle, Reading, Armed, UpdateRecord
<1>13. ASSUME NEW d \in Configs \cup {NoDoc}, Edit(d) PROVE DataStored' /\ ServesStored'
  BY <1>13 DEF Edit, TypeOK, DataStored, ServesStored, module, external,
       history, Idle, Reading, Armed, UpdateRecord
<1>14. CASE Dispose
  BY <1>14 DEF Dispose, TypeOK, DataStored, ServesStored, module, external,
       history, Idle, Reading, Armed, UpdateRecord
<1>15. CASE UNCHANGED vars
  BY <1>15 DEF vars, TypeOK, DataStored, ServesStored, module, external,
       history, Idle, Reading, Armed, UpdateRecord
<1> QED
  BY <1>1, <1>2, <1>3, <1>4, <1>5, <1>6, <1>7, <1>8, <1>9, <1>10, <1>11, <1>12, <1>13, <1>14,
     <1>15
     DEF Next, ChainStep, UpdateStep

(* A chain that no application waits for either goes on, or fails, which   *)
(* makes the context dispose or is left to newrelic.                       *)
LEMMA FailGoesOn ==
  ASSUME TypeOK, RefreshGoesOn, NEW c \in Chains, chains[c].pc \in {"reading", "read"}, Fail(c)
  PROVE  RefreshGoesOn'
<1> SUFFICES ASSUME (loaded /\ ~disposed /\ ~ending /\ ~reported)'
             PROVE  (\E e \in Chains : GoesOn(e))'
  BY DEF RefreshGoesOn
<1>1. PICK e \in Chains : GoesOn(e) BY DEF Fail, RefreshGoesOn, TypeOK
<1>2. chains[c].by \notin {"load", "timer"}
  <2>1. ~ending' /\ ~reported' BY Zenon
  <2>2. /\ ending' = (ending \/ chains[c].by = "load" \/ (chains[c].by = "timer" /\ ~newrelic))
        /\ reported' = (reported \/ (chains[c].by = "timer" /\ newrelic))
    BY DEF Fail
  <2> QED BY <2>1, <2>2, Zenon
<1>3. chains[c].by \in Callers BY DEF TypeOK, ChainRecord, Idle, Armed
<1>4. e # c BY <1>1, <1>2, <1>3 DEF GoesOn, Armed, Callers
<1>5. chains'[e] = chains[e] BY <1>4 DEF Fail, TypeOK
<1> QED BY <1>1, <1>5 DEF GoesOn

(* The other steps start chains or move them on.                           *)
LEMMA StepGoesOn == ASSUME TypeOK, RefreshGoesOn, [Next]_vars PROVE RefreshGoesOn'
<1> USE ConfigsAssumption
<1>1. ASSUME NEW c \in Chains, Load(c) PROVE RefreshGoesOn'
  BY <1>1 DEF Load, Start, TypeOK, RefreshGoesOn, GoesOn, module, external,
       history, Idle, Reading, Armed
<1>2. ASSUME NEW c \in Chains, Refresh(c) PROVE RefreshGoesOn'
  BY <1>2 DEF Refresh, Start, TypeOK, RefreshGoesOn, GoesOn, module, external,
       history, Idle, Reading, Armed
<1>3. ASSUME NEW c \in Chains, Fire(c) PROVE RefreshGoesOn'
  BY <1>3 DEF Fire, TypeOK, RefreshGoesOn, GoesOn, module, external,
       history, Idle, Reading, Armed
<1>4. ASSUME NEW c \in Chains, Read(c) PROVE RefreshGoesOn'
  BY <1>4 DEF Read, TypeOK, RefreshGoesOn, GoesOn, module, external,
       history, Idle, Reading, Armed
<1>5. ASSUME NEW c \in Chains, ReadFails(c) PROVE RefreshGoesOn'
  BY <1>5, FailGoesOn DEF ReadFails
<1>6. ASSUME NEW c \in Chains, NotFound(c) PROVE RefreshGoesOn'
  BY <1>6 DEF NotFound, TypeOK, RefreshGoesOn, GoesOn, module, external,
       history, Idle, Reading, Armed
<1>7. ASSUME NEW c \in Chains, Refreshed(c) PROVE RefreshGoesOn'
  BY <1>7 DEF Refreshed, TypeOK, RefreshGoesOn, GoesOn, module, external,
       history, Idle, Reading, Armed
<1>8. ASSUME NEW c \in Chains, Unparsable(c) PROVE RefreshGoesOn'
  BY <1>8, FailGoesOn DEF Unparsable
<1>9. ASSUME NEW u \in Updates, Write(u) PROVE RefreshGoesOn'
  BY <1>9 DEF Write, TypeOK, RefreshGoesOn, GoesOn, module, external,
       history, Idle, Reading, Armed
<1>10. ASSUME NEW u \in Updates, WriteFails(u) PROVE RefreshGoesOn'
  BY <1>10 DEF WriteFails, TypeOK, RefreshGoesOn, GoesOn, module, external,
       history, Idle, Reading, Armed
<1>11. ASSUME NEW u \in Updates, Updated(u) PROVE RefreshGoesOn'
  BY <1>11 DEF Updated, TypeOK, RefreshGoesOn, GoesOn, module, external,
       history, Idle, Reading, Armed
<1>12. ASSUME NEW u \in Updates, NEW config \in Configs, Update(u, config) PROVE RefreshGoesOn'
  BY <1>12 DEF Update, TypeOK, RefreshGoesOn, GoesOn, module, external,
       history, Idle, Reading, Armed
<1>13. ASSUME NEW d \in Configs \cup {NoDoc}, Edit(d) PROVE RefreshGoesOn'
  BY <1>13 DEF Edit, TypeOK, RefreshGoesOn, GoesOn, module, external,
       history, Idle, Reading, Armed
<1>14. CASE Dispose
  BY <1>14 DEF Dispose, TypeOK, RefreshGoesOn, GoesOn, module, external,
       history, Idle, Reading, Armed
<1>15. CASE UNCHANGED vars
  BY <1>15 DEF vars, TypeOK, RefreshGoesOn, GoesOn, module, external,
       history, Idle, Reading, Armed
<1> QED
  BY <1>1, <1>2, <1>3, <1>4, <1>5, <1>6, <1>7, <1>8, <1>9, <1>10, <1>11, <1>12, <1>13, <1>14,
     <1>15
     DEF Next, ChainStep, UpdateStep

(* A refresh that starts beside another ends the premise; every timer that *)
(* is armed is remembered.                                                 *)
LEMMA StepLone == ASSUME TypeOK, LoneChain, [Next]_vars PROVE LoneChain'
<1> USE ConfigsAssumption
<1>1. ASSUME NEW c \in Chains, Load(c) PROVE LoneChain'
  BY <1>1 DEF Load, Start, TypeOK, LoneChain, module, external, history,
       Idle, Reading, Armed
<1>2. ASSUME NEW c \in Chains, Refresh(c) PROVE LoneChain'
  BY <1>2 DEF Refresh, Start, TypeOK, LoneChain, module, external, history,
       Idle, Reading, Armed
<1>3. ASSUME NEW c \in Chains, Fire(c) PROVE LoneChain'
  BY <1>3 DEF Fire, TypeOK, LoneChain, module, external, history,
       Idle, Reading, Armed
<1>4. ASSUME NEW c \in Chains, Read(c) PROVE LoneChain'
  BY <1>4 DEF Read, TypeOK, LoneChain, module, external, history,
       Idle, Reading, Armed
<1>5. ASSUME NEW c \in Chains, ReadFails(c) PROVE LoneChain'
  BY <1>5 DEF ReadFails, Fail, TypeOK, LoneChain, module, external, history,
       Idle, Reading, Armed
<1>6. ASSUME NEW c \in Chains, NotFound(c) PROVE LoneChain'
  BY <1>6 DEF NotFound, TypeOK, LoneChain, module, external, history,
       Idle, Reading, Armed
<1>7. ASSUME NEW c \in Chains, Refreshed(c) PROVE LoneChain'
  BY <1>7 DEF Refreshed, TypeOK, LoneChain, module, external, history,
       Idle, Reading, Armed
<1>8. ASSUME NEW c \in Chains, Unparsable(c) PROVE LoneChain'
  BY <1>8 DEF Unparsable, Fail, TypeOK, LoneChain, module, external, history,
       Idle, Reading, Armed
<1>9. ASSUME NEW u \in Updates, Write(u) PROVE LoneChain'
  BY <1>9 DEF Write, TypeOK, LoneChain, module, external, history,
       Idle, Reading, Armed
<1>10. ASSUME NEW u \in Updates, WriteFails(u) PROVE LoneChain'
  BY <1>10 DEF WriteFails, TypeOK, LoneChain, module, external, history,
       Idle, Reading, Armed
<1>11. ASSUME NEW u \in Updates, Updated(u) PROVE LoneChain'
  BY <1>11 DEF Updated, TypeOK, LoneChain, module, external, history,
       Idle, Reading, Armed
<1>12. ASSUME NEW u \in Updates, NEW config \in Configs, Update(u, config) PROVE LoneChain'
  BY <1>12 DEF Update, TypeOK, LoneChain, module, external, history,
       Idle, Reading, Armed
<1>13. ASSUME NEW d \in Configs \cup {NoDoc}, Edit(d) PROVE LoneChain'
  BY <1>13 DEF Edit, TypeOK, LoneChain, module, external, history,
       Idle, Reading, Armed
<1>14. CASE Dispose
  BY <1>14 DEF Dispose, TypeOK, LoneChain, module, external, history,
       Idle, Reading, Armed
<1>15. CASE UNCHANGED vars
  BY <1>15 DEF vars, TypeOK, LoneChain, module, external, history,
       Idle, Reading, Armed
<1> QED
  BY <1>1, <1>2, <1>3, <1>4, <1>5, <1>6, <1>7, <1>8, <1>9, <1>10, <1>11, <1>12, <1>13, <1>14,
     <1>15
     DEF Next, ChainStep, UpdateStep

(* Only a chain that is in flight, or begun later, is left by dispose() and *)
(* goes on after it.                                                       *)
LEMMA StepStops ==
  ASSUME TypeOK, LoneChain, DisposeStops, [Next]_vars PROVE DisposeStops'
<1> USE ConfigsAssumption
<1>1. ASSUME NEW c \in Chains, Load(c) PROVE DisposeStops'
  BY <1>1 DEF Load, Start, TypeOK, LoneChain, DisposeStops, module, external, history,
       Idle, Reading, Armed, InFlight
<1>2. ASSUME NEW c \in Chains, Refresh(c) PROVE DisposeStops'
  BY <1>2 DEF Refresh, Start, TypeOK, LoneChain, DisposeStops, module, external, history,
       Idle, Reading, Armed, InFlight
<1>3. ASSUME NEW c \in Chains, Fire(c) PROVE DisposeStops'
  BY <1>3 DEF Fire, TypeOK, LoneChain, DisposeStops, module, external, history,
       Idle, Reading, Armed, InFlight
<1>4. ASSUME NEW c \in Chains, Read(c) PROVE DisposeStops'
  BY <1>4 DEF Read, TypeOK, LoneChain, DisposeStops, module, external, history,
       Idle, Reading, Armed, InFlight
<1>5. ASSUME NEW c \in Chains, ReadFails(c) PROVE DisposeStops'
  BY <1>5 DEF ReadFails, Fail, TypeOK, LoneChain, DisposeStops, module, external, history,
       Idle, Reading, Armed, InFlight
<1>6. ASSUME NEW c \in Chains, NotFound(c) PROVE DisposeStops'
  BY <1>6 DEF NotFound, TypeOK, LoneChain, DisposeStops, module, external, history,
       Idle, Reading, Armed, InFlight
<1>7. ASSUME NEW c \in Chains, Refreshed(c) PROVE DisposeStops'
  BY <1>7 DEF Refreshed, TypeOK, LoneChain, DisposeStops, module, external, history,
       Idle, Reading, Armed, InFlight
<1>8. ASSUME NEW c \in Chains, Unparsable(c) PROVE DisposeStops'
  BY <1>8 DEF Unparsable, Fail, TypeOK, LoneChain, DisposeStops, module, external, history,
       Idle, Reading, Armed, InFlight
<1>9. ASSUME NEW u \in Updates, Write(u) PROVE DisposeStops'
  BY <1>9 DEF Write, TypeOK, LoneChain, DisposeStops, module, external, history,
       Idle, Reading, Armed, InFlight
<1>10. ASSUME NEW u \in Updates, WriteFails(u) PROVE DisposeStops'
  BY <1>10 DEF WriteFails, TypeOK, LoneChain, DisposeStops, module, external, history,
       Idle, Reading, Armed, InFlight
<1>11. ASSUME NEW u \in Updates, Updated(u) PROVE DisposeStops'
  BY <1>11 DEF Updated, TypeOK, LoneChain, DisposeStops, module, external, history,
       Idle, Reading, Armed, InFlight
<1>12. ASSUME NEW u \in Updates, NEW config \in Configs, Update(u, config) PROVE DisposeStops'
  BY <1>12 DEF Update, TypeOK, LoneChain, DisposeStops, module, external, history,
       Idle, Reading, Armed, InFlight
<1>13. ASSUME NEW d \in Configs \cup {NoDoc}, Edit(d) PROVE DisposeStops'
  BY <1>13 DEF Edit, TypeOK, LoneChain, DisposeStops, module, external, history,
       Idle, Reading, Armed, InFlight
<1>14. CASE Dispose
  <2> SUFFICES ASSUME alone, NEW c \in Chains, c \notin outlives' PROVE chains'[c] = Idle
    BY <1>14 DEF Dispose, DisposeStops
  <2>1. chains[c].pc \notin {"reading", "read"} BY <1>14 DEF Dispose, InFlight
  <2>2. chains[c] \in {Idle, Armed} BY <2>1 DEF TypeOK, ChainRecord
  <2>3. chains[c] = Armed => refreshClear = c BY DEF LoneChain, Idle, Armed
  <2> QED BY <1>14, <2>2, <2>3 DEF Dispose
<1>15. CASE UNCHANGED vars
  BY <1>15 DEF vars, TypeOK, LoneChain, DisposeStops, module, external, history,
       Idle, Reading, Armed, InFlight
<1> QED
  BY <1>1, <1>2, <1>3, <1>4, <1>5, <1>6, <1>7, <1>8, <1>9, <1>10, <1>11, <1>12, <1>13, <1>14,
     <1>15
     DEF Next, ChainStep, UpdateStep

-----------------------------------------------------------------------------
(* The types hold in every reachable state.                                *)
THEOREM Types == Spec => []TypeOK
<1>1. Init => TypeOK BY InitTypes
<1>2. TypeOK /\ [Next]_vars => TypeOK' BY StepTypes
<1> QED BY <1>1, <1>2, PTL DEF Spec

(* What refresh() leaves in the state is what parsing made of a document   *)
(* there was, and what update() leaves is a document that parses.          *)
THEOREM Served == Spec => []ServesStored
<1> DEFINE IInv == TypeOK /\ DataStored /\ ServesStored
<1>1. Init => IInv BY InitTypes, InitParts
<1>2. IInv /\ [Next]_vars => IInv' BY StepTypes, StepStored
<1>3. IInv => ServesStored OBVIOUS
<1> QED BY <1>1, <1>2, <1>3, PTL DEF Spec

(* Periodic refreshing goes on from load() to dispose(), to a failure that *)
(* makes the context dispose, or to one that newrelic takes.               *)
THEOREM KeepsRefreshing == Spec => []RefreshGoesOn
<1>1. Init => TypeOK /\ RefreshGoesOn BY InitTypes, InitParts
<1>2. TypeOK /\ RefreshGoesOn /\ [Next]_vars => (TypeOK /\ RefreshGoesOn)'
  BY StepTypes, StepGoesOn
<1> QED BY <1>1, <1>2, PTL DEF Spec

(* dispose() of a module whose calls did not overlap leaves a refresh that *)
(* is in flight, and nothing else.                                         *)
THEOREM DisposalStops == Spec => []DisposeStops
<1> DEFINE IInv == TypeOK /\ LoneChain /\ DisposeStops
<1>1. Init => IInv BY InitTypes, InitParts
<1>2. IInv /\ [Next]_vars => IInv' BY StepTypes, StepLone, StepStops
<1>3. IInv => DisposeStops OBVIOUS
<1> QED BY <1>1, <1>2, <1>3, PTL DEF Spec
=============================================================================
