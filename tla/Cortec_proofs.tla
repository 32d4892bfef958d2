--------------------------- MODULE Cortec_proofs ---------------------------
(***************************************************************************)
(* Theorems about Cortec for any set of modules, any names, any codes the  *)
(* application passes to dispose() and any number of loads.                *)
(***************************************************************************)
EXTENDS Cortec, SequenceTheorems, TLAPS

(* Replacing one element of a sequence by an element of the same set.      *)
LEMMA ReplaceInSeq ==
  ASSUME NEW S, NEW s \in Seq(S), NEW k \in DOMAIN s, NEW e \in S
  PROVE  /\ [s EXCEPT ![k] = e] \in Seq(S)
         /\ Len([s EXCEPT ![k] = e]) = Len(s)
         /\ DOMAIN [s EXCEPT ![k] = e] = DOMAIN s
  BY ExceptSeq

(* Reverse turns a sequence around.                                        *)
LEMMA ReverseOfSeq ==
  ASSUME NEW S, NEW s \in Seq(S)
  PROVE  /\ Reverse(s) \in Seq(S)
         /\ Len(Reverse(s)) = Len(s)
         /\ \A i \in DOMAIN s : Reverse(s)[i] = s[Len(s) + 1 - i]
  <1> DEFINE r == Reverse(s)
  <1>1. Len(s) \in Nat /\ DOMAIN s = 1..Len(s)
    BY LenProperties
  <1>2. r = [i \in 1..Len(s) |-> s[(Len(s) - i) + 1]]
    BY DEF Reverse
  <1>3. \A i \in 1..Len(s) : (Len(s) - i) + 1 \in 1..Len(s)
    BY <1>1
  <1>4. \A i \in 1..Len(s) : s[(Len(s) - i) + 1] \in S
    BY <1>1, <1>3, ElementOfSeq
  <1>5. r \in [1..Len(s) -> S]
    BY <1>2, <1>4
  <1>6. r \in Seq(S) /\ Len(r) = Len(s)
    BY <1>1, <1>5, SeqDef, LenProperties
  <1>7. \A i \in 1..Len(s) : r[i] = s[Len(s) + 1 - i]
    BY <1>1, <1>2
  <1> QED
    BY <1>1, <1>6, <1>7

(* The calls are records with the fields their types give them.            *)
LEMMA CallRecords ==
  ASSUME TypeOK
  PROVE  /\ \A l \in DOMAIN loads :
              /\ loads[l] \in LoadRecord
              /\ loads[l].snap \in Seq(Instances)
              /\ loads[l].i \in Nat
         /\ \A d \in DOMAIN disposes :
              /\ disposes[d] \in SeriesRecord
              /\ disposes[d].snap \in Seq(Instances)
              /\ disposes[d].i \in Nat
              /\ disposes[d].epoch \in Nat
  <1>1. \A l \in DOMAIN loads : loads[l] \in LoadRecord
    BY ElementOfSeq DEF TypeOK
  <1>2. \A d \in DOMAIN disposes : disposes[d] \in SeriesRecord
    BY ElementOfSeq DEF TypeOK
  <1> QED
    BY <1>1, <1>2 DEF LoadRecord, SeriesRecord

-----------------------------------------------------------------------------
(* The registry stays a sequence of instances when one is registered.      *)
LEMMA UseType ==
  ASSUME TypeOK, NEW m \in fresh, Use(m)
  PROVE  modules' \in Seq(Instances)
  <1>1. m \in Instances /\ modules \in Seq(Instances)
    BY DEF TypeOK
  <1>2. CASE Registered(NameOf[m])
    <2>1. modules' \in [1..Len(modules) -> Instances]
      BY <1>1, <1>2, LenProperties, ElementOfSeq DEF Use
    <2> QED
      BY <2>1, <1>1, LenProperties, SeqDef
  <1>3. CASE ~Registered(NameOf[m])
    BY <1>1, <1>3, AppendProperties DEF Use
  <1> QED
    BY <1>2, <1>3

(* What a call of dispose() adds is a series of disposals.                 *)
LEMMA CallDisposeType ==
  ASSUME TypeOK, NEW code \in AppCodes \cup {0, 1}, NEW quiet \in BOOLEAN,
         CallDispose(code, quiet)
  PROVE  isDisposing' \in BOOLEAN /\ disposes' \in Seq(SeriesRecord)
  <1>1. Len(loads) \in Nat
    BY LenProperties DEF TypeOK
  <1>2. Series(code, quiet) \in SeriesRecord
    BY <1>1, ReverseOfSeq DEF Series, SeriesRecord, TypeOK
  <1>3. CASE isDisposing
    BY <1>3 DEF CallDispose, TypeOK
  <1>4. CASE ~isDisposing
    BY <1>2, <1>4, AppendProperties DEF CallDispose, TypeOK
  <1> QED
    BY <1>3, <1>4

(* A step of a load() keeps the types.                                     *)
LEMMA LoadStepType ==
  ASSUME TypeOK, NEW l \in DOMAIN loads, LoadStep(l)
  PROVE  TypeOK'
  <1>1. /\ loads \in Seq(LoadRecord)
        /\ loads[l] \in LoadRecord
        /\ l \in Nat
    BY ElementOfSeq, LenProperties DEF TypeOK
  <1>2. ASSUME NEW e \in LoadRecord PROVE [loads EXCEPT ![l] = e] \in Seq(LoadRecord)
    BY <1>1, ReplaceInSeq
  <1>3. FailLoad(l) \in Seq(LoadRecord)
    <2>1. [loads[l] EXCEPT !.pc = "resolved", !.failed = TRUE] \in LoadRecord
      BY <1>1 DEF LoadRecord
    <2> QED
      BY <2>1, <1>2 DEF FailLoad
  <1>4. CASE LoadNext(l)
    <2>1. [loads[l] EXCEPT !.pc = "waiting"] \in LoadRecord
      BY <1>1 DEF LoadRecord
    <2>2. loads' \in Seq(LoadRecord)
      BY <2>1, <1>2, <1>4 DEF LoadNext
    <2>3. calls' \subseteq Nat \X Nat
      BY <1>1, <1>4 DEF LoadNext, TypeOK, LoadRecord
    <2> QED
      BY <2>2, <2>3, <1>4 DEF LoadNext, TypeOK
  <1>5. CASE LoadDone(l)
    <2>1. [loads[l] EXCEPT !.pc = "resolved"] \in LoadRecord
      BY <1>1 DEF LoadRecord
    <2>2. loads' \in Seq(LoadRecord)
      BY <2>1, <1>2, <1>5 DEF LoadDone
    <2> QED
      BY <2>2, <1>5 DEF LoadDone, TypeOK
  <1>6. CASE LoadTimeout(l)
    BY <1>3, <1>6, CallDisposeType DEF LoadTimeout, TypeOK
  <1>7. ASSUME NEW i \in DOMAIN loads[l].snap, ModuleLoaded(l, i)
        PROVE TypeOK'
    <2>1. i \in Nat /\ loads[l].snap \in Seq(Instances) /\ loads[l].snap[i] \in Instances
      BY <1>1, ElementOfSeq, LenProperties DEF LoadRecord
    <2>2. i + 1 \in Nat \ {0}
      BY <2>1
    <2>3. [loads[l] EXCEPT !.pc = "next", !.i = i + 1] \in LoadRecord
      BY <1>1, <2>2 DEF LoadRecord
    <2>4. loads' \in Seq(LoadRecord)
      BY <2>3, <1>1, <1>2, <1>7 DEF ModuleLoaded
    <2> QED
      BY <2>1, <2>4, <1>7 DEF ModuleLoaded, TypeOK
  <1>8. ASSUME NEW i \in DOMAIN loads[l].snap, ModuleLoadFails(l, i)
        PROVE TypeOK'
    <2>1. QuietWithout(l, calls') \in BOOLEAN
      BY DEF QuietWithout
    <2> QED
      BY <2>1, <1>3, <1>8, CallDisposeType DEF ModuleLoadFails, TypeOK
  <1> QED
    BY <1>4, <1>5, <1>6, <1>7, <1>8 DEF LoadStep

(* A step of a disposal keeps the types.                                   *)
LEMMA DisposeStepType ==
  ASSUME TypeOK, NEW d \in DOMAIN disposes, DisposeStep(d)
  PROVE  TypeOK'
  <1>1. /\ disposes \in Seq(SeriesRecord)
        /\ disposes[d] \in SeriesRecord
    BY ElementOfSeq DEF TypeOK
  <1>2. ASSUME NEW e \in SeriesRecord PROVE [disposes EXCEPT ![d] = e] \in Seq(SeriesRecord)
    BY <1>1, ReplaceInSeq
  <1>3. Settle(d) => exit' \in {Running} \cup AppCodes \cup {0, 1}
    BY <1>1 DEF Settle, TypeOK, SeriesRecord
  <1>4. CASE DisposeNext(d)
    <2>1. [disposes[d] EXCEPT !.pc = "waiting"] \in SeriesRecord
      BY <1>1 DEF SeriesRecord
    <2>2. disposes' \in Seq(SeriesRecord)
      BY <2>1, <1>2, <1>4 DEF DisposeNext
    <2> QED
      BY <2>2, <1>4 DEF DisposeNext, TypeOK
  <1>5. CASE DisposeSettled(d)
    <2> DEFINE n == disposes[d].i + 1
    <2>1. n \in Nat \ {0}
      BY <1>1 DEF SeriesRecord
    <2> HIDE DEF n
    <2>2. [disposes[d] EXCEPT !.pc = "next", !.i = n] \in SeriesRecord
      BY <1>1, <2>1 DEF SeriesRecord
    <2>3. disposes' \in Seq(SeriesRecord)
      BY <2>2, <1>2, <1>5 DEF DisposeSettled, n
    <2> QED
      BY <2>3, <1>5 DEF DisposeSettled, TypeOK
  <1>6. CASE DisposeThrows(d)
    <2>1. [disposes[d] EXCEPT !.pc = "aborted", !.settled = TRUE] \in SeriesRecord
      BY <1>1 DEF SeriesRecord
    <2>2. disposes' \in Seq(SeriesRecord)
      BY <2>1, <1>2, <1>6 DEF DisposeThrows
    <2> QED
      BY <2>2, <1>3, <1>6 DEF DisposeThrows, TypeOK
  <1>7. CASE DisposeDone(d)
    <2>1. [disposes[d] EXCEPT !.pc = "ended", !.settled = TRUE] \in SeriesRecord
      BY <1>1 DEF SeriesRecord
    <2>2. disposes' \in Seq(SeriesRecord)
      BY <2>1, <1>2, <1>7 DEF DisposeDone
    <2> QED
      BY <2>2, <1>3, <1>7 DEF DisposeDone, TypeOK
  <1>8. CASE DisposeTimeout(d)
    <2>1. [disposes[d] EXCEPT !.settled = TRUE] \in SeriesRecord
      BY <1>1 DEF SeriesRecord
    <2>2. disposes' \in Seq(SeriesRecord)
      BY <2>1, <1>2, <1>8 DEF DisposeTimeout
    <2> QED
      BY <2>2, <1>3, <1>8 DEF DisposeTimeout, TypeOK
  <1> QED
    BY <1>4, <1>5, <1>6, <1>7, <1>8 DEF DisposeStep

(* The type invariant of the context, for every value of the constants.    *)
THEOREM TypeCorrect == Spec => []TypeOK
  <1>1. Init => TypeOK
    <2>1. <<ConfigModule>> \in Seq(Instances)
      BY ConfigAssumption
    <2>2. <<>> \in Seq(LoadRecord) /\ <<>> \in Seq(SeriesRecord)
      OBVIOUS
    <2> QED
      BY <2>1, <2>2, ConfigAssumption DEF Init, TypeOK
  <1>2. TypeOK /\ [Next]_vars => TypeOK'
    <2> SUFFICES ASSUME TypeOK, [Next]_vars PROVE TypeOK'
      OBVIOUS
    <2>1. ASSUME NEW m \in fresh, Use(m) PROVE TypeOK'
      BY <2>1, UseType DEF Use, TypeOK
    <2>2. CASE CallLoad
      <3>1. (\A d \in DOMAIN disposes : SeriesOver(d)) \in BOOLEAN
        OBVIOUS
      <3>2. loads' \in Seq(LoadRecord)
        BY <2>2, <3>1, AppendProperties DEF CallLoad, TypeOK, LoadRecord
      <3> QED
        BY <2>2, <3>2 DEF CallLoad, TypeOK
    <2>3. ASSUME NEW l \in DOMAIN loads, LoadStep(l) PROVE TypeOK'
      BY <2>3, LoadStepType
    <2>4. Quiescent \in BOOLEAN
      BY DEF Quiescent
    <2>5. CASE Signal
      BY <2>4, <2>5, CallDisposeType DEF Signal, TypeOK
    <2>6. CASE Uncaught
      BY <2>4, <2>6, CallDisposeType DEF Uncaught, TypeOK
    <2>7. ASSUME NEW code \in AppCodes, AppDispose(code) PROVE TypeOK'
      BY <2>4, <2>7, CallDisposeType DEF AppDispose, TypeOK
    <2>8. ASSUME NEW d \in DOMAIN disposes, DisposeStep(d) PROVE TypeOK'
      BY <2>8, DisposeStepType
    <2>9. CASE UNCHANGED vars
      BY <2>9 DEF vars, TypeOK
    <2> QED
      BY <2>1, <2>2, <2>3, <2>5, <2>6, <2>7, <2>8, <2>9 DEF Next
  <1> QED
    BY <1>1, <1>2, PTL DEF Spec

-----------------------------------------------------------------------------
(* The guard: counting an open gate as one more disposal, there are at most *)
(* as many as there were loads, and one.                                   *)
Gate == Len(disposes) + (IF isDisposing THEN 0 ELSE 1) <= Len(loads) + 1

LEMMA CallDisposeGate ==
  ASSUME TypeOK, Gate, NEW code, NEW quiet, CallDispose(code, quiet),
         Len(loads') = Len(loads)
  PROVE  Gate'
  <1>1. Len(disposes) \in Nat /\ Len(loads) \in Nat
    BY LenProperties DEF TypeOK
  <1>2. CASE isDisposing
    BY <1>2 DEF CallDispose, Gate
  <1>3. CASE ~isDisposing
    <2>1. Len(disposes') = Len(disposes) + 1
      <3>1. disposes' = Append(disposes, Series(code, quiet))
        BY <1>3 DEF CallDispose
      <3>2. disposes \in Seq(SeriesRecord \cup {Series(code, quiet)})
        BY ElementOfSeq, LenProperties, SeqDef DEF TypeOK
      <3> QED
        BY <3>1, <3>2, AppendProperties
    <2> QED
      BY <1>1, <1>3, <2>1 DEF CallDispose, Gate
  <1> QED
    BY <1>2, <1>3

(* At most one disposal passes the guard for the process, and one more for *)
(* each load.                                                              *)
THEOREM GateHolds == Spec => []OneSeriesPerLoad
  <1>1. Init => Gate
    BY DEF Init, Gate
  <1>2. TypeOK /\ Gate /\ [Next]_vars => Gate'
    <2> SUFFICES ASSUME TypeOK, Gate, [Next]_vars PROVE Gate'
      OBVIOUS
    <2>0. /\ Len(disposes) \in Nat /\ Len(loads) \in Nat
          /\ loads \in Seq(LoadRecord) /\ disposes \in Seq(SeriesRecord)
      BY LenProperties DEF TypeOK
    <2>1. ASSUME NEW m \in fresh, Use(m) PROVE Gate'
      BY <2>1 DEF Use, Gate
    <2>2. CASE CallLoad
      <3>1. (\A d \in DOMAIN disposes : SeriesOver(d)) \in BOOLEAN
        OBVIOUS
      <3>2. Len(loads') = Len(loads) + 1
        BY <2>2, <3>1, AppendProperties DEF CallLoad, TypeOK, LoadRecord
      <3> QED
        BY <2>0, <2>2, <3>2 DEF CallLoad, Gate
    <2>3. ASSUME NEW l \in DOMAIN loads, LoadStep(l) PROVE Gate'
      <3>1. \A e : Len([loads EXCEPT ![l] = e]) = Len(loads)
        BY <2>0
      <3>2. Len(FailLoad(l)) = Len(loads)
        BY <3>1 DEF FailLoad
      <3>3. CASE LoadNext(l) \/ LoadDone(l)
        BY <3>1, <3>3 DEF LoadNext, LoadDone, Gate
      <3>4. CASE LoadTimeout(l)
        BY <3>2, <3>4, CallDisposeGate DEF LoadTimeout
      <3>5. ASSUME NEW i \in DOMAIN loads[l].snap, ModuleLoaded(l, i) PROVE Gate'
        <4>1. Len(loads') = Len(loads)
          BY <3>1, <3>5 DEF ModuleLoaded
        <4> QED
          BY <4>1, <3>5 DEF ModuleLoaded, Gate
      <3>6. ASSUME NEW i \in DOMAIN loads[l].snap, ModuleLoadFails(l, i) PROVE Gate'
        <4>1. CASE Awaited(l, i)
          BY <3>2, <3>6, <4>1, CallDisposeGate DEF ModuleLoadFails
        <4>2. CASE ~Awaited(l, i)
          BY <3>6, <4>2 DEF ModuleLoadFails, Gate
        <4> QED
          BY <4>1, <4>2
      <3> QED
        BY <2>3, <3>3, <3>4, <3>5, <3>6 DEF LoadStep
    <2>4. CASE Signal
      BY <2>4, CallDisposeGate DEF Signal
    <2>5. CASE Uncaught
      BY <2>5, CallDisposeGate DEF Uncaught
    <2>6. ASSUME NEW code \in AppCodes, AppDispose(code) PROVE Gate'
      BY <2>6, CallDisposeGate DEF AppDispose
    <2>7. ASSUME NEW d \in DOMAIN disposes, DisposeStep(d) PROVE Gate'
      <3>1. \A e : Len([disposes EXCEPT ![d] = e]) = Len(disposes)
        BY <2>0
      <3>2. Len(disposes') = Len(disposes) /\ UNCHANGED <<loads, isDisposing>>
        BY <2>7, <3>1 DEF DisposeStep, DisposeNext, DisposeSettled, DisposeThrows,
                          DisposeDone, DisposeTimeout
      <3> QED
        BY <3>2 DEF Gate
    <2>8. CASE UNCHANGED vars
      BY <2>8 DEF vars, Gate
    <2> QED
      BY <2>1, <2>2, <2>3, <2>4, <2>5, <2>6, <2>7, <2>8 DEF Next
  <1>3. TypeOK /\ Gate => OneSeriesPerLoad
    <2>1. TypeOK => Len(disposes) \in Nat /\ Len(loads) \in Nat
      BY LenProperties DEF TypeOK
    <2> QED
      BY <2>1 DEF Gate, OneSeriesPerLoad
  <1> QED
    BY <1>1, <1>2, <1>3, TypeCorrect, PTL DEF Spec

-----------------------------------------------------------------------------
(* The argument for the order of disposal.  An object that was never       *)
(* registered is nowhere else; a registered name has one place; a          *)
(* snapshot mirrors the registry; and what an undisturbed disposal has     *)
(* passed is down and stays down, because no load() is under way.          *)
FreshIsNew ==
  \A m \in fresh :
    /\ m \notin live
    /\ \A k \in DOMAIN modules : modules[k] # m
    /\ \A l \in DOMAIN loads : \A k \in DOMAIN loads[l].snap : loads[l].snap[k] # m
    /\ \A d \in DOMAIN disposes : \A k \in DOMAIN disposes[d].snap : disposes[d].snap[k] # m

NamedOnce == \A j, k \in DOMAIN modules : NameOf[modules[j]] = NameOf[modules[k]] => j = k

MirrorImage ==
  \A d \in DOMAIN disposes :
    \A j \in DOMAIN modules, i \in DOMAIN disposes[d].snap :
      modules[j] = disposes[d].snap[i] => j + i = Len(disposes[d].snap) + 1

LiveIsMirrored ==
  \A d \in DOMAIN disposes : Undisturbed(d) =>
    \A k \in DOMAIN modules : modules[k] \in live =>
      /\ k <= Len(disposes[d].snap)
      /\ disposes[d].snap[Len(disposes[d].snap) + 1 - k] = modules[k]

NothingLoads ==
  \A d \in DOMAIN disposes :
    Undisturbed(d) => calls = {} /\ \A l \in DOMAIN loads : LoadResolved(l)

EpochBound == \A d \in DOMAIN disposes : disposes[d].epoch <= Len(loads)

Swept ==
  \A d \in DOMAIN disposes : Undisturbed(d) =>
    \A j \in DOMAIN disposes[d].snap : j < disposes[d].i => disposes[d].snap[j] \notin live

Position ==
  \A d \in DOMAIN disposes :
    /\ disposes[d].pc = "waiting" => disposes[d].i <= Len(disposes[d].snap)
    /\ disposes[d].pc = "ended" => disposes[d].i > Len(disposes[d].snap)

TeardownInv ==
  FreshIsNew /\ NamedOnce /\ MirrorImage /\ LiveIsMirrored /\ NothingLoads
    /\ EpochBound /\ Swept /\ Position

(* A module that is up has its place in the snapshot, and the places before *)
(* the current one are swept: hence the two properties the runs check.     *)
LEMMA TeardownInvImplies ==
  ASSUME TypeOK, TeardownInv
  PROVE  OrderlyTeardown /\ TeardownComplete
  <1> USE DEF TeardownInv
  <1>1. ASSUME NEW d \in DOMAIN disposes
        PROVE  /\ Len(disposes[d].snap) \in Nat
               /\ DOMAIN disposes[d].snap = 1..Len(disposes[d].snap)
               /\ disposes[d].i \in Nat \ {0}
    <2>1. disposes[d] \in SeriesRecord
      BY ElementOfSeq DEF TypeOK
    <2> QED
      BY <2>1, LenProperties DEF SeriesRecord
  <1>2. Len(modules) \in Nat /\ DOMAIN modules = 1..Len(modules)
    BY LenProperties DEF TypeOK
  <1>3. OrderlyTeardown
    <2> SUFFICES ASSUME NEW d \in DOMAIN disposes, Undisturbed(d), disposes[d].pc = "waiting",
                        NEW j \in DOMAIN modules, NEW k \in DOMAIN modules,
                        modules[j] = disposes[d].snap[disposes[d].i], j < k,
                        modules[k] \in live
                 PROVE  FALSE
      BY DEF OrderlyTeardown
    <2> DEFINE len == Len(disposes[d].snap)
    <2>1. disposes[d].i \in DOMAIN disposes[d].snap
      BY <1>1 DEF Position
    <2>2. j + disposes[d].i = len + 1
      BY <2>1 DEF MirrorImage
    <2>3. k <= len /\ disposes[d].snap[len + 1 - k] = modules[k]
      BY DEF LiveIsMirrored
    <2>4. len + 1 - k \in DOMAIN disposes[d].snap /\ len + 1 - k < disposes[d].i
      BY <1>1, <1>2, <2>2, <2>3
    <2> QED
      BY <2>3, <2>4 DEF Swept
  <1>4. TeardownComplete
    <2> SUFFICES ASSUME NEW d \in DOMAIN disposes, Undisturbed(d), disposes[d].pc = "ended",
                        NEW k \in DOMAIN modules, modules[k] \in live
                 PROVE  FALSE
      BY DEF TeardownComplete, ToSet
    <2> DEFINE len == Len(disposes[d].snap)
    <2>1. k <= len /\ disposes[d].snap[len + 1 - k] = modules[k]
      BY DEF LiveIsMirrored
    <2>2. len + 1 - k \in DOMAIN disposes[d].snap /\ len + 1 - k < disposes[d].i
      BY <1>1, <1>2, <2>1 DEF Position
    <2> QED
      BY <2>1, <2>2 DEF Swept
  <1> QED
    BY <1>3, <1>4

(* A call of dispose() keeps the invariant, if it is right about whether a  *)
(* load is under way.                                                      *)
LEMMA CallDisposeTeardown ==
  ASSUME TypeOK, TeardownInv,
         NEW code, NEW quiet \in BOOLEAN, CallDispose(code, quiet),
         UNCHANGED <<fresh, modules, live>>,
         Len(loads') = Len(loads), DOMAIN loads' = DOMAIN loads,
         \A l \in DOMAIN loads : loads'[l].snap = loads[l].snap,
         quiet \/ (\E d \in DOMAIN disposes : Undisturbed(d)) =>
           calls' = {} /\ \A l \in DOMAIN loads : loads'[l].pc = "resolved"
  PROVE  TeardownInv'
  <1> USE DEF TeardownInv
  <1>0. Len(loads) \in Nat
    BY LenProperties DEF TypeOK
  <1>1. CASE isDisposing
    <2>1. UNCHANGED disposes
      BY <1>1 DEF CallDispose
    <2>2. \A d : Undisturbed(d)' <=> Undisturbed(d)
      BY <2>1 DEF Undisturbed
    <2>3. FreshIsNew' /\ NamedOnce' /\ MirrorImage'
      BY <2>1 DEF FreshIsNew, NamedOnce, MirrorImage
    <2>4. LiveIsMirrored' /\ Swept'
      BY <2>1, <2>2 DEF LiveIsMirrored, Swept
    <2>5. NothingLoads'
      BY <2>1, <2>2 DEF NothingLoads, LoadResolved
    <2>6. EpochBound' /\ Position'
      BY <2>1 DEF EpochBound, Position
    <2> QED
      BY <2>3, <2>4, <2>5, <2>6
  <1>2. CASE ~isDisposing
    <2> DEFINE new == Series(code, quiet)
    <2>0. PICK n : n = Len(disposes) + 1
      OBVIOUS
    <2>1. /\ DOMAIN disposes' = DOMAIN disposes \cup {n}
          /\ \A d \in DOMAIN disposes : disposes'[d] = disposes[d] /\ d # n
          /\ disposes'[n] = new
      <3>1. disposes' = Append(disposes, new)
        BY <1>2 DEF CallDispose
      <3>2. disposes \in Seq(SeriesRecord \cup {new})
        BY ElementOfSeq, LenProperties, SeqDef DEF TypeOK
      <3>3. Len(disposes) \in Nat /\ DOMAIN disposes = 1..Len(disposes)
        BY <3>2, LenProperties
      <3> HIDE DEF new
      <3>4. DOMAIN disposes' = 1..(Len(disposes) + 1)
        BY <3>1, <3>2, AppendProperties, LenProperties
      <3> QED
        BY <2>0, <3>1, <3>2, <3>3, <3>4, AppendProperties
    <2>2. /\ Len(modules) \in Nat
          /\ DOMAIN modules = 1..Len(modules)
          /\ new.snap = Reverse(modules) /\ new.i = 1 /\ new.pc = "next"
          /\ new.quiet = quiet /\ new.epoch = Len(loads)
          /\ Len(new.snap) = Len(modules)
          /\ DOMAIN new.snap = 1..Len(modules)
          /\ \A i \in 1..Len(modules) : new.snap[i] = modules[Len(modules) + 1 - i]
      BY ReverseOfSeq, LenProperties DEF Series, TypeOK
    <2>3. Undisturbed(n)' => quiet
      BY <2>1, <2>2 DEF Undisturbed
    <2>4. \A d \in DOMAIN disposes : Undisturbed(d)' <=> Undisturbed(d)
      BY <2>1 DEF Undisturbed
    <2> HIDE DEF new
    <2>5. FreshIsNew'
      <3> SUFFICES ASSUME NEW m \in fresh
                   PROVE  /\ m \notin live
                          /\ \A k \in DOMAIN modules : modules[k] # m
                          /\ \A l \in DOMAIN loads : \A k \in DOMAIN loads[l].snap :
                               loads[l].snap[k] # m
                          /\ \A d \in DOMAIN disposes' : \A k \in DOMAIN disposes'[d].snap :
                               disposes'[d].snap[k] # m
        BY DEF FreshIsNew
      <3>1. \A k \in 1..Len(modules) : new.snap[k] # m
        <4>1. \A k \in 1..Len(modules) : Len(modules) + 1 - k \in DOMAIN modules
          BY <2>2
        <4> QED
          BY <2>2, <4>1 DEF FreshIsNew
      <3> QED
        BY <2>1, <2>2, <3>1 DEF FreshIsNew
    <2>6. NamedOnce'
      BY DEF NamedOnce
    <2>7. MirrorImage'
      <3>1. ASSUME NEW j \in DOMAIN modules, NEW i \in DOMAIN new.snap, modules[j] = new.snap[i]
            PROVE  j + i = Len(new.snap) + 1
        <4>1. Len(modules) + 1 - i \in DOMAIN modules
          BY <2>2
        <4>2. j = Len(modules) + 1 - i
          BY <2>2, <3>1, <4>1 DEF NamedOnce
        <4> QED
          BY <2>2, <4>2
      <3> QED
        BY <2>1, <3>1 DEF MirrorImage
    <2>8. LiveIsMirrored'
      <3>1. \A k \in DOMAIN modules :
              k <= Len(new.snap) /\ new.snap[Len(new.snap) + 1 - k] = modules[k]
        BY <2>2
      <3> QED
        <4>1. ASSUME NEW d \in DOMAIN disposes', Undisturbed(d)',
                     NEW k \in DOMAIN modules, modules[k] \in live
              PROVE  /\ k <= Len(disposes'[d].snap)
                     /\ disposes'[d].snap[Len(disposes'[d].snap) + 1 - k] = modules[k]
          <5>1. CASE d = n
            BY <2>1, <3>1, <4>1, <5>1
          <5>2. CASE d # n
            BY <2>1, <2>4, <4>1, <5>2 DEF LiveIsMirrored
          <5> QED
            BY <5>1, <5>2
        <4> QED
          BY <4>1 DEF LiveIsMirrored
    <2>9. NothingLoads'
      BY <2>1, <2>3, <2>4 DEF LoadResolved, NothingLoads
    <2>10. EpochBound'
      BY <1>0, <2>1, <2>2 DEF EpochBound
    <2>11. Swept'
      BY <2>1, <2>2, <2>4 DEF Swept
    <2>12. Position'
      BY <2>1, <2>2 DEF Position
    <2> QED
      BY <2>5, <2>6, <2>7, <2>8, <2>9, <2>10, <2>11, <2>12
  <1> QED
    BY <1>1, <1>2

(* Registering an object, in the place of another or at the end.           *)
LEMMA UseTeardown ==
  ASSUME TypeOK, TeardownInv, NEW m \in fresh, Use(m)
  PROVE  TeardownInv'
  <1> USE DEF TeardownInv
  <1>1. UNCHANGED <<isDisposing, loads, calls, disposes, live>> /\ fresh' = fresh \ {m}
    BY DEF Use
  <1>2. /\ m \notin live
        /\ \A k \in DOMAIN modules : modules[k] # m
        /\ \A d \in DOMAIN disposes : \A k \in DOMAIN disposes[d].snap : disposes[d].snap[k] # m
    BY DEF FreshIsNew
  <1>3. \A d : Undisturbed(d)' <=> Undisturbed(d)
    BY <1>1 DEF Undisturbed
  <1>4. NothingLoads' /\ EpochBound' /\ Swept' /\ Position'
    BY <1>1, <1>3 DEF NothingLoads, LoadResolved, EpochBound, Swept, Position
  <1>5. \A k \in DOMAIN modules' :
          modules'[k] = m \/ (k \in DOMAIN modules /\ modules'[k] = modules[k])
    <2>1. CASE Registered(NameOf[m])
      BY <2>1 DEF Use
    <2>2. CASE ~Registered(NameOf[m])
      <3>1. modules' = Append(modules, m) /\ m \in Instances /\ modules \in Seq(Instances)
        BY <2>2 DEF Use, TypeOK
      <3>2. modules' \in Seq(Instances) /\ Len(modules') = Len(modules) + 1
        BY <3>1, AppendProperties
      <3>3. DOMAIN modules' = 1..(Len(modules) + 1) /\ DOMAIN modules = 1..Len(modules)
            /\ Len(modules) \in Nat
        BY <3>1, <3>2, LenProperties
      <3> QED
        BY <3>1, <3>3, AppendProperties
    <2> QED
      BY <2>1, <2>2
  <1>6. FreshIsNew'
    BY <1>1, <1>5 DEF FreshIsNew
  <1>7. MirrorImage'
    BY <1>1, <1>2, <1>5 DEF MirrorImage
  <1>8. LiveIsMirrored'
    BY <1>1, <1>2, <1>3, <1>5 DEF LiveIsMirrored
  <1>9. NamedOnce'
    <2>1. CASE Registered(NameOf[m])
      BY <2>1 DEF Use, NamedOnce
    <2>2. CASE ~Registered(NameOf[m])
      <3>1. modules' = Append(modules, m) /\ m \in Instances /\ modules \in Seq(Instances)
        BY <2>2 DEF Use, TypeOK
      <3>2. modules' \in Seq(Instances) /\ Len(modules') = Len(modules) + 1
        BY <3>1, AppendProperties
      <3>3. DOMAIN modules' = 1..(Len(modules) + 1) /\ DOMAIN modules = 1..Len(modules)
            /\ Len(modules) \in Nat
        BY <3>1, <3>2, LenProperties
      <3>4. \A k \in DOMAIN modules' :
              IF k \in DOMAIN modules
              THEN modules'[k] = modules[k] /\ NameOf[modules[k]] # NameOf[m]
              ELSE modules'[k] = m /\ k = Len(modules) + 1
        BY <2>2, <3>1, <3>3, AppendProperties DEF Registered
      <3> QED
        BY <3>3, <3>4 DEF NamedOnce
    <2> QED
      BY <2>1, <2>2
  <1> QED
    BY <1>4, <1>6, <1>7, <1>8, <1>9

(* A new load() takes the place of the last one: no disposal is            *)
(* undisturbed any more.                                                   *)
LEMMA CallLoadTeardown ==
  ASSUME TypeOK, TeardownInv, CallLoad
  PROVE  TeardownInv'
  <1> USE DEF TeardownInv
  <1>1. UNCHANGED <<fresh, modules, calls, disposes, live>>
    BY DEF CallLoad
  <1>2. /\ Len(loads) \in Nat
        /\ Len(loads') = Len(loads) + 1
        /\ \A l \in DOMAIN loads' :
             \/ l \in DOMAIN loads /\ loads'[l] = loads[l]
             \/ loads'[l].snap = modules
    <2> DEFINE new == [snap |-> modules, i |-> 1, pc |-> "next", failed |-> FALSE,
                       clean |-> \A d \in DOMAIN disposes : SeriesOver(d)]
    <2>1. (\A d \in DOMAIN disposes : SeriesOver(d)) \in BOOLEAN
      OBVIOUS
    <2>2. new \in LoadRecord /\ loads' = Append(loads, new) /\ new.snap = modules
      BY <2>1 DEF CallLoad, TypeOK, LoadRecord
    <2> HIDE DEF new
    <2>3. loads \in Seq(LoadRecord) /\ loads' \in Seq(LoadRecord) /\ Len(loads') = Len(loads) + 1
      BY <2>2, AppendProperties DEF TypeOK
    <2>4. /\ DOMAIN loads' = 1..(Len(loads) + 1) /\ DOMAIN loads = 1..Len(loads)
          /\ Len(loads) \in Nat
      BY <2>3, LenProperties
    <2> QED
      BY <2>2, <2>3, <2>4, AppendProperties
  <1>3. \A d \in DOMAIN disposes : ~Undisturbed(d)'
    <2>1. \A d \in DOMAIN disposes : disposes[d].epoch \in Nat
      BY CallRecords
    <2> QED
      BY <1>1, <1>2, <2>1 DEF Undisturbed, EpochBound
  <1>4. LiveIsMirrored' /\ NothingLoads' /\ Swept'
    BY <1>1, <1>3 DEF LiveIsMirrored, NothingLoads, Swept
  <1>5. EpochBound'
    <2>1. \A d \in DOMAIN disposes : disposes[d].epoch \in Nat
      BY CallRecords
    <2> QED
      BY <1>1, <1>2, <2>1 DEF EpochBound
  <1>6. NamedOnce' /\ MirrorImage' /\ Position'
    BY <1>1 DEF NamedOnce, MirrorImage, Position
  <1>7. FreshIsNew'
    BY <1>1, <1>2 DEF FreshIsNew
  <1> QED
    BY <1>4, <1>5, <1>6, <1>7

(* While a load is under way no disposal is undisturbed, so a step of it   *)
(* can bring a module up.                                                  *)
LEMMA LoadStepTeardown ==
  ASSUME TypeOK, TeardownInv, NEW l \in DOMAIN loads, LoadStep(l)
  PROVE  TeardownInv'
  <1> USE DEF TeardownInv
  <1>1. loads \in Seq(LoadRecord) /\ loads[l] \in LoadRecord
    BY ElementOfSeq DEF TypeOK
  <1>2. /\ DOMAIN FailLoad(l) = DOMAIN loads /\ Len(FailLoad(l)) = Len(loads)
        /\ \A k \in DOMAIN loads : FailLoad(l)[k].snap = loads[k].snap
    BY <1>1 DEF FailLoad, LoadRecord
  <1>3. /\ Len(loads') = Len(loads) /\ DOMAIN loads' = DOMAIN loads
        /\ \A k \in DOMAIN loads : loads'[k].snap = loads[k].snap
        /\ UNCHANGED <<fresh, modules>>
    <2>1. CASE LoadNext(l)
      BY <1>1, <2>1 DEF LoadNext, LoadRecord
    <2>2. CASE LoadDone(l)
      BY <1>1, <2>2 DEF LoadDone, LoadRecord
    <2>3. CASE LoadTimeout(l)
      BY <1>2, <2>3 DEF LoadTimeout
    <2>4. ASSUME NEW i \in DOMAIN loads[l].snap, ModuleLoaded(l, i)
          PROVE  /\ Len(loads') = Len(loads) /\ DOMAIN loads' = DOMAIN loads
                 /\ \A k \in DOMAIN loads : loads'[k].snap = loads[k].snap
                 /\ UNCHANGED <<fresh, modules>>
      BY <1>1, <2>4 DEF ModuleLoaded, LoadRecord
    <2>5. ASSUME NEW i \in DOMAIN loads[l].snap, ModuleLoadFails(l, i)
          PROVE  /\ Len(loads') = Len(loads) /\ DOMAIN loads' = DOMAIN loads
                 /\ \A k \in DOMAIN loads : loads'[k].snap = loads[k].snap
                 /\ UNCHANGED <<fresh, modules>>
      BY <1>2, <2>5 DEF ModuleLoadFails
    <2> QED
      BY <2>1, <2>2, <2>3, <2>4, <2>5 DEF LoadStep
  <1>4. \A d \in DOMAIN disposes : ~Undisturbed(d)
    BY DEF NothingLoads, LoadResolved, LoadStep, LoadNext, LoadDone, LoadTimeout,
           ModuleLoaded, ModuleLoadFails
  <1>5. ASSUME UNCHANGED disposes, \A m \in fresh : m \notin live' PROVE TeardownInv'
    <2>1. \A d \in DOMAIN disposes : ~Undisturbed(d)'
      BY <1>3, <1>4, <1>5 DEF Undisturbed
    <2>2. LiveIsMirrored' /\ NothingLoads' /\ Swept'
      BY <1>5, <2>1 DEF LiveIsMirrored, NothingLoads, Swept
    <2>3. NamedOnce' /\ MirrorImage' /\ Position' /\ EpochBound'
      BY <1>3, <1>5 DEF NamedOnce, MirrorImage, Position, EpochBound
    <2>4. FreshIsNew'
      BY <1>3, <1>5 DEF FreshIsNew
    <2> QED
      BY <2>2, <2>3, <2>4
  <1>6. CASE LoadNext(l) \/ LoadDone(l)
    BY <1>5, <1>6 DEF LoadNext, LoadDone, FreshIsNew
  <1>7. ASSUME NEW i \in DOMAIN loads[l].snap, ModuleLoaded(l, i) PROVE TeardownInv'
    BY <1>5, <1>7 DEF ModuleLoaded, FreshIsNew
  <1>8. CASE LoadTimeout(l)
    <2>1. CallDispose(1, FALSE) /\ UNCHANGED live
      BY <1>8 DEF LoadTimeout
    <2> QED
      BY <1>3, <1>4, <2>1, CallDisposeTeardown
  <1>9. ASSUME NEW i \in DOMAIN loads[l].snap, ModuleLoadFails(l, i) PROVE TeardownInv'
    <2>1. CASE ~Awaited(l, i)
      BY <1>5, <1>9, <2>1 DEF ModuleLoadFails, FreshIsNew
    <2>2. CASE Awaited(l, i)
      <3>1. /\ CallDispose(1, QuietWithout(l, calls')) /\ UNCHANGED live
            /\ loads' = FailLoad(l)
        BY <1>9, <2>2 DEF ModuleLoadFails
      <3>2. /\ loads'[l].pc = "resolved"
            /\ \A k \in DOMAIN loads \ {l} : loads'[k] = loads[k]
        BY <1>1, <3>1 DEF FailLoad, LoadRecord
      <3>3. QuietWithout(l, calls') =>
              calls' = {} /\ \A k \in DOMAIN loads : loads'[k].pc = "resolved"
        BY <3>2 DEF QuietWithout, LoadResolved
      <3>4. QuietWithout(l, calls') \in BOOLEAN
        BY DEF QuietWithout
      <3> QED
        BY <1>3, <1>4, <3>1, <3>3, <3>4, CallDisposeTeardown
    <2> QED
      BY <2>1, <2>2
  <1> QED
    BY <1>6, <1>7, <1>8, <1>9 DEF LoadStep

(* A step of a disposal sweeps the module it waited for, and no other.     *)
LEMMA DisposeStepTeardown ==
  ASSUME TypeOK, TeardownInv, NEW d \in DOMAIN disposes, DisposeStep(d)
  PROVE  TeardownInv'
  <1> USE DEF TeardownInv
  <1>1. /\ disposes \in Seq(SeriesRecord) /\ disposes[d] \in SeriesRecord
        /\ \A e \in DOMAIN disposes : disposes[e].i \in Nat /\ disposes[e].snap \in Seq(Instances)
    BY CallRecords DEF TypeOK
  <1>2. /\ DOMAIN disposes' = DOMAIN disposes
        /\ UNCHANGED <<fresh, modules, loads, calls>>
        /\ live' \subseteq live
        /\ \A e \in DOMAIN disposes :
             /\ disposes'[e].snap = disposes[e].snap
             /\ disposes'[e].quiet = disposes[e].quiet
             /\ disposes'[e].epoch = disposes[e].epoch
             /\ \/ disposes'[e].i = disposes[e].i
                \/ /\ disposes'[e].i = disposes[e].i + 1
                   /\ disposes[e].snap[disposes[e].i] \notin live'
    <2>1. CASE DisposeNext(d)
      BY <1>1, <2>1 DEF DisposeNext, SeriesRecord
    <2>2. CASE DisposeSettled(d)
      BY <1>1, <2>2 DEF DisposeSettled, SeriesRecord
    <2>3. CASE DisposeThrows(d)
      BY <1>1, <2>3 DEF DisposeThrows, SeriesRecord
    <2>4. CASE DisposeDone(d)
      BY <1>1, <2>4 DEF DisposeDone, SeriesRecord
    <2>5. CASE DisposeTimeout(d)
      BY <1>1, <2>5 DEF DisposeTimeout, SeriesRecord
    <2> QED
      BY <2>1, <2>2, <2>3, <2>4, <2>5 DEF DisposeStep
  <1>3. \A e \in DOMAIN disposes : Undisturbed(e)' <=> Undisturbed(e)
    BY <1>2 DEF Undisturbed
  <1>4. FreshIsNew' /\ NamedOnce' /\ MirrorImage' /\ LiveIsMirrored'
    BY <1>2, <1>3 DEF FreshIsNew, NamedOnce, MirrorImage, LiveIsMirrored
  <1>5. NothingLoads' /\ EpochBound'
    BY <1>2, <1>3 DEF NothingLoads, LoadResolved, EpochBound
  <1>6. Swept'
    <2> SUFFICES ASSUME NEW e \in DOMAIN disposes, Undisturbed(e),
                        NEW j \in DOMAIN disposes[e].snap, j < disposes'[e].i
                 PROVE  disposes[e].snap[j] \notin live'
      BY <1>2, <1>3 DEF Swept
    <2>1. j \in Nat
      BY <1>1, LenProperties
    <2>2. j < disposes[e].i \/ (j = disposes[e].i /\ disposes[e].snap[j] \notin live')
      BY <1>1, <1>2, <2>1
    <2> QED
      BY <1>2, <2>2 DEF Swept
  <1>7. Position'
    <2>1. CASE DisposeNext(d)
      BY <1>1, <2>1 DEF DisposeNext, Position, SeriesRecord
    <2>2. CASE DisposeSettled(d)
      BY <1>1, <2>2 DEF DisposeSettled, Position, SeriesRecord
    <2>3. CASE DisposeThrows(d)
      BY <1>1, <2>3 DEF DisposeThrows, Position, SeriesRecord
    <2>4. CASE DisposeDone(d)
      BY <1>1, <2>4 DEF DisposeDone, Position, SeriesRecord
    <2>5. CASE DisposeTimeout(d)
      BY <1>1, <2>5 DEF DisposeTimeout, Position, SeriesRecord
    <2> QED
      BY <2>1, <2>2, <2>3, <2>4, <2>5 DEF DisposeStep
  <1> QED
    BY <1>4, <1>5, <1>6, <1>7

(* An undisturbed disposal goes through the modules in the reverse order   *)
(* of registration, and leaves none of them up when it is through.         *)
THEOREM TeardownCorrect == Spec => []Teardown
  <1>1. Init => TeardownInv
    BY DEF Init, TeardownInv, FreshIsNew, NamedOnce, MirrorImage, LiveIsMirrored, NothingLoads,
           EpochBound, Swept, Position
  <1>2. TypeOK /\ TeardownInv /\ [Next]_vars => TeardownInv'
    <2> SUFFICES ASSUME TypeOK, TeardownInv, [Next]_vars PROVE TeardownInv'
      OBVIOUS
    <2>1. ASSUME NEW m \in fresh, Use(m) PROVE TeardownInv'
      BY <2>1, UseTeardown
    <2>2. CASE CallLoad
      BY <2>2, CallLoadTeardown
    <2>3. ASSUME NEW l \in DOMAIN loads, LoadStep(l) PROVE TeardownInv'
      BY <2>3, LoadStepTeardown
    <2>4. ASSUME NEW code, CallDispose(code, Quiescent),
                 UNCHANGED <<fresh, modules, loads, calls, live>>
          PROVE  TeardownInv'
      <3>1. Quiescent \in BOOLEAN
        BY DEF Quiescent
      <3>2. Quiescent \/ (\E d \in DOMAIN disposes : Undisturbed(d)) =>
              calls' = {} /\ \A l \in DOMAIN loads : loads'[l].pc = "resolved"
        BY <2>4 DEF Quiescent, LoadResolved, TeardownInv, NothingLoads
      <3> QED
        BY <2>4, <3>1, <3>2, CallDisposeTeardown
    <2>5. CASE Signal \/ Uncaught
      BY <2>4, <2>5 DEF Signal, Uncaught
    <2>6. ASSUME NEW code \in AppCodes, AppDispose(code) PROVE TeardownInv'
      BY <2>4, <2>6 DEF AppDispose
    <2>7. ASSUME NEW d \in DOMAIN disposes, DisposeStep(d) PROVE TeardownInv'
      BY <2>7, DisposeStepTeardown
    <2>8. CASE UNCHANGED vars
      BY <2>8 DEF vars, TeardownInv, FreshIsNew, NamedOnce, MirrorImage, LiveIsMirrored,
                  NothingLoads, LoadResolved, EpochBound, Swept, Position, Undisturbed
    <2> QED
      BY <2>1, <2>2, <2>3, <2>5, <2>6, <2>7, <2>8 DEF Next
  <1>3. TypeOK /\ TeardownInv => Teardown
    BY TeardownInvImplies DEF Teardown
  <1> QED
    BY <1>1, <1>2, <1>3, TypeCorrect, PTL DEF Spec

-----------------------------------------------------------------------------
(* Why the latest load() leaves its modules up: while no disposal has been *)
(* asked for since it began, the older ones are over, what it has passed   *)
(* is up, and it resolves only past its last module.                       *)
LatestLoad ==
  \A l \in DOMAIN loads :
    l = Len(loads) /\ loads[l].clean /\ ~isDisposing =>
      /\ \A d \in DOMAIN disposes : SeriesOver(d)
      /\ \A j \in DOMAIN loads[l].snap : j < loads[l].i => loads[l].snap[j] \in live
      /\ loads[l].pc = "resolved" => loads[l].i > Len(loads[l].snap)

(* A step of a load keeps that.                                            *)
LEMMA LoadStepLatest ==
  ASSUME TypeOK, LatestLoad, NEW l \in DOMAIN loads, LoadStep(l)
  PROVE  LatestLoad'
  <1>1. /\ loads \in Seq(LoadRecord) /\ loads[l] \in LoadRecord
        /\ \A k \in DOMAIN loads : loads[k].i \in Nat /\ loads[k].snap \in Seq(Instances)
    BY CallRecords DEF TypeOK
  <1>2. ASSUME NEW quiet, CallDispose(1, quiet) PROVE LatestLoad'
    BY <1>2 DEF CallDispose, LatestLoad
  <1>3. CASE LoadNext(l)
    BY <1>1, <1>3 DEF LoadNext, LatestLoad, LoadRecord, SeriesOver
  <1>4. CASE LoadDone(l)
    BY <1>1, <1>4 DEF LoadDone, LatestLoad, LoadRecord, SeriesOver
  <1>5. CASE LoadTimeout(l)
    BY <1>2, <1>5 DEF LoadTimeout
  <1>6. ASSUME NEW i \in DOMAIN loads[l].snap, ModuleLoaded(l, i) PROVE LatestLoad'
    <2>1. /\ Len(loads') = Len(loads) /\ DOMAIN loads' = DOMAIN loads
          /\ \A k \in DOMAIN loads :
               /\ loads'[k].snap = loads[k].snap /\ loads'[k].clean = loads[k].clean
               /\ \/ loads'[k].i = loads[k].i /\ loads'[k].pc = loads[k].pc
                  \/ /\ k = l /\ loads[k].i = i
                     /\ loads'[k].i = i + 1 /\ loads'[k].pc = "next"
      BY <1>1, <1>6 DEF ModuleLoaded, Awaited, LoadRecord
    <2>2. UNCHANGED <<isDisposing, disposes>> /\ live' = live \cup {loads[l].snap[i]}
      BY <1>6 DEF ModuleLoaded
    <2> SUFFICES ASSUME NEW k \in DOMAIN loads, k = Len(loads), loads[k].clean, ~isDisposing
                 PROVE  /\ \A d \in DOMAIN disposes : SeriesOver(d)
                        /\ \A j \in DOMAIN loads[k].snap :
                             j < loads'[k].i => loads[k].snap[j] \in live'
                        /\ loads'[k].pc = "resolved" => loads'[k].i > Len(loads[k].snap)
      BY <2>1, <2>2 DEF LatestLoad, SeriesOver
    <2>3. \A j \in DOMAIN loads[k].snap : j \in Nat
      BY <1>1, LenProperties
    <2> QED
      BY <1>1, <2>1, <2>2, <2>3 DEF LatestLoad
  <1>7. ASSUME NEW i \in DOMAIN loads[l].snap, ModuleLoadFails(l, i) PROVE LatestLoad'
    BY <1>2, <1>7 DEF ModuleLoadFails, LatestLoad, SeriesOver
  <1> QED
    BY <1>3, <1>4, <1>5, <1>6, <1>7 DEF LoadStep

(* A disposal does not touch it: with the flag down, there is none under   *)
(* way but one that has only its timer left.                               *)
LEMMA DisposeStepLatest ==
  ASSUME TypeOK, LatestLoad, NEW d \in DOMAIN disposes, DisposeStep(d)
  PROVE  LatestLoad'
  <1>1. disposes \in Seq(SeriesRecord) /\ disposes[d] \in SeriesRecord
    BY CallRecords DEF TypeOK
  <1>2. UNCHANGED <<loads, isDisposing>>
    BY DEF DisposeStep, DisposeNext, DisposeSettled, DisposeThrows, DisposeDone, DisposeTimeout
  <1>3. CASE DisposeTimeout(d)
    <2>1. DOMAIN disposes' = DOMAIN disposes
      BY <1>3 DEF DisposeTimeout
    <2>2. \A e \in DOMAIN disposes : disposes'[e].pc = disposes[e].pc
      BY <1>1, <1>3 DEF DisposeTimeout, SeriesRecord
    <2> QED
      BY <1>2, <1>3, <2>1, <2>2 DEF DisposeTimeout, LatestLoad, SeriesOver
  <1>4. CASE ~SeriesOver(d)
    BY <1>2, <1>4 DEF LatestLoad
  <1> QED
    BY <1>3, <1>4 DEF DisposeStep, DisposeNext, DisposeSettled, DisposeThrows, DisposeDone,
                      SeriesOver

(* A load() that no disposal disturbs brings its modules up in order, and  *)
(* has all of them up when it resolves.                                    *)
THEOREM DependenciesCorrect == Spec => []DependenciesUp
  <1>1. Init => LatestLoad
    BY DEF Init, LatestLoad
  <1>2. TypeOK /\ LatestLoad /\ [Next]_vars => LatestLoad'
    <2> SUFFICES ASSUME TypeOK, LatestLoad, [Next]_vars PROVE LatestLoad'
      OBVIOUS
    <2>1. ASSUME NEW m \in fresh, Use(m) PROVE LatestLoad'
      BY <2>1 DEF Use, LatestLoad, SeriesOver
    <2>2. CASE CallLoad
      <3> DEFINE new == [snap |-> modules, i |-> 1, pc |-> "next", failed |-> FALSE,
                         clean |-> \A d \in DOMAIN disposes : SeriesOver(d)]
      <3>1. (\A d \in DOMAIN disposes : SeriesOver(d)) \in BOOLEAN
        OBVIOUS
      <3>2. /\ new \in LoadRecord /\ loads' = Append(loads, new) /\ loads \in Seq(LoadRecord)
            /\ new.i = 1 /\ new.pc = "next" /\ new.snap \in Seq(Instances)
            /\ new.clean => \A d \in DOMAIN disposes : SeriesOver(d)
        BY <2>2, <3>1 DEF CallLoad, TypeOK, LoadRecord
      <3> HIDE DEF new
      <3>3. Len(loads') = Len(loads) + 1 /\ loads'[Len(loads')] = new
        BY <3>2, AppendProperties
      <3>4. \A j \in DOMAIN new.snap : ~(j < 1)
        BY <3>2, LenProperties
      <3>5. UNCHANGED <<disposes, live>>
        BY <2>2 DEF CallLoad
      <3> QED
        BY <3>2, <3>3, <3>4, <3>5 DEF LatestLoad, SeriesOver
    <2>3. ASSUME NEW l \in DOMAIN loads, LoadStep(l) PROVE LatestLoad'
      BY <2>3, LoadStepLatest
    <2>4. ASSUME NEW code, NEW quiet, CallDispose(code, quiet) PROVE isDisposing'
      BY <2>4 DEF CallDispose
    <2>5. CASE Signal \/ Uncaught
      BY <2>4, <2>5 DEF Signal, Uncaught, LatestLoad
    <2>6. ASSUME NEW code \in AppCodes, AppDispose(code) PROVE LatestLoad'
      BY <2>4, <2>6 DEF AppDispose, LatestLoad
    <2>7. ASSUME NEW d \in DOMAIN disposes, DisposeStep(d) PROVE LatestLoad'
      BY <2>7, DisposeStepLatest
    <2>8. CASE UNCHANGED vars
      BY <2>8 DEF vars, LatestLoad, SeriesOver
    <2> QED
      BY <2>1, <2>2, <2>3, <2>5, <2>6, <2>7, <2>8 DEF Next
  <1>3. TypeOK /\ LatestLoad => DependenciesUp
    <2> SUFFICES ASSUME TypeOK, LatestLoad PROVE DependenciesUp
      OBVIOUS
    <2>1. ASSUME NEW l \in DOMAIN loads, loads[l].i > Len(loads[l].snap)
          PROVE  \A j \in DOMAIN loads[l].snap : j < loads[l].i
      BY <2>1, CallRecords, LenProperties
    <2> QED
      BY <2>1 DEF LatestLoad, DependenciesUp, ToSet
  <1> QED
    BY <1>1, <1>2, <1>3, TypeCorrect, PTL DEF Spec

-----------------------------------------------------------------------------
(* A call of dispose() is an accepted request or no request at all.        *)
LEMMA CallDisposeRefines ==
  ASSUME TypeOK, NEW code \in AppCodes \cup {0, 1}, NEW quiet, CallDispose(code, quiet),
         UNCHANGED exit, exit = Running
  PROVE  [Abstract!ANext]_<<~isDisposing, Requests, exit>>
  <1>1. CASE isDisposing
    BY <1>1 DEF CallDispose, Requests
  <1>2. CASE ~isDisposing
    <2> DEFINE new == Series(code, quiet)
    <2>1. disposes' = Append(disposes, new) /\ isDisposing' /\ new.code = code
      BY <1>2 DEF CallDispose, Series
    <2> HIDE DEF new
    <2>2. disposes \in Seq(SeriesRecord \cup {new})
      BY ElementOfSeq, LenProperties, SeqDef DEF TypeOK
    <2>3. /\ DOMAIN disposes' = 1..(Len(disposes) + 1) /\ DOMAIN disposes = 1..Len(disposes)
          /\ Len(disposes) \in Nat
      BY <2>1, <2>2, AppendProperties, LenProperties
    <2>4. Requests' = [d \in 1..(Len(disposes) + 1) |->
                         IF d = Len(disposes) + 1 THEN code ELSE disposes[d].code]
      BY <2>1, <2>2, <2>3, AppendProperties DEF Requests
    <2>5. Requests = [d \in 1..Len(disposes) |-> disposes[d].code]
      BY <2>3 DEF Requests
    <2>6. Len(Requests) = Len(disposes)
      BY <2>3, <2>5
    <2>7. Append(Requests, code) = [d \in 1..(Len(disposes) + 1) |->
                                      IF d = Len(disposes) + 1 THEN code ELSE disposes[d].code]
      BY <2>3, <2>5, <2>6
    <2>8. Abstract!Accept(code)
      BY <1>2, <2>1, <2>4, <2>7 DEF Abstract!Accept
    <2> QED
      BY <2>8 DEF Abstract!ANext, Abstract!NotEnded, Running
  <1> QED
    BY <1>1, <1>2

(* A step of a disposal ends the process with its code, or does nothing    *)
(* that the abstract shutdown sees.                                        *)
LEMMA DisposeStepRefines ==
  ASSUME TypeOK, exit = Running, NEW d \in DOMAIN disposes, DisposeStep(d)
  PROVE  [Abstract!ANext]_<<~isDisposing, Requests, exit>>
  <1>1. /\ disposes \in Seq(SeriesRecord) /\ disposes[d] \in SeriesRecord
        /\ disposes[d].code \in AppCodes \cup {0, 1}
    BY CallRecords DEF TypeOK, SeriesRecord
  <1>2. UNCHANGED isDisposing /\ DOMAIN disposes' = DOMAIN disposes
    BY DEF DisposeStep, DisposeNext, DisposeSettled, DisposeThrows, DisposeDone, DisposeTimeout
  <1>3. \A e \in DOMAIN disposes : disposes'[e].code = disposes[e].code
    <2>1. CASE DisposeNext(d)
      BY <1>1, <2>1 DEF DisposeNext, SeriesRecord
    <2>2. CASE DisposeSettled(d)
      BY <1>1, <2>2 DEF DisposeSettled, SeriesRecord
    <2>3. CASE DisposeThrows(d)
      BY <1>1, <2>3 DEF DisposeThrows, SeriesRecord
    <2>4. CASE DisposeDone(d)
      BY <1>1, <2>4 DEF DisposeDone, SeriesRecord
    <2>5. CASE DisposeTimeout(d)
      BY <1>1, <2>5 DEF DisposeTimeout, SeriesRecord
    <2> QED
      BY <2>1, <2>2, <2>3, <2>4, <2>5 DEF DisposeStep
  <1>4. UNCHANGED Requests
    BY <1>2, <1>3 DEF Requests
  <1>5. exit' = exit \/ (exit' = disposes[d].code /\ disposes[d].code >= 0)
    BY DEF DisposeStep, DisposeNext, DisposeSettled, DisposeThrows, DisposeDone,
           DisposeTimeout, Settle
  <1>6. Requests[d] = disposes[d].code /\ d \in DOMAIN Requests
    BY DEF Requests
  <1>7. CASE exit' # exit
    <2>1. Abstract!End(disposes[d].code)
      BY <1>2, <1>4, <1>5, <1>6, <1>7 DEF Abstract!End
    <2> QED
      BY <1>1, <2>1 DEF Abstract!ANext, Abstract!NotEnded, Running
  <1> QED
    BY <1>2, <1>4, <1>7

(* The context implements the abstract shutdown: the requests that pass    *)
(* the gate, the loads that open it, and the codes the process may end     *)
(* with.                                                                   *)
THEOREM RefinesShutdown == Spec => ImplementsShutdown
  <1> DEFINE mapped == <<~isDisposing, Requests, exit>>
  <1>1. Init => Abstract!AInit
    <2> SUFFICES ASSUME Init PROVE Abstract!AInit
      OBVIOUS
    <2>1. Requests = <<>>
      BY DEF Init, Requests
    <2> QED
      BY <2>1 DEF Init, Abstract!AInit, Abstract!NotEnded, Running
  <1>2. TypeOK /\ [Next]_vars => [Abstract!ANext]_mapped
    <2> SUFFICES ASSUME TypeOK, [Next]_vars PROVE [Abstract!ANext]_mapped
      OBVIOUS
    <2>1. CASE UNCHANGED vars
      BY <2>1 DEF vars, Requests
    <2> SUFFICES ASSUME Next PROVE [Abstract!ANext]_mapped
      BY <2>1
    <2>2. exit = Running
      BY DEF Next
    <2>3. ASSUME NEW m \in fresh, Use(m) PROVE [Abstract!ANext]_mapped
      BY <2>3 DEF Use, Requests
    <2>4. CASE CallLoad
      BY <2>2, <2>4 DEF CallLoad, Requests, Abstract!ANext, Abstract!Reopen, Abstract!NotEnded,
                        Running
    <2>5. ASSUME NEW l \in DOMAIN loads, LoadStep(l) PROVE [Abstract!ANext]_mapped
      <3>1. UNCHANGED exit
        BY <2>5 DEF LoadStep, LoadNext, LoadDone, LoadTimeout, ModuleLoaded, ModuleLoadFails
      <3>2. \/ UNCHANGED <<isDisposing, disposes>>
            \/ \E quiet : CallDispose(1, quiet)
        BY <2>5 DEF LoadStep, LoadNext, LoadDone, LoadTimeout, ModuleLoaded, ModuleLoadFails
      <3>3. CASE UNCHANGED <<isDisposing, disposes>>
        BY <3>1, <3>3 DEF Requests
      <3> QED
        BY <2>2, <3>1, <3>2, <3>3, CallDisposeRefines
    <2>6. CASE Signal \/ Uncaught
      BY <2>2, <2>6, CallDisposeRefines DEF Signal, Uncaught
    <2>7. ASSUME NEW code \in AppCodes, AppDispose(code) PROVE [Abstract!ANext]_mapped
      BY <2>2, <2>7, CallDisposeRefines DEF AppDispose
    <2>8. ASSUME NEW d \in DOMAIN disposes, DisposeStep(d) PROVE [Abstract!ANext]_mapped
      BY <2>2, <2>8, DisposeStepRefines
    <2> QED
      BY <2>3, <2>4, <2>5, <2>6, <2>7, <2>8 DEF Next
  <1> QED
    BY <1>1, <1>2, TypeCorrect, PTL
       DEF Spec, ImplementsShutdown, Abstract!ASpec, Abstract!abstractVars
=============================================================================
