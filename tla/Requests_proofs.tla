-------------------------- MODULE Requests_proofs ---------------------------
(***************************************************************************)
(* Theorems about Axios, for any calls, services, flags and numOfAttempts; *)
(* then that the composition of the pipeline and the service calls keeps   *)
(* what each of the two promises: its steps are theirs.                    *)
(***************************************************************************)
EXTENDS Requests, Polka_proofs, TLAPS

Active == {"delayed", "sent", "replied"}

(* A call that waits for its next attempt has been answered with a 5xx for *)
(* each attempt it made, and may make one more.                            *)
Budget(k, loaded) ==
  /\ Len(k.carried) <= 1 + k.faults
  /\ Len(k.carried) <= MaxAttempts
  /\ "NoRetry" \in k.flags \/ ~loaded => Len(k.carried) <= 1
  /\ k.pc = "idle" => k.carried = <<>>
  /\ k.pc = "delayed" => /\ loaded
                         /\ Len(k.carried) <= k.faults
                         /\ Len(k.carried) < MaxAttempts
                         /\ "NoRetry" \in k.flags => k.carried = <<>>
  /\ k.pc = "replied" /\ k.reply >= 500 => Len(k.carried) <= k.faults

(* Only the catch behind the last attempt notices. *)
Noticed(k, loaded) ==
  k.noticed = IF /\ k.pc = "rejected" /\ loaded
                 /\ \/ k.reply >= 500
                    \/ k.reply \in 400 .. 499 /\ "Ignore4XX" \notin k.flags
              THEN 1 ELSE 0

(* A call that nobody crossed finds its own trace in the defaults. *)
Own(k) == \A n \in DOMAIN k.carried : k.carried[n] = k.own

Header(k, loaded, headers) ==
  /\ k.pc \in Active => k.service \in Range(Services)
  /\ k.pc = "idle" => k.own = NoTrace
  /\ k.own # NoTrace /\ (~loaded \/ ~k.crossed) => Own(k)
  /\ k.pc \in Active /\ k.own # NoTrace /\ ~k.crossed => headers[k.service] = k.own

CallOK(k, loaded, headers) ==
  Budget(k, loaded) /\ Noticed(k, loaded) /\ Header(k, loaded, headers)

AxiosInv ==
  /\ AxiosTypeOK
  /\ \A c \in Calls : CallOK(call[c], nr, defaults)

-----------------------------------------------------------------------------
LEMMA CallFields ==
  ASSUME NEW k \in CallRecord
  PROVE  /\ Len(k.carried) \in Nat /\ k.faults \in Nat /\ k.noticed \in Nat
         /\ k.reply \in Replies /\ k.crossed \in BOOLEAN
         /\ k.carried = <<>> => Len(k.carried) = 0
<1> DEFINE T == Traces \cup {NoTrace}
<1>1. /\ k.carried \in Seq(T) /\ k.faults \in Nat /\ k.noticed \in Nat
      /\ k.reply \in Replies /\ k.crossed \in BOOLEAN
  BY DEF CallRecord
<1> HIDE DEF T
<1>2. Len(k.carried) \in Nat BY <1>1
<1> QED BY <1>1, <1>2

(* The type of a call, with the sets that no proof has to look into named. *)
Names == Range(Services) \cup {""}
FlagSets == Flags \cup {{}}
Headers == Traces \cup {NoTrace}
Carried == Seq(Headers)

LEMMA CallRecordIs ==
  CallRecord =
    [pc : {"idle", "delayed", "sent", "replied", "fulfilled", "rejected"},
     service : Names, flags : FlagSets, own : Headers, carried : Carried,
     reply : Replies, faults : Nat, noticed : Nat, crossed : BOOLEAN]
BY DEF CallRecord, Names, FlagSets, Headers, Carried

(* An attempt: one more header is carried, the one of the defaults.        *)
LEMMA TransmittedFields ==
  ASSUME NEW k \in CallRecord, NEW header \in Traces \cup {NoTrace}
  PROVE  LET x == Transmitted(k, header) IN
         /\ x \in CallRecord /\ x.pc = "sent" /\ x.carried = Append(k.carried, header)
         /\ Len(x.carried) = Len(k.carried) + 1
         /\ x.service = k.service /\ x.flags = k.flags /\ x.own = k.own /\ x.reply = k.reply
         /\ x.faults = k.faults /\ x.noticed = k.noticed /\ x.crossed = k.crossed
<1> DEFINE T == Traces \cup {NoTrace}
           x == Transmitted(k, header)
<1>1. k.carried \in Seq(T) /\ header \in T BY DEF CallRecord
<1>2. Append(k.carried, header) \in Seq(T) /\ Len(Append(k.carried, header)) = Len(k.carried) + 1
  <2> HIDE DEF T
  <2> QED BY <1>1
<1>3. x = [k EXCEPT !.pc = "sent", !.carried = Append(k.carried, header)]
  BY DEF Transmitted
<1>4. x.carried = Append(k.carried, header) BY <1>3 DEF CallRecord
<1>5. x \in CallRecord BY <1>2, <1>3 DEF CallRecord
<1>6. /\ x.pc = "sent" /\ x.service = k.service /\ x.flags = k.flags /\ x.own = k.own
      /\ x.reply = k.reply /\ x.faults = k.faults /\ x.noticed = k.noticed
      /\ x.crossed = k.crossed
  BY <1>3 DEF CallRecord
<1> QED BY <1>2, <1>4, <1>5, <1>6

LEMMA TransmittedOwn ==
  ASSUME NEW k \in CallRecord, Own(k)
  PROVE  Own(Transmitted(k, k.own))
<1> DEFINE x == Transmitted(k, k.own)
<1>1. k.own \in Traces \cup {NoTrace} /\ k.carried \in Seq(Traces \cup {NoTrace})
  BY DEF CallRecord
<1>2. x.carried = Append(k.carried, k.own) /\ x.own = k.own BY <1>1, TransmittedFields
<1> HIDE DEF x
<1>3. Own(x) BY <1>1, <1>2 DEF Own
<1> QED BY <1>3 DEF x

(* Whatever changes one call only, and not the defaults. *)
LEMMA OneCall ==
  ASSUME AxiosInv, NEW c \in Calls, NEW x \in CallRecord,
         call' = [call EXCEPT ![c] = x], UNCHANGED <<nr, loadState, instances, defaults>>,
         CallOK(x, nr, defaults)
  PROVE  AxiosInv'
<1>1. AxiosTypeOK' BY DEF AxiosInv, AxiosTypeOK
<1>2. ASSUME NEW d \in Calls
      PROVE  CallOK(call'[d], nr', defaults')
  <2>1. call'[d] = IF d = c THEN x ELSE call[d] BY DEF AxiosInv, AxiosTypeOK
  <2> QED BY <2>1 DEF AxiosInv
<1> QED BY <1>1, <1>2 DEF AxiosInv

-----------------------------------------------------------------------------
(* A new call writes its trace into the defaults it shares.                *)
LEMMA RequestPreserves ==
  ASSUME AxiosInv, NEW c \in Calls, NEW s \in Range(Services),
         NEW trace \in Traces \cup {NoTrace}, NEW flags \in Flags, Request(c, s, trace, flags)
  PROVE  AxiosInv'
<1> DEFINE header == IF trace = NoTrace THEN defaults[s] ELSE trace
           new == [NewCall EXCEPT !.service = s, !.flags = flags, !.own = trace]
           x == IF nr THEN [new EXCEPT !.pc = "delayed"] ELSE Transmitted(new, header)
           others == IF trace = NoTrace THEN call ELSE CrossedBy(c, s)
<1>1. /\ new \in CallRecord /\ new.carried = <<>> /\ new.own = trace /\ new.service = s
      /\ new.faults = 0 /\ new.noticed = 0 /\ ~new.crossed /\ new.flags = flags
      /\ new.reply = NoResponse
  <2>1. NewCall \in CallRecord BY DEF NewCall, CallRecord, Replies, NoResponse
  <2>2. flags \in Flags \cup {{}} /\ s \in Range(Services) \cup {""} OBVIOUS
  <2> QED BY <2>1, <2>2 DEF NewCall, CallRecord
<1>2. /\ call' = [others EXCEPT ![c] = x]
      /\ defaults' = [defaults EXCEPT ![s] = header]
      /\ UNCHANGED <<nr, loadState, instances>>
      /\ call[c].pc = "idle"
  BY Zenon DEF Request
<1>3. header \in Traces \cup {NoTrace} /\ (trace # NoTrace => header = trace)
  BY DEF AxiosInv, AxiosTypeOK
<1>4. /\ x \in CallRecord /\ x.pc \in {"delayed", "sent"} /\ x.own = trace /\ x.service = s
      /\ x.faults = 0 /\ x.noticed = 0 /\ ~x.crossed /\ x.flags = flags
      /\ x.pc = "delayed" => nr /\ x.carried = <<>>
      /\ x.pc = "sent" => ~nr /\ x.carried = <<header>>
  <2> HIDE DEF new, header
  <2>1. CASE nr BY <1>1, <2>1 DEF CallRecord
  <2>2. CASE ~nr
    <3>1. x = Transmitted(new, header) BY <2>2
    <3>2. Append(<<>>, header) = <<header>> BY <1>3
    <3> QED BY <1>1, <1>3, <2>2, <3>1, <3>2, TransmittedFields
  <2> QED BY <2>1, <2>2
<1>5. ASSUME NEW d \in Calls, d # c
      PROVE  \/ others[d] = call[d]
             \/ trace # NoTrace /\ others[d] = [call[d] EXCEPT !.crossed = TRUE]
  BY <1>5 DEF CrossedBy
<1>6. ASSUME NEW d \in Calls, d # c, trace # NoTrace, call[d].service = s, call[d].pc \in Active
      PROVE  others[d].crossed
  BY <1>6 DEF CrossedBy, Active, AxiosInv, AxiosTypeOK, CallRecord
<1>7. others = [d \in Calls |-> others[d]]
  BY DEF CrossedBy, AxiosInv, AxiosTypeOK
<1>8. call[c] \in CallRecord /\ \A d \in Calls : call[d] \in CallRecord
  BY DEF AxiosInv, AxiosTypeOK
<1>9. defaults \in [Range(Services) -> Traces \cup {NoTrace}] BY DEF AxiosInv, AxiosTypeOK
<1> HIDE DEF header, new, x, others
<1>10. \A d \in Calls : call'[d] = IF d = c THEN x ELSE others[d] BY <1>2, <1>7
<1>11. CallOK(call'[c], nr', defaults')
  <2>1. call'[c] = x BY <1>10
  <2>2. Budget(x, nr')
    <3>1. Len(<<>>) = 0 /\ Len(<<header>>) = 1 /\ MaxAttempts \in Nat \ {0}
      BY AxiosAssumption
    <3>2. CASE x.pc = "delayed"
      <4>1. x.carried = <<>> /\ x.faults = 0 /\ nr /\ nr' = nr BY <1>2, <1>4, <3>2
      <4> QED BY <3>1, <3>2, <4>1 DEF Budget
    <3>3. CASE x.pc = "sent"
      <4>1. x.carried = <<header>> /\ x.faults = 0 BY <1>4, <3>3
      <4> QED BY <3>1, <3>3, <4>1 DEF Budget
    <3> QED BY <1>4, <3>2, <3>3
  <2>3. Noticed(x, nr') BY <1>2, <1>4 DEF Noticed
  <2>4. (Own(x) /\ x.own = trace) \/ trace = NoTrace BY <1>3, <1>4 DEF Own
  <2>5. defaults'[s] = header BY <1>2, <1>9
  <2>6. Header(x, nr', defaults') BY <1>2, <1>3, <1>4, <2>4, <2>5 DEF Header
  <2> QED BY <2>1, <2>2, <2>3, <2>6 DEF CallOK
<1>12. ASSUME NEW d \in Calls, d # c
       PROVE  /\ CallOK(call'[d], nr', defaults')
              /\ call'[d] \in CallRecord
  <2> DEFINE k == call[d]
             y == others[d]
  <2>1. call'[d] = y BY <1>10, <1>12
  <2>2. Budget(k, nr) /\ Noticed(k, nr) /\ Header(k, nr, defaults)
    BY DEF AxiosInv, CallOK
  <2>3. /\ y \in CallRecord /\ y.pc = k.pc /\ y.service = k.service /\ y.flags = k.flags
        /\ y.own = k.own /\ y.carried = k.carried /\ y.reply = k.reply /\ y.faults = k.faults
        /\ y.noticed = k.noticed /\ (y.crossed = k.crossed \/ y.crossed)
    <3>1. CASE y = k BY <1>8, <3>1
    <3>2. CASE y = [k EXCEPT !.crossed = TRUE] BY <1>8, <3>2 DEF CallRecord
    <3> QED BY <1>5, <1>12, <3>1, <3>2
  <2>4. k.pc \in Active /\ k.service = s /\ trace # NoTrace => y.crossed BY <1>6, <1>12
  <2>5. k.pc \in Active =>
          defaults'[k.service] = IF k.service = s THEN header ELSE defaults[k.service]
    BY <1>2, <1>9, <2>2 DEF Header
  <2>6. trace = NoTrace => header = defaults[s] BY DEF header
  <2> HIDE DEF k, y
  <2>7. Budget(y, nr') /\ Noticed(y, nr') BY <1>2, <2>2, <2>3 DEF Budget, Noticed
  <2>8. Header(y, nr', defaults')
    BY <1>2, <2>2, <2>3, <2>4, <2>5, <2>6 DEF Header, Own
  <2> QED BY <2>1, <2>3, <2>7, <2>8 DEF CallOK
<1>13. AxiosTypeOK'
  <2>1. call' = [d \in Calls |-> call'[d]] BY <1>2, <1>7
  <2>2. \A d \in Calls : call'[d] \in CallRecord BY <1>4, <1>10, <1>12
  <2>3. call' \in [Calls -> CallRecord] BY <2>1, <2>2
  <2>4. defaults' \in [Range(Services) -> Traces \cup {NoTrace}] BY <1>2, <1>3, <1>9
  <2> QED BY <1>2, <2>3, <2>4 DEF AxiosInv, AxiosTypeOK
<1> QED BY <1>11, <1>12, <1>13 DEF AxiosInv

-----------------------------------------------------------------------------
(* The steps of a call that exists change that call only.                  *)
LEMMA AttemptPreserves ==
  ASSUME AxiosInv, NEW c \in Calls, Attempt(c)
  PROVE  AxiosInv'
<1> DEFINE k == call[c]
           header == defaults[k.service]
           x == Transmitted(k, header)
<1>1. k \in CallRecord /\ Budget(k, nr) /\ Noticed(k, nr) /\ Header(k, nr, defaults)
  BY DEF AxiosInv, AxiosTypeOK, CallOK
<1>2. k.pc = "delayed" /\ call' = [call EXCEPT ![c] = x]
      /\ UNCHANGED <<nr, loadState, instances, defaults>>
  BY DEF Attempt
<1>3. header \in Traces \cup {NoTrace}
  BY <1>1, <1>2 DEF Header, Active, AxiosInv, AxiosTypeOK
<1>4. k.own # NoTrace /\ ~k.crossed => header = k.own
  BY <1>1, <1>2 DEF Header, Active
<1>5. k.own # NoTrace /\ ~k.crossed => Own(x)
  BY <1>1, <1>4, TransmittedOwn DEF Header
<1> HIDE DEF header
<1>6. /\ x \in CallRecord /\ x.pc = "sent" /\ Len(x.carried) = Len(k.carried) + 1
      /\ x.service = k.service /\ x.flags = k.flags /\ x.own = k.own /\ x.reply = k.reply
      /\ x.faults = k.faults /\ x.noticed = k.noticed /\ x.crossed = k.crossed
  BY <1>1, <1>3, TransmittedFields
<1>7. /\ Len(k.carried) \in Nat /\ k.faults \in Nat /\ MaxAttempts \in Nat
      /\ k.carried = <<>> => Len(k.carried) = 0
  BY <1>1, AxiosAssumption, CallFields
<1> HIDE DEF k, x
<1>8. Budget(x, nr) BY <1>1, <1>2, <1>6, <1>7 DEF Budget
<1>9. Noticed(x, nr) BY <1>1, <1>2, <1>6 DEF Noticed
<1>10. Header(x, nr, defaults)
  BY <1>1, <1>2, <1>5, <1>6 DEF Header, Budget, Active
<1> QED BY <1>2, <1>6, <1>8, <1>9, <1>10, OneCall DEF CallOK

LEMMA ReplyPreserves ==
  ASSUME AxiosInv, NEW c \in Calls, NEW reply \in Replies, Reply(c, reply)
  PROVE  AxiosInv'
<1> DEFINE k == call[c]
           faults == k.faults + (IF reply >= 500 THEN 1 ELSE 0)
           x == [k EXCEPT !.pc = "replied", !.reply = reply, !.faults = faults]
<1>1. k \in CallRecord /\ Budget(k, nr) /\ Noticed(k, nr) /\ Header(k, nr, defaults)
  BY DEF AxiosInv, AxiosTypeOK, CallOK
<1>2. k.pc = "sent" /\ UNCHANGED <<nr, loadState, instances, defaults>> BY DEF Reply
<1>3. call' = [call EXCEPT ![c] = x]
  BY DEF Reply, AxiosInv, AxiosTypeOK
<1>4. /\ Len(k.carried) \in Nat /\ k.faults \in Nat /\ faults \in Nat /\ k.faults <= faults
      /\ reply >= 500 => faults = k.faults + 1
  BY <1>1, CallFields
<1> HIDE DEF faults
<1>5. /\ x \in CallRecord /\ x.pc = "replied" /\ x.reply = reply /\ x.faults = faults
      /\ x.carried = k.carried /\ x.service = k.service /\ x.flags = k.flags
      /\ x.own = k.own /\ x.noticed = k.noticed /\ x.crossed = k.crossed
  BY <1>1, <1>4, CallRecordIs
<1> HIDE DEF k, x
<1>6. Budget(x, nr) BY <1>1, <1>2, <1>4, <1>5 DEF Budget
<1>7. Noticed(x, nr) BY <1>1, <1>2, <1>5 DEF Noticed
<1>8. Header(x, nr, defaults) BY <1>1, <1>2, <1>5 DEF Header, Own, Active
<1> QED BY <1>2, <1>3, <1>5, <1>6, <1>7, <1>8, OneCall DEF CallOK

(* A call that has its reply goes on to pc, noticed or not.                 *)
Settled(k, pc, more, y) ==
  \/ more = 0 /\ y = [k EXCEPT !.pc = pc]
  \/ y = [k EXCEPT !.pc = pc, !.noticed = @ + more]

LEMMA SettledFields ==
  ASSUME NEW k \in CallRecord, k.noticed = 0, NEW pc \in {"fulfilled", "delayed", "rejected"},
         NEW more \in {0, 1}, NEW y, Settled(k, pc, more, y)
  PROVE  /\ y \in CallRecord /\ y.pc = pc /\ y.noticed = more /\ y.carried = k.carried
         /\ y.service = k.service /\ y.flags = k.flags /\ y.own = k.own
         /\ y.reply = k.reply /\ y.faults = k.faults /\ y.crossed = k.crossed
<1>1. CASE more = 0 /\ y = [k EXCEPT !.pc = pc] BY <1>1, CallRecordIs
<1>2. CASE y = [k EXCEPT !.pc = pc, !.noticed = @ + more]
  <2>1. k.noticed + more = more /\ more \in Nat OBVIOUS
  <2>2. y = [k EXCEPT !.pc = pc, !.noticed = k.noticed + more] BY <1>2, CallRecordIs
  <2>3. y = [k EXCEPT !.pc = pc, !.noticed = more] BY <2>1, <2>2
  <2> QED BY <2>1, <2>3, CallRecordIs
<1> QED BY <1>1, <1>2 DEF Settled

LEMMA SettlePreserves ==
  ASSUME AxiosInv, NEW c \in Calls, Fulfil(c) \/ Retry(c) \/ Reject(c)
  PROVE  AxiosInv'
<1> DEFINE k == call[c]
           y == call'[c]
<1>1. k \in CallRecord /\ Budget(k, nr) /\ Noticed(k, nr) /\ Header(k, nr, defaults)
  BY DEF AxiosInv, AxiosTypeOK, CallOK
<1>2. k.pc = "replied" /\ UNCHANGED <<nr, loadState, instances, defaults>>
  BY DEF Fulfil, Retry, Reject
<1>3. k.noticed = 0 /\ Len(k.carried) \in Nat /\ k.reply \in Replies
  BY <1>1, <1>2, CallFields DEF Noticed
<1>4. /\ call' = [call EXCEPT ![c] = y]
      /\ \/ Fulfil(c) /\ y = [k EXCEPT !.pc = "fulfilled"]
         \/ Retry(c) /\ y = [k EXCEPT !.pc = "delayed"]
         \/ Reject(c) /\ y = [k EXCEPT !.pc = "rejected",
                                      !.noticed = @ + (IF Notices(k) THEN 1 ELSE 0)]
  <2>1. CASE Fulfil(c) BY <2>1 DEF Fulfil, AxiosInv, AxiosTypeOK
  <2>2. CASE Retry(c) BY <2>2 DEF Retry, AxiosInv, AxiosTypeOK
  <2>3. CASE Reject(c) BY <2>3 DEF Reject, AxiosInv, AxiosTypeOK
  <2> QED BY <2>1, <2>2, <2>3
<1> HIDE DEF k, y
<1>5. PICK pc \in {"fulfilled", "delayed", "rejected"}, more \in {0, 1} :
        /\ Settled(k, pc, more, y)
        /\ pc = "delayed" => more = 0 /\ Retries(k)
        /\ pc = "fulfilled" => more = 0
        /\ pc = "rejected" => more = IF Notices(k) THEN 1 ELSE 0
  <2>1. CASE Fulfil(c) /\ y = [k EXCEPT !.pc = "fulfilled"]
    BY <2>1 DEF Settled
  <2>2. CASE Retry(c) /\ y = [k EXCEPT !.pc = "delayed"]
    BY <2>2 DEF Retry, Settled, k
  <2>3. CASE y = [k EXCEPT !.pc = "rejected",
                           !.noticed = @ + (IF Notices(k) THEN 1 ELSE 0)]
    <3> DEFINE more == IF Notices(k) THEN 1 ELSE 0
    <3>1. more \in {0, 1} OBVIOUS
    <3>2. Settled(k, "rejected", more, y) BY <2>3 DEF Settled
    <3> QED BY <3>1, <3>2
  <2> QED BY <1>4, <2>1, <2>2, <2>3
<1>6. /\ y \in CallRecord /\ y.pc = pc /\ y.noticed = more /\ y.carried = k.carried
      /\ y.service = k.service /\ y.flags = k.flags /\ y.own = k.own
      /\ y.reply = k.reply /\ y.faults = k.faults /\ y.crossed = k.crossed
  <2>1. k \in CallRecord /\ k.noticed = 0 BY <1>1, <1>3
  <2> QED BY <1>5, <2>1, SettledFields
<1>7. Budget(y, nr) BY <1>1, <1>2, <1>3, <1>5, <1>6 DEF Budget, Retries
<1>8. Noticed(y, nr)
  <2>1. Notices(k) <=> /\ nr
                       /\ \/ k.reply >= 500
                          \/ k.reply \in 400 .. 499 /\ "Ignore4XX" \notin k.flags
    <3>1. k.reply \in Int BY <1>3 DEF Replies, NotAxios, NoResponse
    <3>2. k.reply \in 400 .. 499 <=> k.reply >= 400 /\ k.reply < 500 BY <3>1
    <3>3. k.reply >= 500 \/ k.reply >= 400 => k.reply # NotAxios BY <3>1 DEF NotAxios
    <3> QED BY <3>2, <3>3 DEF Notices
  <2>2. CASE pc = "rejected" BY <1>5, <1>6, <2>1, <2>2 DEF Noticed
  <2>3. CASE pc # "rejected" BY <1>5, <1>6, <2>3 DEF Noticed
  <2> QED BY <2>2, <2>3
<1>9. Header(y, nr, defaults) BY <1>1, <1>2, <1>5, <1>6 DEF Header, Own, Active
<1> QED BY <1>2, <1>4, <1>6, <1>7, <1>8, <1>9, OneCall DEF CallOK

LEMMA MissingPreserves ==
  ASSUME AxiosInv, NEW c \in Calls, NEW s, ServiceMissing(c, s)
  PROVE  AxiosInv'
<1> DEFINE k == call[c]
           x == [k EXCEPT !.pc = "rejected", !.reply = NotAxios]
<1>1. k \in CallRecord /\ Budget(k, nr) /\ Noticed(k, nr) /\ Header(k, nr, defaults)
  BY DEF AxiosInv, AxiosTypeOK, CallOK
<1>2. k.pc = "idle" /\ UNCHANGED <<nr, loadState, instances, defaults>>
  BY DEF ServiceMissing
<1>3. call' = [call EXCEPT ![c] = x] BY DEF ServiceMissing, AxiosInv, AxiosTypeOK
<1>4. /\ x \in CallRecord /\ x.pc = "rejected" /\ x.reply = NotAxios /\ x.faults = k.faults
      /\ x.carried = k.carried /\ x.service = k.service /\ x.flags = k.flags
      /\ x.own = k.own /\ x.noticed = k.noticed /\ x.crossed = k.crossed
  <2>1. NotAxios \in Replies BY DEF Replies
  <2> QED BY <1>1, <2>1, CallRecordIs
<1> HIDE DEF k, x
<1>5. Budget(x, nr) BY <1>1, <1>2, <1>4 DEF Budget
<1>6. Noticed(x, nr) BY <1>1, <1>2, <1>4 DEF Noticed, NotAxios
<1>7. Header(x, nr, defaults) BY <1>1, <1>2, <1>4 DEF Header, Own, Active
<1> QED BY <1>2, <1>3, <1>4, <1>5, <1>6, <1>7, OneCall DEF CallOK

(* The strengthening of the properties below is an invariant.              *)
THEOREM AxiosInvariant == AxiosSpec => []AxiosInv
<1>1. AxiosInit => AxiosInv
  <2> SUFFICES ASSUME AxiosInit PROVE AxiosInv OBVIOUS
  <2>1. NewCall \in CallRecord BY DEF NewCall, CallRecord, Replies, NoResponse
  <2>2. CallOK(NewCall, nr, defaults)
    BY AxiosAssumption DEF NewCall, CallOK, Budget, Noticed, Header, Own, Active
  <2>3. AxiosTypeOK BY <2>1 DEF AxiosInit, AxiosTypeOK
  <2> QED BY <2>2, <2>3 DEF AxiosInit, AxiosInv
<1>2. AxiosInv /\ [AxiosNext]_axiosVars => AxiosInv'
  <2> SUFFICES ASSUME AxiosInv, [AxiosNext]_axiosVars PROVE AxiosInv' OBVIOUS
  <2>1. CASE Load
    <3>1. /\ UNCHANGED <<nr, defaults, call>> /\ loadState' \in {"loaded", "failed"}
          /\ instances' \subseteq Range(Services)
      BY <2>1 DEF Load, Range
    <3>2. AxiosTypeOK' BY <3>1 DEF AxiosInv, AxiosTypeOK
    <3> QED BY <3>1, <3>2 DEF AxiosInv
  <2>2. CASE DisposeAxios
    <3>1. AxiosTypeOK' BY <2>2 DEF DisposeAxios, AxiosInv, AxiosTypeOK
    <3> QED BY <2>2, <3>1 DEF DisposeAxios, AxiosInv
  <2>3. ASSUME NEW c \in Calls, CallMade(c) PROVE AxiosInv'
    BY <2>3, RequestPreserves, MissingPreserves DEF CallMade
  <2>4. ASSUME NEW c \in Calls, CallStep(c) PROVE AxiosInv'
    BY <2>4, AttemptPreserves, ReplyPreserves, SettlePreserves DEF CallStep
  <2>5. CASE UNCHANGED axiosVars BY <2>5 DEF AxiosInv, AxiosTypeOK, axiosVars
  <2> QED BY <2>1, <2>2, <2>3, <2>4, <2>5 DEF AxiosNext
<1> QED BY <1>1, <1>2, PTL DEF AxiosSpec

(* A call is sent again only for a 5xx, never with NoRetry or without      *)
(* newrelic, and never more often than numOfAttempts allows.               *)
THEOREM RepeatsBounded == AxiosSpec => []RepeatedOnlyAfter5XX
<1>1. AxiosInv => RepeatedOnlyAfter5XX
  BY DEF AxiosInv, CallOK, Budget, RepeatedOnlyAfter5XX
<1> QED BY <1>1, AxiosInvariant, PTL

(* New Relic hears of a failed call once, behind its last attempt.         *)
THEOREM NoticedOnce == AxiosSpec => []NoticedOnceAtTheEnd
<1>1. AxiosInv => NoticedOnceAtTheEnd
  BY DEF AxiosInv, CallOK, Noticed, NoticedOnceAtTheEnd
<1> QED BY <1>1, AxiosInvariant, PTL

(* As long as no other call writes the shared header, every attempt of a   *)
(* call carries the trace the call was given.                              *)
THEOREM TraceIsKept == AxiosSpec => []TraceKept
<1>1. AxiosInv => TraceKept
  BY DEF AxiosInv, CallOK, Header, Own, TraceKept, OwnTrace
<1> QED BY <1>1, AxiosInvariant, PTL

-----------------------------------------------------------------------------
(* Seen from either component, every behaviour of the composition is one   *)
(* of that component.                                                      *)
THEOREM ComponentsKept == RequestsSpec => Spec /\ AxiosSpec
<1>1. RequestsInit => Init /\ AxiosInit BY DEF RequestsInit
<1>2. [RequestsNext]_requestsVars => [Next]_polkaVars /\ [AxiosNext]_axiosVars
  <2> SUFFICES ASSUME [RequestsNext]_requestsVars
               PROVE  [Next]_polkaVars /\ [AxiosNext]_axiosVars
    OBVIOUS
  <2>1. CASE Loads BY <2>1 DEF Loads, AxiosNext
  <2>2. CASE Disposes BY <2>2 DEF Disposes, AxiosNext
  <2>3. CASE Environment BY <2>3 DEF Environment, Next
  <2>4. ASSUME NEW r \in Requests, Serves(r)
        PROVE  [Next]_polkaVars /\ [AxiosNext]_axiosVars
    BY <2>4 DEF Serves, Next
  <2>5. ASSUME NEW r \in Requests, ControllerCalls(r)
        PROVE  [Next]_polkaVars /\ [AxiosNext]_axiosVars
    <3>1. r \in Calls /\ TraceOf[r] \in Traces \cup {NoTrace} BY RequestsAssumption
    <3>2. CallMade(r)
      BY <2>5, <3>1, RequestsAssumption DEF ControllerCalls, CallMade
    <3> QED BY <2>5, <3>1, <3>2 DEF ControllerCalls, AxiosNext
  <2>6. ASSUME NEW r \in Requests, ControllerGoesOn(r)
        PROVE  [Next]_polkaVars /\ [AxiosNext]_axiosVars
    <3>1. "controller" \in ControllerFaults BY DEF ControllerFaults
    <3>2. ControllerStep(r) BY <2>6, <3>1 DEF ControllerGoesOn, ControllerStep
    <3> QED BY <2>6, <3>2 DEF ControllerGoesOn, Next
  <2>7. ASSUME NEW r \in Requests, CallsOn(r)
        PROVE  [Next]_polkaVars /\ [AxiosNext]_axiosVars
    BY <2>7, RequestsAssumption DEF CallsOn, AxiosNext
  <2>8. CASE UNCHANGED requestsVars BY <2>8 DEF requestsVars
  <2> QED BY <2>1, <2>2, <2>3, <2>4, <2>5, <2>6, <2>7, <2>8 DEF RequestsNext
<1> QED BY <1>1, <1>2, PTL DEF RequestsSpec, Spec, AxiosSpec

(* For any requests, routes, services, flags and limits, with both         *)
(* components at work: the types of both, the answers, the rate limiter,   *)
(* the bound of the repetitions, the notices and the traces.               *)
THEOREM RequestsSafe ==
  RequestsSpec => [](/\ TypesOK /\ StageDecides /\ LimitKept
                     /\ RepeatedOnlyAfter5XX /\ NoticedOnceAtTheEnd /\ TraceKept)
<1>1. AxiosInv => AxiosTypeOK BY DEF AxiosInv
<1> QED
  BY <1>1, ComponentsKept, PolkaTypes, StagesDecide, RateLimited, AxiosInvariant,
     RepeatsBounded, NoticedOnce, TraceIsKept, PTL DEF TypesOK

(* The composition still answers every request as Responder promises.      *)
THEOREM RequestsRefineResponder == RequestsSpec => ImplementsResponder
BY ComponentsKept, RefinesResponder, PTL
=============================================================================
