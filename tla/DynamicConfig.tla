---------------------------- MODULE DynamicConfig ----------------------------
(***************************************************************************)
(* packages/dynamic-config/src/index.ts: a configuration value kept in a   *)
(* MongoDB document, read again by a timer, on request and after update(). *)
(*                                                                         *)
(* Every refresh() that succeeds arms a timer that calls refresh() again,  *)
(* so a call starts a chain of refreshes: it waits for the document, then  *)
(* for its timer, and so on.  Chains and updates interleave at the await   *)
(* of the database.  The timeout is abstracted: a timer may fire at any    *)
(* time.  External: the database, and who else writes the document.  A     *)
(* rejection nobody awaits reaches the context's handler of uncaught       *)
(* exceptions, which, like a failing load(), starts to dispose; with the   *)
(* module of newrelic, which listens for it, it is reported and no more.   *)
(***************************************************************************)
CONSTANTS
  Configs,      \* the configurations a document or a caller may hold
  Valid,        \* those configDef.parse accepts
  Parsed,       \* what it makes of them
  Parse,        \* Valid -> Parsed
  Falsy,        \* the values JavaScript takes for false
  Default,      \* $config.default
  Chains,       \* bound: chains of refreshes at a time
  Updates       \* bound: calls of update() at a time

Undefined == "undefined"      \* no state yet
NoDoc == "no document"
NoTimer == "no timer"

ASSUME ConfigsAssumption ==
  /\ Valid \subseteq Configs /\ Parse \in [Valid -> Parsed] /\ Default \in Parsed
  /\ Undefined \notin Configs \cup Parsed /\ NoDoc \notin Configs
  /\ NoTimer \notin Chains

VARIABLES
  state,          \* the state of the module
  refreshClear,   \* the chain that armed a timer last, NoTimer before
  chains,         \* where each chain of refreshes is
  updates,        \* where each call of update() is
  loaded,         \* load() has assigned refresh and update
  disposed,       \* dispose() was called
  ending,         \* a failure made the context dispose
  newrelic,       \* external: the module of newrelic is loaded
  doc,            \* external: the document's configuration
  stored,         \* history: the configurations that parse and the document has held
  raw,            \* history: update() has set the state last
  reported,       \* history: newrelic took a timer's failure, and no refresh succeeded since
  alone,          \* history: no refresh() was called while a chain was on
  outlives        \* history: chains in flight at the last dispose(), or begun since

module == <<state, refreshClear, loaded, disposed, ending>>
external == <<newrelic, doc, stored>>
history == <<raw, reported, alone, outlives>>

vars == <<module, chains, updates, external, history>>

Idle == [pc |-> "idle"]
Reading(by) == [pc |-> "reading", by |-> by]
Armed == [pc |-> "armed"]
InFlight(c) == chains[c].pc \in {"reading", "read"}

Init ==
  /\ state = Undefined /\ refreshClear = NoTimer
  /\ chains = [c \in Chains |-> Idle]
  /\ updates = [u \in Updates |-> Idle]
  /\ loaded = FALSE /\ disposed = FALSE /\ ending = FALSE
  /\ newrelic \in BOOLEAN
  /\ doc \in Configs \cup {NoDoc}
  /\ stored = {doc} \cap Valid
  /\ raw = FALSE /\ reported = FALSE /\ alone = TRUE /\ outlives = {}

(* The value of the getter `config'.                                       *)
Config == IF state \in Falsy \cup {Undefined} THEN Default ELSE state

-----------------------------------------------------------------------------
(* refresh(), called by load(), which the context awaits, by an            *)
(* application that awaits it, or by a timer, for which nobody waits.      *)

Start(c, by) ==
  /\ chains[c] = Idle
  /\ chains' = [chains EXCEPT ![c] = Reading(by)]
  /\ alone' = (alone /\ \A e \in Chains : chains[e] = Idle)
  /\ outlives' = IF disposed THEN outlives \cup {c} ELSE outlives
  /\ UNCHANGED <<state, refreshClear, updates, disposed, ending, external, raw, reported>>

Load(c) == Start(c, "load") /\ loaded' = TRUE

(* Before load() has run, refresh() does nothing.                          *)
Refresh(c) == loaded /\ Start(c, "app") /\ UNCHANGED loaded

Fire(c) ==
  /\ chains[c] = Armed
  /\ chains' = [chains EXCEPT ![c] = Reading("timer")]
  /\ UNCHANGED <<module, updates, external, history>>

(* External: the database reads the document; the reply is on its way.     *)
Read(c) ==
  /\ chains[c].pc = "reading"
  /\ chains' = [chains EXCEPT ![c] = [pc |-> "read", by |-> @.by, data |-> doc]]
  /\ UNCHANGED <<module, updates, external, history>>

(* The chain is over.  Who waits for it handles the failure; load() fails  *)
(* with its own; that of a timer is an unhandled rejection.                *)
FailQuietly(c) ==      \* mutant: the timer's refresh catches its failure
  /\ chains' = [chains EXCEPT ![c] = Idle]
  /\ UNCHANGED <<module, updates, external, history>>

Fail(c) ==
  LET unhandled == chains[c].by = "timer"
  IN  /\ ending' = (ending \/ chains[c].by = "load" \/ (unhandled /\ ~newrelic))
      /\ reported' = (reported \/ (unhandled /\ newrelic))
      /\ chains' = [chains EXCEPT ![c] = Idle]
      /\ UNCHANGED <<state, refreshClear, loaded, disposed, updates, external, raw, alone,
                     outlives>>

ReadFails(c) == chains[c].pc = "reading" /\ Fail(c)

(* The document is found and parses, or there is none: either way the      *)
(* timer is armed.  A document that does not parse throws before that.     *)
NotFoundKeepsHandle(c) ==      \* mutant: the handle of the timer is not kept
  /\ chains[c].pc = "read" /\ chains[c].data = NoDoc
  /\ chains' = [chains EXCEPT ![c] = Armed]
  /\ reported' = FALSE
  /\ UNCHANGED <<module, updates, external, raw, alone, outlives>>

NotFoundEnds(c) ==      \* mutant: no timer when there is no document
  /\ chains[c].pc = "read" /\ chains[c].data = NoDoc
  /\ chains' = [chains EXCEPT ![c] = Idle]
  /\ UNCHANGED <<module, updates, external, history>>

NotFound(c) ==
  /\ chains[c].pc = "read" /\ chains[c].data = NoDoc
  /\ chains' = [chains EXCEPT ![c] = Armed]
  /\ refreshClear' = c /\ reported' = FALSE
  /\ UNCHANGED <<state, loaded, disposed, ending, updates, external, raw, alone, outlives>>

RefreshedRaw(c) ==      \* mutant: the document is checked, and kept as it is
  /\ chains[c].pc = "read" /\ chains[c].data \in Valid
  /\ state' = chains[c].data
  /\ chains' = [chains EXCEPT ![c] = Armed]
  /\ refreshClear' = c /\ reported' = FALSE /\ raw' = FALSE
  /\ UNCHANGED <<loaded, disposed, ending, updates, external, alone, outlives>>

Refreshed(c) ==
  /\ chains[c].pc = "read" /\ chains[c].data \in Valid
  /\ state' = Parse[chains[c].data]
  /\ chains' = [chains EXCEPT ![c] = Armed]
  /\ refreshClear' = c /\ reported' = FALSE /\ raw' = FALSE
  /\ UNCHANGED <<loaded, disposed, ending, updates, external, alone, outlives>>

Unparsable(c) ==
  /\ chains[c].pc = "read" /\ chains[c].data \in Configs \ Valid
  /\ Fail(c)

-----------------------------------------------------------------------------
(* update(config).  A configuration that does not parse is refused before  *)
(* anything happens; of one that does, the parsed value is dropped.        *)

UpdateUnchecked(u, config) ==      \* mutant: the configuration is not parsed
  /\ loaded
  /\ updates[u] = Idle
  /\ updates' = [updates EXCEPT ![u] = [pc |-> "writing", config |-> config]]
  /\ UNCHANGED <<module, chains, external, history>>

Update(u, config) ==
  /\ loaded
  /\ updates[u] = Idle
  /\ config \in Valid
  /\ updates' = [updates EXCEPT ![u] = [pc |-> "writing", config |-> config]]
  /\ UNCHANGED <<module, chains, external, history>>

(* External: the database writes the document; it, or the reply, may fail. *)
Write(u) ==
  /\ updates[u].pc = "writing"
  /\ doc' = updates[u].config
  /\ stored' = stored \cup ({doc'} \cap Valid)
  /\ \/ updates' = [updates EXCEPT ![u].pc = "written"]
     \/ updates' = [updates EXCEPT ![u] = Idle]
  /\ UNCHANGED <<module, chains, newrelic, history>>

WriteFails(u) ==
  /\ updates[u].pc = "writing"
  /\ updates' = [updates EXCEPT ![u] = Idle]
  /\ UNCHANGED <<module, chains, external, history>>

UpdatedFirst(u) ==      \* mutant: the state is set before the write is confirmed
  /\ updates[u].pc \in {"writing", "written"}
  /\ state' = updates[u].config
  /\ updates' = [updates EXCEPT ![u] = IF @.pc = "writing" THEN @ ELSE Idle]
  /\ raw' = TRUE
  /\ UNCHANGED <<refreshClear, loaded, disposed, ending, chains, external, reported, alone,
                 outlives>>

(* The state is the configuration as the caller gave it.                   *)
Updated(u) ==
  /\ updates[u].pc = "written"
  /\ state' = updates[u].config
  /\ updates' = [updates EXCEPT ![u] = Idle]
  /\ raw' = TRUE
  /\ UNCHANGED <<refreshClear, loaded, disposed, ending, chains, external, reported, alone,
                 outlives>>

(* External: another process, or a person, writes or removes the document. *)
Edit(d) ==
  /\ doc' = d
  /\ stored' = stored \cup ({d} \cap Valid)
  /\ UNCHANGED <<module, chains, updates, newrelic, history>>

-----------------------------------------------------------------------------
(* dispose() clears the timer that was armed last; a refresh that waits for *)
(* the database will arm another.                                          *)

Dispose ==
  /\ disposed' = TRUE
  /\ chains' = [c \in Chains |->
                  IF c = refreshClear /\ chains[c] = Armed THEN Idle ELSE chains[c]]
  /\ outlives' = {c \in Chains : InFlight(c)}
  /\ UNCHANGED <<state, refreshClear, loaded, ending, updates, external, raw, reported,
                 alone>>

-----------------------------------------------------------------------------
ChainStep(c) ==
  \/ Load(c) \/ Refresh(c) \/ Fire(c)
  \/ Read(c) \/ ReadFails(c)
  \/ NotFound(c) \/ Refreshed(c) \/ Unparsable(c)

UpdateStep(u) ==
  \/ \E config \in Configs : Update(u, config)
  \/ Write(u) \/ WriteFails(u) \/ Updated(u)

Next ==
  \/ \E c \in Chains : ChainStep(c)
  \/ \E u \in Updates : UpdateStep(u)
  \/ \E d \in Configs \cup {NoDoc} : Edit(d)
  \/ Dispose

Spec == Init /\ [][Next]_vars

(* Fairness: timers fire, the database answers or fails, and the           *)
(* continuations of its replies run.                                       *)
Fairness ==
  \A c \in Chains :
    /\ WF_vars(Fire(c)) /\ WF_vars(Read(c) \/ ReadFails(c))
    /\ WF_vars(NotFound(c) \/ Refreshed(c) \/ Unparsable(c))

FairSpec == Spec /\ Fairness

-----------------------------------------------------------------------------
Callers == {"load", "app", "timer"}

ChainRecord ==
  {Idle, Armed} \cup [pc : {"reading"}, by : Callers] \cup
  [pc : {"read"}, by : Callers, data : Configs \cup {NoDoc}]

UpdateRecord == {Idle} \cup [pc : {"writing", "written"}, config : Valid]

(* Every variable has its type.                                            *)
TypeOK ==
  /\ state \in Configs \cup Parsed \cup {Undefined}
  /\ refreshClear \in Chains \cup {NoTimer}
  /\ chains \in [Chains -> ChainRecord]
  /\ updates \in [Updates -> UpdateRecord]
  /\ loaded \in BOOLEAN /\ disposed \in BOOLEAN /\ ending \in BOOLEAN
  /\ newrelic \in BOOLEAN
  /\ doc \in Configs \cup {NoDoc}
  /\ stored \subseteq Valid
  /\ raw \in BOOLEAN /\ reported \in BOOLEAN /\ alone \in BOOLEAN
  /\ outlives \subseteq Chains

(* What the module serves is what parsing made of a configuration that the *)
(* document has held, or, until a refresh replaces it, a configuration     *)
(* that parses, just as the caller gave it to an update() that reached the *)
(* document; whatever update() or refresh() failed halfway.                *)
ServesStored ==
  state # Undefined =>
    state \in (IF raw THEN stored ELSE {Parse[v] : v \in stored})

(* From load() on, until the module is disposed or a failure makes the     *)
(* context dispose, periodic refreshing ends in one way only: newrelic has *)
(* taken the failure of a timer's refresh, and none has succeeded since.   *)
(* Otherwise some chain waits for its timer, or for the database with      *)
(* nobody but the context to take its failure.                             *)
GoesOn(c) == chains[c] = Armed \/ (chains[c] # Idle /\ chains[c].by # "app")

RefreshGoesOn ==
  loaded /\ ~disposed /\ ~ending /\ ~reported => \E c \in Chains : GoesOn(c)

(* When refresh() was never called while another chain was on: after       *)
(* dispose() no refresh or timer is left, but those of a refresh that was  *)
(* in flight when dispose() was called, which goes on and arms timers as   *)
(* before, or that was called later.                                       *)
DisposeStops == disposed /\ alone => \A c \in Chains \ outlives : chains[c] = Idle

(* Once the document keeps a configuration that parses and nobody updates  *)
(* it, the module ends up serving what it parses to, whatever replies of   *)
(* older reads and updates came late; unless newrelic has taken a timer's  *)
(* failure and nothing was refreshed since.                                *)
Converges ==
  \A v \in {w \in Valid : Parse[w] \notin Falsy} :
    <>[](/\ doc = v /\ loaded /\ ~disposed /\ ~ending /\ ~reported
         /\ \A u \in Updates : updates[u] = Idle)
      => <>[](Config = Parse[v])
=============================================================================
