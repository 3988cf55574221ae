---------------------------- MODULE ExtensionWorker ----------------------------
(***************************************************************************)
(* The service worker of the browser extension (src/extension/             *)
(* background.js): settings and statistics in memory, written to the       *)
(* extension's storage as a whole on every change, and read from it only   *)
(* when the extension is installed or the browser starts.  The browser     *)
(* stops an idle worker and starts it again for the next message.          *)
(***************************************************************************)
EXTENDS Naturals

CONSTANTS
  Options,     \* what the user may set: enabled, level and perSite behave alike
  DefaultOption,
  MaxEvents,   \* bound on what the user and the browser do
  NotStored    \* nothing in storage yet

ASSUME WorkerAssumption == DefaultOption \in Options /\ MaxEvents \in Nat

VARIABLES
  state,     \* the worker's memory
  running,   \* the worker is there
  load,      \* a load from storage: how far it is, and what it found
  checking,  \* checkProxy awaits the answer to its request
  stored,    \* the extension's storage
  truth,     \* what the user has set, and the requests counted since the reset
  whole,     \* nothing has been lost since the last load
  events

workerVars == <<state, running, load, checking, stored, truth, whole, events>>

\* { ...DEFAULTS } shares the nested object of the statistics: counts go to
\* DEFAULTS as well.
Defaults == [option |-> DefaultOption, total |-> 0, proxyMode |-> FALSE, shared |-> TRUE, defaults |-> 0]
Kept(s) == [option |-> s.option, total |-> s.total, proxyMode |-> s.proxyMode]
Known(s) == [option |-> s.option, total |-> s.total]

NoLoad == [step |-> "none", found |-> NotStored]

WorkerInit ==
  /\ state = Defaults /\ running = FALSE /\ load = NoLoad /\ checking = FALSE
  /\ stored = NotStored /\ truth = Known(Defaults) /\ whole = FALSE /\ events = 0

Happens == events < MaxEvents /\ events' = events + 1

\* onInstalled, onStartup: the worker starts and asks for what is stored.
BrowserStarts ==
  /\ Happens /\ ~running
  /\ running' = TRUE /\ state' = Defaults /\ load' = [NoLoad EXCEPT !.step = "asked"]
  /\ UNCHANGED <<checking, stored, truth, whole>>
StorageAnswers ==
  /\ load.step = "asked"
  /\ load' = [step |-> "found", found |-> stored]
  /\ UNCHANGED <<state, running, checking, stored, truth, whole, events>>

\* The callback: state = { ...DEFAULTS, ...stored }; checkProxy().
DefaultsNow == [Defaults EXCEPT !.total = state.defaults, !.defaults = state.defaults]
Assigned(s, kept) ==
  [s EXCEPT !.option = kept.option, !.total = kept.total, !.proxyMode = kept.proxyMode, !.shared = FALSE]
swapped_merge(found) == DefaultsNow
merge(found) == IF found = NotStored THEN DefaultsNow ELSE Assigned(DefaultsNow, found)
Loaded ==
  /\ load.step = "found"
  /\ state' = merge(load.found) /\ load' = NoLoad /\ checking' = TRUE
  /\ truth' = Known(IF load.found = NotStored THEN Defaults ELSE load.found)
  /\ whole' = (load.found = stored)
  /\ UNCHANGED <<running, stored, events>>

\* save
save == stored' = Kept(state')

\* checkProxy: the answer of the proxy, or none, some time later; what is saved
\* is the state as it is then.
CheckBegins ==
  /\ running /\ ~checking /\ Happens
  /\ checking' = TRUE
  /\ UNCHANGED <<state, running, load, stored, truth, whole>>
CheckEnds ==
  /\ running /\ checking
  /\ \E ok \in BOOLEAN : state' = [state EXCEPT !.proxyMode = ok]
  /\ checking' = FALSE /\ save
  /\ UNCHANGED <<running, load, truth, whole, events>>

\* A message.  One that finds no worker starts it, with the defaults.
Woken == IF running THEN state ELSE Defaults
Message(changed) ==
  /\ Happens /\ running' = TRUE
  /\ state' = changed /\ save
  /\ whole' = (whole /\ running)
  /\ UNCHANGED <<load, checking>>

\* SET_ENABLED, SET_LEVEL, SET_SITE_OVERRIDE
Set(o) ==
  /\ Message([Woken EXCEPT !.option = o])
  /\ truth' = [truth EXCEPT !.option = o]

\* COMPRESS, LOG_PROXY_RESULT
WithOne(s) ==
  [s EXCEPT !.total = @ + 1, !.defaults = IF s.shared THEN @ + 1 ELSE @]
Count ==
  /\ Message(WithOne(Woken))
  /\ truth' = [truth EXCEPT !.total = @ + 1]

\* RESET_STATS copies the statistics of DEFAULTS.
Reset ==
  /\ Message([Woken EXCEPT !.total = Woken.defaults, !.shared = FALSE])
  /\ truth' = [truth EXCEPT !.total = 0]

\* The browser stops the worker, whatever it awaits.
WorkerStops ==
  /\ running /\ Happens
  /\ running' = FALSE /\ state' = Defaults /\ load' = NoLoad /\ checking' = FALSE
  /\ whole' = FALSE
  /\ UNCHANGED <<stored, truth>>

WorkerNext ==
  \/ BrowserStarts \/ StorageAnswers \/ Loaded \/ CheckBegins \/ CheckEnds
  \/ \E o \in Options : Set(o)
  \/ Count \/ Reset \/ WorkerStops
WorkerSpec == WorkerInit /\ [][WorkerNext]_workerVars
-------------------------------------------------------------------------------
\* As long as the worker lives that loaded the storage, and had no message
\* while it did, the storage has what the user has set and every request
\* counted since the reset, whatever checks of the proxy end in between; except
\* that a reset before the statistics were ever stored resets nothing.
StorageKeepsUp ==
  whole /\ stored # NotStored /\ state.defaults = 0 => Known(stored) = truth
================================================================================
