------------------------------ MODULE PushStream ------------------------------
(***************************************************************************)
(* How a created token reaches the database: PumpPortalProvider's socket,  *)
(* which loses what is created while it is away, and the newest-first list *)
(* of PumpFunProvider, which is polled for the rest.  Tokens are numbered  *)
(* in the order of their creation.                                         *)
(***************************************************************************)
EXTENDS Integers, FiniteSets, FiniteSetsExt, Sequences, Doubling

CONSTANTS
  PollLimit,       \* discovery_poll_limit
  BaseDelay,       \* reconnect_base_seconds
  MaxDelay,        \* reconnect_max_seconds
  MaxCreated,      \* bound: tokens per behaviour
  MaxFailures,     \* bound: lost connections, failed attempts and failed polls per behaviour
  MaxCrashes       \* bound: restarts of discovery per behaviour

VARIABLES
  created,     \* how many tokens there are
  indexed,     \* those the primary's list knows of
  link,        \* "connecting", "open", "closing" while frames are left, "backoff"
  clean,       \* a connection that is closing was closed by the server, not lost
  attempt, wait,
  inbox,       \* frames received and not handled
  page,        \* items of the last list that are not stored yet
  stored,
  unseen,      \* ghost: tokens a list was too short for, or whose item was unreadable
  failed,      \* ghost: failures since a subscription last succeeded
  elapsed,     \* ghost: time since the last of them
  failures, crashes

StreamAssumption ==
  /\ PollLimit \in Nat \ {0} /\ {BaseDelay, MaxDelay} \subseteq Nat
  /\ {MaxCreated, MaxFailures, MaxCrashes} \subseteq Nat

socket == <<link, clean, attempt, wait, inbox>>
ghosts == <<failed, elapsed>>
bounds == <<failures, crashes>>
vars == <<created, indexed, socket, page, stored, unseen, ghosts, bounds>>

Lesser(a, b) == IF a <= b THEN a ELSE b
Mints == 1..created

(* Whatever waits to be stored has been created, and a backoff is never    *)
(* longer than the cap.                                                    *)
TypeOK ==
  /\ created \in 0..MaxCreated
  /\ indexed \subseteq Mints /\ unseen \subseteq indexed
  /\ link \in {"connecting", "open", "closing", "backoff"} /\ clean \in BOOLEAN
  /\ attempt \in 0..MaxFailures /\ wait \in 0..MaxDelay
  /\ inbox \in Seq(Mints) /\ page \in Seq(Mints) /\ stored \subseteq Mints
  /\ failed \in 0..MaxFailures /\ elapsed \in 0..MaxDelay
  /\ failures \in 0..MaxFailures /\ crashes \in 0..MaxCrashes

Init ==
  /\ created = 0 /\ indexed = {} /\ stored = {} /\ unseen = {}
  /\ link = "connecting" /\ clean = FALSE /\ attempt = 0 /\ wait = 0
  /\ inbox = <<>> /\ page = <<>>
  /\ failed = 0 /\ elapsed = 0 /\ failures = 0 /\ crashes = 0

-----------------------------------------------------------------------------
(* A token is created; an open subscription hears of it.  The primary's    *)
(* list knows of it later, or never.                                       *)
Create ==
  /\ created < MaxCreated /\ created' = created + 1
  /\ inbox' = IF link = "open" THEN Append(inbox, created') ELSE inbox
  /\ UNCHANGED <<indexed, link, clean, attempt, wait, page, stored, unseen, ghosts, bounds>>

Index(t) ==
  /\ t \in Mints \ indexed /\ indexed' = indexed \cup {t}
  /\ UNCHANGED <<created, socket, page, stored, unseen, ghosts, bounds>>

\* mutant: the counter is reset by a connection attempt, not by a subscription
DelayIgnoringCount(n) == BaseDelay
Delay(n) == Lesser(BaseDelay * Power2[n - 1], MaxDelay)

(* WebSocketException, OSError or TimeoutError.                            *)
Reconnecting ==
  /\ attempt' = attempt + 1 /\ wait' = Delay(attempt + 1)
  /\ link' = "backoff"
  /\ failed' = failed + 1 /\ elapsed' = 0

Subscribe ==
  /\ link = "connecting"
  /\ link' = "open" /\ attempt' = 0 /\ failed' = 0 /\ elapsed' = 0
  /\ UNCHANGED <<created, indexed, clean, wait, inbox, page, stored, unseen, bounds>>

ConnectFails ==
  /\ link = "connecting" /\ failures < MaxFailures /\ failures' = failures + 1
  /\ Reconnecting
  /\ UNCHANGED <<created, indexed, clean, inbox, page, stored, unseen, crashes>>

(* The connection ends; the frames that came before its end are still read.*)
Disconnect ==
  /\ link = "open" /\ failures < MaxFailures /\ failures' = failures + 1
  /\ link' = "closing" /\ clean' \in BOOLEAN
  /\ UNCHANGED <<created, indexed, attempt, wait, inbox, page, stored, unseen, ghosts, crashes>>

(* The iteration over the frames ends: with an exception when the          *)
(* connection was lost, and quietly when the server closed it.             *)
Drained ==
  /\ link = "closing" /\ inbox = <<>>
  /\ IF clean THEN link' = "connecting" /\ UNCHANGED <<attempt, wait, ghosts>> ELSE Reconnecting
  /\ clean' = FALSE
  /\ UNCHANGED <<created, indexed, inbox, page, stored, unseen, bounds>>

Tick ==
  /\ link = "backoff" /\ wait > 0
  /\ wait' = wait - 1 /\ elapsed' = elapsed + 1
  /\ UNCHANGED <<created, indexed, link, clean, attempt, inbox, page, stored, unseen, failed>>
  /\ UNCHANGED bounds

Retry ==
  /\ link = "backoff" /\ wait = 0
  /\ link' = "connecting"
  /\ UNCHANGED <<created, indexed, clean, attempt, wait, inbox, page, stored, unseen>>
  /\ UNCHANGED <<ghosts, bounds>>

(* A frame becomes a row, or is one that _parse does not understand.       *)
HandleFrame ==
  /\ inbox # <<>>
  /\ stored' \in {stored, stored \cup {Head(inbox)}}
  /\ inbox' = Tail(inbox)
  /\ UNCHANGED <<created, indexed, link, clean, attempt, wait, page, unseen, ghosts, bounds>>

-----------------------------------------------------------------------------
\* mutant: the list is asked for in ascending order
Oldest(k) == CHOOSE s \in kSubset(Lesser(k, Cardinality(indexed)), indexed) :
               \A t \in s, u \in indexed \ s : t < u
(* list_recent: sort=created_timestamp, order=DESC, limit.                 *)
Newest(k) == CHOOSE s \in kSubset(Lesser(k, Cardinality(indexed)), indexed) :
               \A t \in s, u \in indexed \ s : t > u

(* Ghost: the tokens with a whole list of newer ones before them.          *)
TooOld == {t \in indexed : Cardinality({u \in indexed : u > t}) >= PollLimit}

(* An item that cannot be parsed is skipped; when none can, the poll fails *)
(* and stores as little.                                                   *)
PollList ==
  /\ page = <<>>
  /\ \E unreadable \in SUBSET Newest(PollLimit) :
       LET items == Newest(PollLimit) \ unreadable
       IN  /\ page' = [i \in 1 .. Cardinality(items) |->
                          CHOOSE t \in items : Cardinality({u \in items : u > t}) = i - 1]
           /\ unseen' = unseen \cup unreadable \cup TooOld
  /\ UNCHANGED <<created, indexed, socket, stored, ghosts, bounds>>

(* A ProviderError: poll_once waits for the next interval.                 *)
PollFails ==
  /\ page = <<>> /\ failures < MaxFailures /\ failures' = failures + 1
  /\ UNCHANGED <<created, indexed, socket, page, stored, unseen, ghosts, crashes>>

StoreItem ==
  /\ page # <<>>
  /\ stored' = stored \cup {Head(page)} /\ page' = Tail(page)
  /\ UNCHANGED <<created, indexed, socket, unseen, ghosts, bounds>>

(* One loop fails, the task group cancels the other, and both restart.     *)
Crash ==
  /\ crashes < MaxCrashes /\ crashes' = crashes + 1
  /\ link' = "connecting" /\ clean' = FALSE /\ attempt' = 0 /\ wait' = 0
  /\ inbox' = <<>> /\ page' = <<>> /\ failed' = 0 /\ elapsed' = 0
  /\ UNCHANGED <<created, indexed, stored, unseen, failures>>

Poller == PollList \/ StoreItem
Socket == Subscribe \/ Drained \/ Retry \/ HandleFrame \/ Tick

Next == Create \/ (\E t \in Mints : Index(t)) \/ Poller \/ Socket
        \/ ConnectFails \/ Disconnect \/ PollFails \/ Crash

Spec == Init /\ [][Next]_vars

(* Both loops run for ever.  That the primary ever indexes a mint is not   *)
(* assumed: some never appear there.                                       *)
FairSpec == Spec /\ WF_vars(Poller) /\ WF_vars(Socket)

-----------------------------------------------------------------------------
(* The list makes up for the socket: whatever is lost with a connection, a *)
(* frame or a restart, each token the primary indexes is stored in the     *)
(* end, unless the list was too short for it before that or its item could *)
(* not be parsed.  The items before and after such a one are not lost.     *)
EveryListedStored ==
  \A t \in 1..MaxCreated : (t \in indexed) ~> (t \in stored \cup unseen)

(* The n-th failure in a row waits twice as long as the one before, up to  *)
(* the cap, and a subscription ends the row.  That is all the pacing there *)
(* is: a connection the server closes cleanly is opened again at once,     *)
(* since its iteration ends without an exception.                          *)
ReconnectPaced ==
  [][link = "backoff" /\ link' = "connecting" /\ crashes' = crashes
       => elapsed = Lesser(BaseDelay * Power2[failed - 1], MaxDelay)]_vars
=============================================================================
