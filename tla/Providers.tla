------------------------------ MODULE Providers ------------------------------
(***************************************************************************)
(* The three machines between a provider and the database, side by side:   *)
(* Discovery, the push stream beside the list (PushStream), and a request  *)
(* of the primary (HttpRequest).  They share nothing that one of them      *)
(* changes, so a behaviour is one of `part` while the others rest, instead *)
(* of an interleaving of all three.                                        *)
(***************************************************************************)
EXTENDS Discovery

CONSTANTS
  HttpAttempts, BackoffBase, HttpTime,                             \* HttpRequest
  BaseDelay, MaxDelay, MaxCreated, MaxFailures, MaxCrashes         \* PushStream

VARIABLES
  part,      \* the machine of this behaviour
  clock, step, sent, answers, wake, received, result,              \* HttpRequest
  created, indexed, link, clean, attempt, wait, inbox, page, stored, unseen,
  failed, elapsed, failures, crashes                               \* PushStream

http == <<clock, step, sent, answers, wake, received, result>>
stream == <<created, indexed, link, clean, attempt, wait, inbox, page, stored, unseen,
            failed, elapsed, failures, crashes>>

Http == INSTANCE HttpRequest WITH MaxAttempts <- HttpAttempts, MaxTime <- HttpTime
Stream == INSTANCE PushStream

ASSUME ProvidersAssumption == Http!HttpAssumption /\ Stream!StreamAssumption

PartsInit ==
  /\ part \in {"discovery", "http", "stream"}
  /\ Init /\ Http!Init /\ Stream!Init

DiscoveryMoves == part = "discovery" /\ Next /\ UNCHANGED <<part, http, stream>>
HttpMoves == part = "http" /\ Http!Next /\ UNCHANGED <<part, vars, stream>>
StreamMoves == part = "stream" /\ Stream!Next /\ UNCHANGED <<part, vars, http>>

allVars == <<part, vars, http, stream>>

PartsSpec ==
  /\ PartsInit /\ [][DiscoveryMoves \/ HttpMoves \/ StreamMoves]_allVars
  /\ WF_vars(part = "discovery" /\ Poller)
  /\ WF_vars(part = "discovery" /\ HandleFrame)
  /\ WF_stream(part = "stream" /\ Stream!Poller)
  /\ WF_stream(part = "stream" /\ Stream!Socket)

-----------------------------------------------------------------------------
(* The type invariants of the three.                                       *)
Typed == TypeOK /\ Http!TypeOK /\ Stream!TypeOK

(* One answer decides a request, and no answer but the last was worth less *)
(* than a retry: see HttpRequest.                                          *)
OneDecision == Http!OneDecision

(* What the socket loses and the primary indexes the list finds: see       *)
(* PushStream.                                                             *)
EveryListedStored == Stream!EveryListedStored

(* The socket's backoff doubles up to its cap and is forgotten only by a   *)
(* subscription: see PushStream.                                           *)
ReconnectPaced == Stream!ReconnectPaced
=============================================================================
