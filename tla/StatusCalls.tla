------------------------------ MODULE StatusCalls ------------------------------
(***************************************************************************)
(* app.Statuser and workspace.Actioner: what the status views and the      *)
(* actions of every provider have in common.  A call - Status,             *)
(* StatusOverview or PerformAction - asks the provider several times, and  *)
(* the provider goes on in between: what a view shows was never true all   *)
(* at once.  Several calls run at a time.                                  *)
(*                                                                         *)
(* The modules that EXTEND this one model the providers: what each keeps   *)
(* (cloud), what a call has read (read), and one action per request.       *)
(***************************************************************************)
EXTENDS Naturals, FiniteSets, Sequences

CONSTANTS
  Calls,        \* the calls that are made, at any time each
  MaxMoves,     \* bound on the steps that the provider takes by itself
  MaxFailures   \* bound on the requests that fail, all calls together

ASSUME CallsAssumption ==
  /\ IsFiniteSet(Calls)
  /\ MaxMoves \in Nat
  /\ MaxFailures \in Nat

VARIABLES
  app,       \* the provider, and what the app's outputs say; never changes
  asked,     \* the method of each call
  pc,        \* the request that each call makes next
  read,      \* what each call has read so far
  result,    \* "none", "ok", "error" or "panic"
  shown,     \* what each call returned
  cloud,     \* the state of the provider
  moves,     \* the steps that the provider has taken
  failures   \* the requests that have failed

statusVars == <<app, asked, pc, read, result, shown, cloud, moves, failures>>

Nothing == "nothing"

CallsInit(methods) ==
  /\ asked \in [Calls -> methods]
  /\ pc = [c \in Calls |-> "start"]
  /\ read = [c \in Calls |-> Nothing]
  /\ result = [c \in Calls |-> "none"]
  /\ shown = [c \in Calls |-> Nothing]
  /\ moves = 0
  /\ failures = 0

(* Call c goes on to another request, knowing what it has read.            *)
Goes(c, to, what) ==
  /\ pc' = [pc EXCEPT ![c] = to]
  /\ read' = [read EXCEPT ![c] = what]
  /\ UNCHANGED <<app, asked, result, shown, moves, failures>>

Ends(c, res, view) ==
  /\ pc' = [pc EXCEPT ![c] = "returned"]
  /\ read' = [read EXCEPT ![c] = Nothing]
  /\ result' = [result EXCEPT ![c] = res]
  /\ shown' = [shown EXCEPT ![c] = view]
  /\ UNCHANGED <<app, asked, moves>>

Returns(c, view) == Ends(c, "ok", view) /\ UNCHANGED failures

(* Call c returns an error of its own, or panics.                          *)
Refuses(c) == Ends(c, "error", Nothing) /\ UNCHANGED failures
Panics(c) == Ends(c, "panic", Nothing) /\ UNCHANGED failures

RequestFails ==
  /\ failures < MaxFailures
  /\ failures' = failures + 1

(* A request fails, and the call returns its error.                        *)
CallFails(c) ==
  /\ RequestFails
  /\ Ends(c, "error", Nothing)
  /\ UNCHANGED cloud

(* A request fails, and the call goes on without its answer.               *)
GoesWithout(c, to, what) ==
  /\ RequestFails
  /\ pc' = [pc EXCEPT ![c] = to]
  /\ read' = [read EXCEPT ![c] = what]
  /\ UNCHANGED <<app, asked, result, shown, cloud, moves>>

(* The provider is in another state.                                       *)
Moves(to) ==
  /\ moves < MaxMoves
  /\ moves' = moves + 1
  /\ cloud' = to
  /\ UNCHANGED <<app, asked, pc, read, result, shown, failures>>

AllReturned ==
  /\ \A c \in Calls : pc[c] = "returned"
  /\ UNCHANGED statusVars

Starting(c, methods) == pc[c] = "start" /\ asked[c] \in methods

Shows(c, method) == result[c] = "ok" /\ asked[c] = method

(* How far a run of a job has come.                                        *)
Rank(phase) ==
  CASE phase = "Queued" -> 0
    [] phase = "Running" -> 1
    [] OTHER -> 2
=============================================================================
